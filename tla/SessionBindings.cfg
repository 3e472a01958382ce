SPECIFICATION FairBindingsSpec
CONSTANTS
  Platforms = {"android", "apple"}
  Conns = {c1, c2}
  Callers = {t1}
  MaxBegins = 2
  MaxProxies = 2
INVARIANTS NoneOutlivesItsService NothingDeletedIsUsed
PROPERTIES EndIsReported
CHECK_DEADLOCK FALSE
