SPECIFICATION BindingsSpec
CONSTANTS
  Platforms = {"apple"}
  Conns = {c1}
  Callers = {t1}
  MaxBegins = 1
  MaxProxies = 1
INVARIANT CastingEventsArrive
CHECK_DEADLOCK FALSE
