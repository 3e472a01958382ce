SPECIFICATION Spec
CONSTANTS
  Instances <- MCInstances
INVARIANTS StreamsAreClear CiphersAreNotShared PairVerifySucceeds QueriesReachTheSender RepliesAreReadable
CHECK_DEADLOCK FALSE
