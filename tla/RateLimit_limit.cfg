SPECIFICATION Spec
CONSTANTS
  Clients = {a, b}
  Requests = {r1, r2, r3, r4}
  Limit = 2
  Minute = 2
  PoolSize = 2
  Horizon = 4
SYMMETRY Symmetry
INVARIANTS IInv AtMostLimit LimitedOnlyByOwn CountersExpire
