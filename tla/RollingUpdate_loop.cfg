SPECIFICATION RUFairSpec
CONSTANTS
  Replicas = {a, b, c}
INVARIANTS TrafficServed
PROPERTIES UpdateEnds
