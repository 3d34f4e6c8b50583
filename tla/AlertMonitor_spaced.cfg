SPECIFICATION Spec
CONSTANTS
  Checks = {c1, c2}
  Failing = {"child", "webhook"}
  CheckInterval = 1
  HeartbeatInterval = 1
  DedupeTicks = 2
  ZeroTicks = 1
  WorkerZeroEnabled = FALSE
  Recovery = FALSE
  Prompt = FALSE
  QueueBound = 1
SYMMETRY CheckSymmetry
PROPERTIES AlertsSpaced
