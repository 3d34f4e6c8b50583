SPECIFICATION FairSpec
CONSTANTS
  Checks = {c1}
  Failing = {"db", "beat"}
  CheckInterval = 1
  HeartbeatInterval = 2
  DedupeTicks = 2
  ZeroTicks = 1
  WorkerZeroEnabled = FALSE
  Recovery = TRUE
  Prompt = TRUE
  QueueBound = 1
PROPERTIES OutageTold
