SPECIFICATION FairSpec
CONSTANTS
  Checks = {c1}
  Failing = {"inspect", "workers", "url"}
  CheckInterval = 3
  HeartbeatInterval = 2
  DedupeTicks = 2
  ZeroTicks = 2
  WorkerZeroEnabled = TRUE
  Recovery = TRUE
  Prompt = TRUE
  QueueBound = 1
PROPERTIES ZeroLasted WorkersMissingTold
