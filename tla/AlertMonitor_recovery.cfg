SPECIFICATION FairSpec
CONSTANTS
  Checks = {c1}
  Failing = {"beat", "redis", "db"}
  CheckInterval = 1
  HeartbeatInterval = 1
  DedupeTicks = 1
  ZeroTicks = 1
  WorkerZeroEnabled = FALSE
  Recovery = TRUE
  Prompt = TRUE
  QueueBound = 1
INVARIANTS AlertRemembered
PROPERTIES RecoveryAnswersFailure RecoveriesTold
