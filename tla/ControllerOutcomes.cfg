SPECIFICATION Spec
CONSTANTS
  Replicas <- OneOfEach
  MaxPods = 1
  MaxLost = 0
  MaxVersions = 2
  MaxCalls = 1
  Env = {"succeed", "fail", "writeErrors", "touch", "relist", "crash"}
  Webhooks = {}
  HasFinalizer = FALSE
CHECK_DEADLOCK FALSE
INVARIANTS NotBothFinal FinishedFrozen NothingTakenBack SucceededEarned FailedHasCause DeletedWhenDecided ReplicasAccounted
PROPERTIES FinishingStops
