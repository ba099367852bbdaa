SPECIFICATION FairSpec
CONSTANTS
  Replicas <- OneOfEach
  MaxPods = 1
  MaxLost = 0
  MaxVersions = 6
  MaxCalls = 1
  Env = {"succeed", "fail", "relist"}
  Webhooks = {}
  HasFinalizer = FALSE
CHECK_DEADLOCK FALSE
PROPERTIES JobFinishes
