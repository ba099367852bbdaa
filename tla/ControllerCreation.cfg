SPECIFICATION Spec
CONSTANTS
  Replicas <- OneOfEach
  MaxPods = 2
  MaxLost = 1
  MaxVersions = 2
  MaxCalls = 1
  Env = {"writeErrors", "serviceLoss", "touch", "relist", "crash"}
  Webhooks = {}
  HasFinalizer = FALSE
CHECK_DEADLOCK FALSE
INVARIANTS InitializedMeansCreated NoOverProvision
