SPECIFICATION Spec
CONSTANTS
  Replicas <- OneOfEach
  MaxPods = 1
  MaxLost = 0
  MaxVersions = 2
  MaxCalls = 1
  Env = {"delete"}
  Webhooks = {}
  HasFinalizer = FALSE
CHECK_DEADLOCK FALSE
INVARIANTS ServiceControlled
