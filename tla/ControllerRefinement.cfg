SPECIFICATION Spec
CONSTANTS
  Replicas <- OneOfEach
  MaxPods = 1
  MaxLost = 0
  MaxVersions = 2
  MaxCalls = 1
  Env = {"succeed", "timeout", "touch", "delete"}
  Webhooks = {"start", "finish"}
  HasFinalizer = TRUE
CHECK_DEADLOCK FALSE
INVARIANTS StartNotified
PROPERTIES ImplementsLifecycle
