SPECIFICATION WSpec
CONSTANTS
  Webhooks = {"finish"}
  HasFinalizer = FALSE
  Env = {}
  MaxVersions = 2
  MaxCalls = 2
  Steps = 2
  CallId = {1, 2, 3}
  Configs = {"url"}
  BadConfigs = {}
  Answers = {"noResult", "success"}
CHECK_DEADLOCK FALSE
INVARIANTS NoCallLost
