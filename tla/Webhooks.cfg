SPECIFICATION WFairSpec
CONSTANTS
  Webhooks = {"finish"}
  HasFinalizer = TRUE
  Env = {"touch", "delete", "relist", "crash"}
  MaxVersions = 2
  MaxCalls = 2
  Steps = 2
  CallId = {1, 2, 3}
  Configs = {"url", "neither"}
  BadConfigs = {"neither"}
  Answers = {"error", "absent", "serverError", "noResult", "success", "refused"}
CHECK_DEADLOCK FALSE
INVARIANTS WTypeOK PhaseOrder FinishNotified FinalizerHonoured UnfinishedWaits OutcomeAnnounced
PROPERTIES DeletionSurvivesHooks
