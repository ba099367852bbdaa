\* Two jobs, every disturbance: no change is lost on the way from the watch to
\* the handler, and the handler catches up in the end.
SPECIFICATION FairSpec
CONSTANTS
    Keys = {k1, k2}
    MaxRetries = 1
    MaxVersions = 2
    MaxEvents = 2
    Env = {"fail", "relist", "race", "crash"}
INVARIANTS TypeOK NothingForgotten QueueSound
PROPERTIES CatchesUp
