SPECIFICATION FairSpec
CONSTANTS
    Callers = {"phone", "laptop"}
    Configs <- SmallConfigs
    FirstConfig <- Initially
    Jobs <- SmallJobs
    SavesFail = TRUE
    Restarts = TRUE
    Drops = {"queued"}
INVARIANTS
    MemoryIsOnDisk
PROPERTIES
    StoresPolicy
    EveryoneIsAnswered
