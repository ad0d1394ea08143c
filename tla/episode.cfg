CONSTANTS
    HooksAbort = TRUE
    Configs <- AllConfigs
    Faults = {"crash", "error", "ladder"}
    MaxEpisodes = 2
    MaxFaults = 1
SPECIFICATION LiveSpec
INVARIANTS
    TypeOK
    LeftWorkerBlocksReplacement
    BouncesAreBounded
    RejectedCandidateIsUndone
    OnlyReviewedSpecsAdvance
    DoneIsCommitted
PROPERTIES
    ImplementsContract
    StopEndsEpisode
