CONSTANTS
    f = f
    a = a
    b = b
    d = d
    none = none
    r1 = r1
    r2 = r2
    Orbs <- PipelineOrbs
    Phased = {f}
    Planned = {a, b}
    NoOrb = none
    Parent <- PipelineParent
    Deps <- PipelineDeps
    FinalWork = {f}
    Runners = {r1}
    MaxConcurrency = 2
    ReviewOnCompletion = {TRUE, FALSE}
    HooksAbort = TRUE
    Edits = {}
    Faults = {"crash", "error"}
    MaxFaults = 1
    MaxSetbacks = 2
    MaxMoves = 3
SPECIFICATION LiveSpec
INVARIANTS
    TypeOK
    ClaimsExclusive
    AcceptedWorkNotRepeated
    DependenciesHoldWhileExecuting
    AncestorsReleasedWhileExecuting
    ParentFollowsChildren
    NoStrandedMarker
    FailedAttemptIsResettable
PROPERTIES
    TerminalIsFinal
    StopDrains
    QueueDrains
