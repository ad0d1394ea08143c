CONSTANTS
    f = f
    a = a
    b = b
    d = d
    none = none
    r1 = r1
    r2 = r2
    Orbs <- PipelineOrbs
    Phased = {f}
    Planned = {a, b}
    NoOrb = none
    Parent <- PipelineParent
    Deps <- PipelineDeps
    FinalWork = {}
    Runners = {r1}
    MaxConcurrency = 2
    ReviewOnCompletion = {FALSE}
    HooksAbort = TRUE
    Edits = {}
    Faults = {}
    MaxFaults = 0
    MaxSetbacks = 3
    MaxMoves = 0
SPECIFICATION Spec
PROPERTIES
    OnlyWaitingReevaluated
