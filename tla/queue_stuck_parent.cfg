CONSTANTS
    f = f
    a = a
    b = b
    d = d
    none = none
    r1 = r1
    r2 = r2
    Orbs <- PipelineOrbs
    Phased = {f}
    Planned = {a, b}
    NoOrb = none
    Parent <- PipelineParent
    Deps <- PipelineDeps
    FinalWork = {}
    Runners = {r1}
    MaxConcurrency = 2
    ReviewOnCompletion = {FALSE}
    HooksAbort = FALSE
    Edits = {}
    Faults = {}
    MaxFaults = 0
    MaxSetbacks = 1
    MaxMoves = 1
SPECIFICATION LiveSpec
PROPERTIES
    RootsWithDoneChildrenComplete
