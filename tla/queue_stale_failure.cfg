CONSTANTS
    f = f
    a = a
    b = b
    d = d
    none = none
    r1 = r1
    r2 = r2
    Orbs <- TaskOrbs
    Phased = {}
    Planned = {}
    NoOrb = none
    Parent <- TaskParent
    Deps <- TaskDeps
    FinalWork = {}
    Runners = {r1, r2}
    MaxConcurrency = 1
    ReviewOnCompletion = {FALSE}
    HooksAbort = FALSE
    Edits = {}
    Faults = {}
    MaxFaults = 0
    MaxSetbacks = 1
    MaxMoves = 0
SPECIFICATION Spec
PROPERTIES
    FailedStaysTerminal
