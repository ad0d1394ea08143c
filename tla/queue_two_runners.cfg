CONSTANTS
    f = f
    a = a
    b = b
    d = d
    none = none
    r1 = r1
    r2 = r2
    Orbs <- TaskOrbs
    Phased = {}
    Planned = {}
    NoOrb = none
    Parent <- TaskParent
    Deps <- TaskDeps
    FinalWork = {}
    Runners = {r1, r2}
    MaxConcurrency = 1
    ReviewOnCompletion = {FALSE}
    HooksAbort = FALSE
    Edits = {"status", "delete"}
    Faults = {"crash", "error"}
    MaxFaults = 1
    MaxSetbacks = 0
    MaxMoves = 1
SPECIFICATION Spec
SYMMETRY RunnerSymmetry
INVARIANTS
    ClaimsExclusive
