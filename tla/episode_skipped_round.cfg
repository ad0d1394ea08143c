CONSTANTS
    HooksAbort = FALSE
    Configs <- RefiningConfigs
    Faults = {"crash"}
    MaxEpisodes = 2
    MaxFaults = 1
SPECIFICATION Spec
INVARIANTS
    NoRoundIsSkipped
