SPECIFICATION Spec
CONSTANTS
    Projects = {p, q}
    Startup = {p}
    ThreadCounts = {1, 2, 3}
    Plans <- AllPlans
    MaxChildren = 3
    MaxInterruptions = 1
    WorkerModels = {m1, m2}
    MaxTurns = 2
    MaxExtras = 2
    Configs <- AllConfigs
    MaxHooks = 3
    Callers = {"daemon", "command"}
    Files <- AllFiles
    Models = {"p/m", "p/fast"}
    CliModels = {"none", "fast", "slow"}
    Corpora <- AllCorpora
    JobCounts = {1, 2}
    MaxSteps = 3
INVARIANTS
    TypesOK
    OutcomesAreStored
    ReleasedGraphIsWhole
    OrderingIsKept
    AnswersBelongToTheirTurn
    ResetsSeparate
    RolesResolve
    SummariesCountResults
PROPERTIES
    ShutdownEnds
    AttachedProjectsTick
    ChildrenSurviveReplay
    ImplementsDecision
    EveryHookIsServed
\* A released parent, a closed chat, a resolved configuration and a finished benchmark
\* have no next step.
CHECK_DEADLOCK FALSE
