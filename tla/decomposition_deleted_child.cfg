SPECIFICATION Spec
CONSTANTS
    Projects = {p}
    Startup = {p}
    ThreadCounts = {2}
    Plans <- OrderPlans
    MaxChildren = 3
    MaxInterruptions = 1
    WorkerModels = {m1}
    MaxTurns = 1
    MaxExtras = 0
    Configs = {}
    MaxHooks = 1
    Callers = {"command"}
    Files <- AllFiles
    Models = {"p/m", "p/fast"}
    CliModels = {"none"}
    Corpora = {}
    JobCounts = {1}
    MaxSteps = 1
PROPERTIES
    DeletionsSurviveReplay
\* A released parent and a closed chat have no next step.
CHECK_DEADLOCK FALSE
