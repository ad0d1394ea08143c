------------------------------ MODULE MCComponents ------------------------------
(* Components that share no state, checked side by side: a behaviour is one of  *)
(* one of them, its subject, and the others rest.                            *)
EXTENDS Supervisor, Decomposition, Conversation, Hooks, Configuration, Benchmark, TLC

VARIABLE subject
vars == <<subject, svars, dvars, cvars, hvars, fvars, bvars>>

\* Plans: by order group, declared graphs, and malformed ones.
L(o) == [id |-> 0, deps |-> None, order |-> o]
T(i, d) == [id |-> i, deps |-> d, order |-> 1]
OrderPlans == UNION {[1..n -> {L(1), L(2), L(3)}] : n \in 1..2}
                  \cup {t \in [1..3 -> {L(1), L(2), L(3)}] : \E i \in 1..3 : t[i] = L(1)}
GraphPlans == UNION {{[i \in 1..n |-> T(i, d[i])] : d \in [1..n -> SUBSET (1..n)]} : n \in 1..2}
ThreeTaskGraphs == {<<T(1, {}), T(2, {1}), T(3, {1})>>, <<T(1, {2}), T(2, {3}), T(3, {1})>>,
                    <<T(1, {3}), T(2, {3}), T(3, {})>>}
Malformed == {<<>>, <<T(1, {}), L(1)>>, <<T(1, {}), T(1, {})>>, <<T(1, {3})>>, <<T(1, None)>>}
AllPlans == OrderPlans \cup GraphPlans \cup ThreeTaskGraphs \cup Malformed

\* Hooks: every kind alone, and after an async one, with a third that may not run.
H(sync, aborts, starts, reads, exit) ==
    [enabled |-> TRUE, accepts |-> TRUE, sync |-> sync, timeoutAborts |-> aborts,
     starts |-> starts, reads |-> reads, talks |-> FALSE, exit |-> exit]
Quiet == {H(s, a, TRUE, r, e) : s, a, r \in BOOLEAN, e \in {"zero", "one", "two", "never"}}
Kinds == Quiet \cup {[h EXCEPT !.talks = TRUE] : h \in {q \in Quiet : q.sync /\ ~q.timeoutAborts}}
Async == H(FALSE, FALSE, TRUE, TRUE, "zero")
Thirds == {H(TRUE, FALSE, FALSE, TRUE, "zero"), H(TRUE, FALSE, TRUE, TRUE, "zero"),
           H(FALSE, FALSE, FALSE, TRUE, "zero"), [Async EXCEPT !.enabled = FALSE]}
AllConfigs == {<<h>> : h \in Kinds} \cup {<<Async, h, third>> : h \in Kinds, third \in Thirds}

\* Files: one layer defines an option, one selects for a role or for the default.
NoFile == [key \in {} |-> ""]
Catalogue == <<"models.options", "fast">> :> "p/fast"
Selections == UNION {{key :> "fast", key :> "p/m"} :
    key \in {<<"models.phases", "p">>, <<"models.default", "worker">>, ReviewerModel, DefaultModel}}
AllFiles == {[layer \in Layers |-> CASE layer = a -> Catalogue [] layer = b -> s [] OTHER -> NoFile] :
    a \in {"global", "user"}, b \in {"root", "local", "cli"}, s \in Selections}

\* Benchmarks: every selection of one and of two cases, and one of three.
KindsOfCases == {"prompt", "change", "decompose", "greenfield"}
AllCorpora == UNION {[1..n -> KindsOfCases] : n \in 1..2} \cup {<<"change", "prompt", "change">>}

Rest(name) ==
    /\ name # "supervisor" =>
           /\ threads = 1 /\ attached = {} /\ ticking = {} /\ lost = {}
           /\ started = [p \in Startup |-> "stopped"] /\ queue = [p \in Projects |-> "none"]
           /\ stopping = TRUE /\ signal = TRUE /\ admission = "done" /\ loop = "exited"
           /\ task = [p \in Projects |-> "none"]
    /\ name # "decomposition" =>
           /\ parent = "decomposing" /\ legacy = FALSE /\ Scaffold(0)
           /\ pin = Pin("none", NoPlan) /\ plan = NoPlan /\ todo = {} /\ pc = "idle"
           /\ interruptions = 0
    /\ name # "conversation" =>
           /\ chat = "over" /\ worker = "none" /\ status = "closed"
           /\ turn = 0 /\ context = FALSE /\ model = CHOOSE m \in WorkerModels : TRUE
           /\ asked = 0 /\ pipe = <<>> /\ broken = FALSE
           /\ log = <<>> /\ full = FALSE /\ orbs = 0
    /\ name # "hooks" =>
           /\ hooks = <<Async>> /\ caller = "command" /\ large = FALSE /\ at = 2 /\ firing = "gone"
           /\ outcome = "ok" /\ process = <<"ended">> /\ input = <<"given">>
    /\ name # "configuration" =>
           /\ files = [layer \in Layers |-> NoFile] /\ registered = "none" /\ found = "none"
           /\ config = DefaultModel :> "" /\ step = "resolved" /\ source = DefaultModel
    /\ name # "benchmark" =>
           /\ corpus = <<"change">> /\ jobs = 1
           /\ stage = <<"kept">> /\ attempt = <<Fresh>> /\ verdict = <<"error">>
           /\ halted = FALSE /\ rows = {1} /\ counted = {1} /\ run = "ended"

Init ==
    /\ subject \in {"supervisor", "decomposition", "conversation", "hooks", "configuration",
                    "benchmark"}
    /\ subject = "supervisor" => SupervisorInit
    /\ subject = "decomposition" => DecompositionInit
    /\ subject = "conversation" => ConversationInit
    /\ subject = "hooks" => HooksInit
    /\ subject = "configuration" => ConfigurationInit
    /\ subject = "benchmark" => BenchmarkInit
    /\ Rest(subject)

Next ==
    \/ /\ subject = "supervisor" /\ SupervisorNext
       /\ UNCHANGED <<subject, dvars, cvars, hvars, fvars, bvars>>
    \/ /\ subject = "decomposition" /\ DecompositionNext
       /\ UNCHANGED <<subject, svars, cvars, hvars, fvars, bvars>>
    \/ /\ subject = "conversation" /\ ConversationNext
       /\ UNCHANGED <<subject, svars, dvars, hvars, fvars, bvars>>
    \/ /\ subject = "hooks" /\ HooksNext
       /\ UNCHANGED <<subject, svars, dvars, cvars, fvars, bvars>>
    \/ /\ subject = "configuration" /\ ConfigurationNext
       /\ UNCHANGED <<subject, svars, dvars, cvars, hvars, bvars>>
    \/ /\ subject = "benchmark" /\ BenchmarkNext
       /\ UNCHANGED <<subject, svars, dvars, cvars, hvars, fvars>>

Spec == Init /\ [][Next]_vars /\ SupervisorFairness /\ HooksFairness

TypesOK ==
    /\ subject = "supervisor" => SupervisorTypeOK
    /\ subject = "decomposition" => DecompositionTypeOK
    /\ subject = "conversation" => ConversationTypeOK
    /\ subject = "hooks" => HooksTypeOK
    /\ subject = "configuration" => ConfigurationTypeOK
    /\ subject = "benchmark" => BenchmarkTypeOK
=============================================================================
