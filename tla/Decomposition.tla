------------------------------ MODULE Decomposition ------------------------------
(***************************************************************************)
(* Turning the plan of a decomposition worker into child orbs and dependency  *)
(* edges: materialize_plan, a pure function of the plan, and                  *)
(* apply_decomposition, which writes the graph one record at a time and may    *)
(* have to finish what an interrupted run began.  A parent begins without      *)
(* children, with the scaffold of `plan --shallow`, or, from an old version,    *)
(* past its decomposition and without a graph.                               *)
(***************************************************************************)
EXTENDS Naturals, Sequences, FiniteSetsExt

CONSTANTS
    Plans,              \* responses of a worker, valid or not
    MaxChildren,        \* bound on the subtasks of a plan
    MaxInterruptions    \* bound on crashes and failed writes

\* A subtask: its local id, 0 when it has none; the ids it declares to depend on, or
\* None; and its order group.
None == {0}
Task == [id : 0..MaxChildren, deps : (SUBSET (1..MaxChildren)) \cup {None}, order : Nat]

ASSUME DecompositionAssumption ==
    /\ MaxChildren \in Nat /\ MaxInterruptions \in Nat
    /\ Plans \subseteq Seq(Task) /\ \A p \in Plans : Len(p) <= MaxChildren

VARIABLES
    parent,         \* "decomposing", or "released" once it is past it
    child,          \* per position: its state, and the plan it was made from
    edges,          \* stored edges
    pin,            \* the plan file: "none", "torn" or "written", and its plan
    plan,           \* the plan being applied
    todo,           \* its children that no record was read for, still to be appended
    pc,             \* how far its application is
    legacy,         \* the parent was decomposed by an old version
    interruptions

graph == <<child, edges>>
dvars == <<parent, graph, pin, plan, todo, pc, legacy, interruptions>>

Children == 1..MaxChildren
Hierarchy(i) == {<<"parent", i, 0>>, <<"child", i, 0>>}
Follows(i, j) == <<"follows", i, j>>
Edge == {"parent", "child"} \X Children \X {0} \cup {"follows"} \X Children \X Children
NoPlan == <<>>
Child(st, p) == [st |-> st, of |-> p]
Pin(st, p) == [st |-> st, of |-> p]

DecompositionTypeOK ==
    /\ parent \in {"decomposing", "released"}
    /\ child \in [Children -> [st : {"absent", "scaffold", "planned", "edited", "deleted"},
                               of : Plans \cup {NoPlan}]]
    /\ edges \subseteq Edge
    /\ pin \in [st : {"none", "torn", "written"}, of : Plans \cup {NoPlan}]
    /\ plan \in Plans \cup {NoPlan}
    /\ todo \subseteq Children
    /\ pc \in {"idle", "pinning", "writing"}
    /\ legacy \in BOOLEAN
    /\ interruptions \in 0..MaxInterruptions
-----------------------------------------------------------------------------
(* materialize_plan.                                                          *)

Tasks(p) == DOMAIN p
HasIds(p) == \E i \in Tasks(p) : p[i].id # 0
OrderOnly(p) == \A i \in Tasks(p) : p[i].id = 0 /\ p[i].deps = None
Prerequisites(p, i) == {j \in Tasks(p) : p[j].id \in p[i].deps}

\* What the loop of validate_graph has completed after n passes.
Completed(p) ==
    LET done[n \in 0..Len(p)] ==
            IF n = 0 THEN {} ELSE {i \in Tasks(p) : Prerequisites(p, i) \subseteq done[n - 1]}
    IN done[Len(p)]

ValidGraph(p) ==
    \/ OrderOnly(p)
    \/ /\ \A i \in Tasks(p) : p[i].id # 0 /\ p[i].deps # None
       /\ \A i, j \in Tasks(p) : i # j => p[i].id # p[j].id
       /\ \A i \in Tasks(p) : p[i].deps \subseteq {p[j].id : j \in Tasks(p) \ {i}}
       /\ Completed(p) = Tasks(p)

Valid(p) == p # <<>> /\ ValidGraph(p)

\* Mutant: the groups are chained by the order of the input.
ChainedOrderings(p) ==
    IF HasIds(p) THEN UNION {{Follows(i, j) : j \in Prerequisites(p, i)} : i \in Tasks(p)}
    ELSE {Follows(i, i - 1) : i \in {k \in Tasks(p) : k > 1 /\ p[k].order > p[k - 1].order}}

NextGroup(p, j, i) ==
    /\ p[j].order < p[i].order
    /\ \A k \in Tasks(p) : ~(p[j].order < p[k].order /\ p[k].order < p[i].order)

\* Declared prerequisites; or each order group after all of the one before it.
Orderings(p) ==
    IF HasIds(p) THEN UNION {{Follows(i, j) : j \in Prerequisites(p, i)} : i \in Tasks(p)}
    ELSE UNION {{Follows(i, j) : j \in {k \in Tasks(p) : NextGroup(p, k, i)}} : i \in Tasks(p)}

Graph(p) == (UNION {Hierarchy(i) : i \in Tasks(p)}) \cup Orderings(p)
-----------------------------------------------------------------------------
(* apply_decomposition.                                                       *)

\* What load_all returns: a deleted child is a tombstone, which it leaves out.
Present == {i \in Children : child[i].st \notin {"absent", "deleted"}}
StoredOrderings == {e \in edges : e[1] = "follows"}

\* Before anything is written: no child would be orphaned, no ordering dropped.
Reconciles(p) ==
    /\ Present \subseteq Tasks(p)
    /\ {e \in StoredOrderings : {e[2], e[3]} \subseteq Tasks(p)} \subseteq Orderings(p)

\* Mutant: a plan that is there already is not compared.
ReadablePin(p) == pin.st # "torn"
Pinned(p) == pin = Pin("written", p) \/ pin.st = "none"

\* Mutant: replay begins every child afresh.
EveryChild(p) == Tasks(p)
MissingChildren(p) == Tasks(p) \ Present

\* The rejections leave nothing written.  The list of orbs is read here and not again.
Apply(p) ==
    /\ pc = "idle" /\ Valid(p) /\ Reconciles(p) /\ Pinned(p)
    /\ plan' = p /\ todo' = MissingChildren(p)
    /\ IF pin.st = "written" THEN pc' = "writing" /\ UNCHANGED pin
                             ELSE pc' = "pinning" /\ pin' = Pin("torn", NoPlan)
    /\ UNCHANGED <<parent, graph, legacy, interruptions>>

\* The episode of a decomposition worker.
Decompose(p) == parent = "decomposing" /\ Apply(p)

\* orb recover-decomposition, with the response saved on the parent.
Recover(p) == parent = "released" /\ (pin.st = "written" => p = pin.of) /\ Apply(p)

SyncPlan ==
    /\ pc = "pinning" /\ pc' = "writing" /\ pin' = Pin("written", plan)
    /\ UNCHANGED <<parent, graph, plan, todo, legacy, interruptions>>

\* Mutant: only the hierarchy is compared with what is stored.
MissingLinks == (UNION {Hierarchy(i) : i \in Tasks(plan)}) \ edges
MissingEdges == Graph(plan) \ edges

\* What was read stays as it is, with the edits and results it has.
AppendChild ==
    /\ pc = "writing" /\ todo # {}
    /\ child' = [child EXCEPT ![Min(todo)] = Child("planned", plan)]
    /\ todo' = todo \ {Min(todo)}
    /\ UNCHANGED <<parent, edges, pin, plan, pc, legacy, interruptions>>

\* One edge at a time, in an order that is fixed but does not matter.
AddEdge ==
    /\ pc = "writing" /\ todo = {}
    /\ MissingEdges # {}
    /\ edges' = edges \cup {CHOOSE e \in MissingEdges : TRUE}
    /\ UNCHANGED <<parent, child, pin, plan, todo, pc, legacy, interruptions>>

Release ==
    /\ pc = "writing" /\ todo = {} /\ MissingEdges = {}
    /\ parent' = "released" /\ legacy' = FALSE /\ pc' = "idle" /\ plan' = NoPlan
    /\ UNCHANGED <<graph, pin, todo, interruptions>>

\* A crash, or a write that fails: nothing of what was written is taken back.
Interrupt ==
    /\ pc # "idle" /\ interruptions < MaxInterruptions
    /\ interruptions' = interruptions + 1
    /\ pc' = "idle" /\ plan' = NoPlan /\ todo' = {}
    /\ UNCHANGED <<parent, graph, pin, legacy>>

\* An operator, a worker or a tick changes a child.
EditChild(i) ==
    /\ child[i].st \in {"scaffold", "planned"}
    /\ child' = [child EXCEPT ![i].st = "edited"]
    /\ UNCHANGED <<parent, edges, pin, plan, todo, pc, legacy, interruptions>>

\* An operator deletes a child.  Its edges stay.
DeleteChild(i) ==
    /\ i \in Present
    /\ child' = [child EXCEPT ![i].st = "deleted"]
    /\ UNCHANGED <<parent, edges, pin, plan, todo, pc, legacy, interruptions>>

\* build_shared_plan chains the children of its scaffold.
Scaffold(n) ==
    /\ child = [i \in Children |-> Child(IF i <= n THEN "scaffold" ELSE "absent", NoPlan)]
    /\ edges = (UNION {Hierarchy(i) : i \in 1..n}) \cup {Follows(i, i - 1) : i \in 2..n}

DecompositionInit ==
    /\ \/ parent = "decomposing" /\ legacy = FALSE /\ \E n \in 0..MaxChildren : Scaffold(n)
       \/ parent = "released" /\ legacy = TRUE /\ Scaffold(0)
    /\ pin = Pin("none", NoPlan) /\ plan = NoPlan /\ todo = {} /\ pc = "idle"
    /\ interruptions = 0

DecompositionNext ==
    \/ \E p \in Plans : Decompose(p) \/ Recover(p)
    \/ SyncPlan \/ AppendChild \/ AddEdge \/ Release
    \/ Interrupt
    \/ \E i \in Children : EditChild(i) \/ DeleteChild(i)

DecompositionSpec == DecompositionInit /\ [][DecompositionNext]_dvars
-----------------------------------------------------------------------------
Whole == parent = "released" /\ ~legacy

\* However often the writing was interrupted and begun again, a parent goes on only
\* with the whole graph of one plan: every child has a record, every edge is stored,
\* among the children there is no other ordering, and no other child shows.
Inside(p) == {e \in edges : e[2] \in Tasks(p) /\ e[3] \in Tasks(p) \cup {0}}
ReleasedGraphIsWhole ==
    Whole =>
        /\ pin.st = "written"
        /\ \A i \in Tasks(pin.of) : child[i].st # "absent"
        /\ Inside(pin.of) = Graph(pin.of)
        /\ Present \subseteq Tasks(pin.of)

\* A released graph can be worked off, and in the order the plan asked for: no set of
\* children waits for itself, and what is in a later group comes, over some chain of
\* edges, after everything in an earlier one.
WaitsFor(i, j) == Follows(i, j) \in edges
Comes(i, j) ==
    \A S \in SUBSET Tasks(pin.of) :
        i \in S /\ (\A a \in S : \A b \in Tasks(pin.of) : WaitsFor(a, b) => b \in S) => j \in S
OrderingIsKept ==
    Whole =>
        /\ \A S \in (SUBSET Tasks(pin.of)) \ {{}} : \E i \in S : \A j \in S : ~WaitsFor(i, j)
        /\ OrderOnly(pin.of) =>
               \A i, j \in Tasks(pin.of) : pin.of[j].order < pin.of[i].order => Comes(i, j)

\* Replay never begins a child afresh that is there to be seen: edits, a scaffold and
\* results survive it, however long ago it read the list of orbs.
ChildrenSurviveReplay ==
    [][\A i \in Present :
            child'[i].of = child[i].of /\ child'[i].st \in {child[i].st, "edited", "deleted"}]_dvars

\* "Existing records are authoritative, including operator edits and terminal results.
\* Replay must never append a fresh Pending version."  A deletion is such an edit, but
\* its record is a tombstone, which the replay does not see: a child that the plan had
\* begun and an operator deleted is begun again.
DeletionsSurviveReplay ==
    [][\A i \in Children :
          child[i].st = "deleted" /\ child[i].of # NoPlan => child'[i] = child[i]]_dvars

\* The plan file is the decision, and the release shows what is stored of it.
PlanGraphs == [p \in {q \in Plans : Valid(q)} |-> [children |-> Tasks(p), edges |-> Graph(p)]]
Decision == IF pin.st = "written" THEN pin.of ELSE NoPlan
Recorded(p) == {i \in Tasks(p) : child[i].st # "absent"}
Shown == IF Whole THEN {[children |-> Recorded(pin.of), edges |-> Inside(pin.of)]} ELSE {}

D == INSTANCE DecompositionContract WITH
    Positions <- Children, Graphs <- PlanGraphs,
    decision <- Decision, begun <- [i \in Children |-> child[i].of], released <- Shown

\* Workers may answer a repeated decomposition with another plan, and each of the many
\* writes may be the last.  Still one plan is decided on, every child is made from it, and
\* from no other when it is made again after a deletion, and the whole graph of the plan
\* appears at once, at the release, for good.
ImplementsDecision == D!Contract
=============================================================================
