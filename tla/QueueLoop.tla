------------------------------- MODULE QueueLoop -------------------------------
(***************************************************************************)
(* The queue loop of orboros: lifecycle ticks, worker dispatch under        *)
(* durable claims, and the operator commands that write to the same store.  *)
(*                                                                         *)
(* A runner is a process that drives a QueueLoop: the daemon, or a          *)
(* foreground `run` / `execute`.  It alternates a tick (stages start, ready,*)
(* roots, waiting) with a dispatch round (one task per target orb).  Every  *)
(* call that reaches the orb store, a claim file or a worker is one step;   *)
(* everything between two awaits that only reads its own copy is part of    *)
(* that step.                                                              *)
(***************************************************************************)
EXTENDS Naturals, FiniteSets

CONSTANTS
    Orbs,               \* the orbs of one project
    Phased,             \* epics and features: the orbs that use `phase`
    Planned,            \* tasks that exist only once their parent is decomposed
    NoOrb,              \* "no parent"
    Parent,             \* parent_id of each orb
    Deps,               \* <<o, d>>: o depends on d (DependsOn, or Blocks reversed)
    FinalWork,          \* has_parent_final_work
    Runners,            \* processes that run a queue loop on this store
    MaxConcurrency,     \* workers one runner runs at a time
    ReviewOnCompletion, \* values review.review_on_completion may have
    HooksAbort,         \* whether a pre-phase-transition hook may exit 2
    Edits,              \* operator edits allowed: subset of {"status", "delete"}
    Faults,             \* disturbances allowed: subset of {"crash", "error"}
    MaxFaults,          \* bound on crashes and per-dispatch errors
    MaxSetbacks,        \* bound on failed, aborted, pivoted and rejected attempts
    MaxMoves            \* bound on operator commands

\* Lifecycle states.  One name space for OrbStatus and OrbPhase: tasks use the
\* first set, epics and features the second; "absent" and "tombstone" are the
\* records that load_all does not return.
TaskStates == {"pending", "active", "review", "done", "failed", "cancelled"}
PhaseStates == {"pending", "speccing", "decomposing", "refining", "review", "waiting",
                "reevaluating", "executing", "executing_children", "done", "failed",
                "cancelled"}
Hidden == {"absent", "tombstone"}
States == TaskStates \cup PhaseStates \cup Hidden
Terminal == {"done", "failed", "cancelled"}

\* The states in which a worker is dispatched.  Each names its DispatchTarget;
\* "active" and "executing" are both the target Execute.
Executes == {"active", "executing"}
WorkPhases == {"speccing", "decomposing", "refining", "reevaluating", "executing"}
Targets == WorkPhases \cup {"active"}
NoWork == "none"

Children(o) == {c \in Orbs : Parent[c] = o}
Blockers(o) == {d \in Orbs : <<o, d>> \in Deps}

\* Ancestry as a chain of parents.  The parent relation has no cycle: in every
\* set of orbs there is one whose parent is not in the set.
Ancestors[o \in Orbs \cup {NoOrb}] ==
    IF o = NoOrb \/ Parent[o] = NoOrb THEN {}
    ELSE {Parent[o]} \cup Ancestors[Parent[o]]

ASSUME QueueAssumption ==
    /\ Phased \subseteq Orbs
    /\ Planned \subseteq Orbs \ Phased
    /\ FinalWork \subseteq Phased
    /\ NoOrb \notin Orbs
    /\ Parent \in [Orbs -> Orbs \cup {NoOrb}]
    /\ Deps \subseteq Orbs \X Orbs
    /\ \A S \in (SUBSET Orbs) \ {{}} : \E o \in S : Parent[o] \notin S
    /\ \A o \in Planned : Parent[o] \in Phased
    /\ \A o \in Phased : Children(o) # {} /\ Children(o) \subseteq Planned
    /\ MaxConcurrency \in Nat \ {0}
    /\ ReviewOnCompletion \subseteq BOOLEAN
    /\ HooksAbort \in BOOLEAN
    /\ Edits \subseteq {"status", "delete"}
    /\ Faults \subseteq {"crash", "error"}
    /\ MaxFaults \in Nat /\ MaxSetbacks \in Nat /\ MaxMoves \in Nat

VARIABLES
    store,    \* the last record of each orb in orbs.jsonl
    history,  \* the last non-failed phase each orb was stored with
    claims,   \* orbs with a dispatch-claims/<key>.claim file
    orphans,  \* orbs with a worker process that outlived its runner's task
    pc,       \* what each runner is doing
    running,  \* the `running` flag of each runner's queue
    plan,     \* writes the current tick still has to make, from its snapshots
    attempt,  \* each runner's dispatch task for each orb
    copy,     \* the orb record each dispatch task holds
    todo,     \* children each runner's decompositions still have to append
    accepted, \* history variable: an Execute result of the orb was stored
    faults, setbacks, moves

runnerVars == <<pc, running, plan>>
dispatchVars == <<attempt, copy, todo>>
budget == <<faults, setbacks, moves>>
vars == <<store, history, claims, orphans, pc, running, plan, attempt, copy, todo, accepted,
          budget>>

Record == [st : States, exec : Targets \cup {NoWork}, label : BOOLEAN]
Stages == {"start", "ready", "roots", "waiting"}
PcStates == {"down", "idle", "dispatch", "join"} \cup Stages
Attempts == {"none", "queued", "claimed", "working", "materializing", "written"}
Item == [stage : Stages, orb : Orbs, st : States \cup {"error"}, from : Record]

TypeOK ==
    /\ store \in [Orbs -> Record]
    /\ history \in [Orbs -> States]
    /\ claims \subseteq Orbs
    /\ orphans \subseteq Orbs
    /\ pc \in [Runners -> PcStates]
    /\ running \in [Runners -> BOOLEAN]
    /\ plan \in [Runners -> SUBSET Item]
    /\ attempt \in [Runners -> [Orbs -> Attempts]]
    /\ copy \in [Runners -> [Orbs -> Record]]
    /\ todo \in [Runners -> SUBSET Planned]
    /\ accepted \in [Orbs -> BOOLEAN]
    /\ faults \in 0..MaxFaults
    /\ setbacks \in 0..MaxSetbacks
    /\ moves \in 0..MaxMoves

-----------------------------------------------------------------------------
(* What the code reads off a list of orbs `s`.                              *)

Visible(s, o) == s[o].st \notin Hidden

\* Fresh record of an orb: no execution marker, no checkpoint label.
Fresh(st) == [st |-> st, exec |-> NoWork, label |-> FALSE]

\* DepStore::ready and DepStore::waiting split the open orbs by whether every
\* blocker is Done; execution_dependencies_done asks the same at admission,
\* and a missing predecessor blocks.
ExecutionDependenciesDone(s, o) == \A d \in Blockers(o) : s[d].st = "done"
Open(s, o) == Visible(s, o) /\ s[o].st \notin Terminal
ReadySet(s) == {o \in Orbs : Open(s, o) /\ ExecutionDependenciesDone(s, o)}
WaitingSet(s) == {o \in Orbs : Open(s, o) /\ ~ExecutionDependenciesDone(s, o)}

\* Mutant: a parent under review or re-evaluation lets its children run.
ReleasedEarly == {"waiting", "executing", "executing_children", "refining", "review", "reevaluating"}

ReleasedPhases == {"waiting", "executing", "executing_children"}

\* One ancestor's part of blocked_by_parent_review.
Releases(s, p) ==
    /\ Visible(s, p)
    /\ s[p].st \notin {"failed", "cancelled", "review"}
    /\ p \in Phased => s[p].st \in ReleasedPhases

BlockedByParentReview(s, o) == \E p \in Ancestors[o] : ~Releases(s, p)

VisibleChildren(s, o) == {c \in Children(o) : Visible(s, c)}
HasFailedChild(s, o) == \E c \in VisibleChildren(s, o) : s[c].st = "failed"
AllChildrenDone(s, o) == \A c \in VisibleChildren(s, o) : s[c].st = "done"

\* Task parents aggregate; a phase parent may own final work once every child is Done.
ParentExecutionReady(s, o) ==
    \/ VisibleChildren(s, o) = {}
    \/ o \in FinalWork /\ AllChildrenDone(s, o)

HasTarget(s, o) ==
    /\ s[o].exec = NoWork
    /\ s[o].st \in IF o \in Phased THEN WorkPhases ELSE {"active"}

\* The admission checkpoint of dispatch_ready_orbs for a parent's own work: it
\* reads the Parent edges, which name deleted children too.
FinalWorkAdmissible(s, o) ==
    (o \in Phased /\ s[o].st = "executing") =>
        LET edges == {c \in Children(o) : s[c].st # "absent"}
        IN  edges = {} \/ (o \in FinalWork /\ \A c \in edges : s[c].st = "done")

DispatchTargets(s) ==
    {o \in Orbs : HasTarget(s, o) /\ FinalWorkAdmissible(s, o) /\ ~BlockedByParentReview(s, o)}

\* Mutant: the recheck forgets the dependencies of the orb.
EligibleDespiteDependencies(s, o, target) ==
    /\ HasTarget(s, o)
    /\ s[o].st = target
    /\ ~BlockedByParentReview(s, o)
    /\ target \in Executes => ParentExecutionReady(s, o)

\* The recheck under the claim, on a reloaded store.
Eligible(s, o, target) ==
    /\ HasTarget(s, o)
    /\ s[o].st = target
    /\ ~BlockedByParentReview(s, o)
    /\ target \in Executes => ExecutionDependenciesDone(s, o) /\ ParentExecutionReady(s, o)
-----------------------------------------------------------------------------
(* The writes of one tick.  An item is one transition the tick will try: the  *)
(* orb, the state it moves to, and the snapshot record it will overwrite the *)
(* store with.  Stages start, ready and waiting work from the list read when  *)
(* the tick began; stage roots reads the store again.                       *)

Do(stage, s, o, st) == [stage |-> stage, orb |-> o, st |-> st, from |-> s[o]]

StartPipelines(s) ==
    {Do("start", s, o, "speccing") : o \in {p \in Phased : s[p].st = "pending"}}

\* Orbs with every blocker Done, no ancestor in the way and no failed child.
ExecuteReady(s) ==
    LET able == {o \in ReadySet(s) : ~BlockedByParentReview(s, o) /\ ~HasFailedChild(s, o)}
        onward(o) == IF VisibleChildren(s, o) = {} THEN "executing" ELSE "executing_children"
    IN  {Do("ready", s, o, onward(o)) : o \in {p \in able \cap Phased : s[p].st = "waiting"}}
        \cup {Do("ready", s, o, "active") : o \in {p \in able \ Phased : s[p].st = "pending"}}

\* A phase root goes on to its own final work or to Done once it has handed
\* over to its children; a Waiting root first takes that step.
AfterChildren(o) == IF o \in FinalWork THEN "executing" ELSE "done"

\* A task parent is set to Done from whatever status it has; the store refuses
\* that from Pending, and the item is then an error.
RootsDone(s) ==
    {o \in Orbs : Open(s, o) /\ VisibleChildren(s, o) # {} /\ AllChildrenDone(s, o)}

CompleteRoots(s) ==
    LET roots == RootsDone(s)
    IN  {Do("roots", s, o, "executing_children") : o \in {p \in roots \cap Phased : s[p].st = "waiting"}}
        \cup {Do("roots", s, o, AfterChildren(o)) :
                  o \in {p \in roots \cap Phased : s[p].st = "executing_children"}}
        \cup {Do("roots", s, o, IF s[o].st \in {"active", "review"} THEN "done" ELSE "error") :
                  o \in roots \ Phased}

ReevaluateWaiting(s) ==
    {Do("waiting", s, o, "reevaluating") : o \in {p \in WaitingSet(s) \cap Phased : s[p].st = "waiting"}}

-----------------------------------------------------------------------------
(* Writing the store.  OrbStore::update appends the whole record it is given; *)
(* the history a reset reads is what those appends left behind.             *)

\* Mutant: the reset evidence counts the failed record itself.
PutWithFailedEvidence(o, rec) ==
    /\ store' = [store EXCEPT ![o] = rec]
    /\ history' = IF o \in Phased THEN [history EXCEPT ![o] = rec.st] ELSE history

Put(o, rec) ==
    /\ store' = [store EXCEPT ![o] = rec]
    /\ history' = IF o \in Phased /\ rec.st # "failed"
                  THEN [history EXCEPT ![o] = rec.st] ELSE history

KeepStore == UNCHANGED <<store, history>>

CanFault(kind) == kind \in Faults /\ faults < MaxFaults
Fault == faults' = faults + 1 /\ UNCHANGED <<setbacks, moves>>
Setback == setbacks < MaxSetbacks /\ setbacks' = setbacks + 1 /\ UNCHANGED <<faults, moves>>
Move == moves < MaxMoves /\ moves' = moves + 1 /\ UNCHANGED <<faults, setbacks>>

-----------------------------------------------------------------------------
(* The tick: tick_async, and tick when no hook may abort.                   *)

BeginTick(r) ==
    /\ pc[r] = "idle" /\ running[r]
    /\ pc' = [pc EXCEPT ![r] = "start"]
    /\ plan' = [plan EXCEPT ![r] =
                   StartPipelines(store) \cup ExecuteReady(store) \cup ReevaluateWaiting(store)]
    /\ KeepStore
    /\ UNCHANGED <<claims, orphans, running, dispatchVars, accepted, budget>>

\* try_phase_transition, or the un-hooked status write of a task.  The record
\* written is the snapshot with its state replaced.
TickRecord(i) ==
    [i.from EXCEPT !.st = i.st,
                   !.exec = IF i.st \in {"executing", "executing_children"} THEN NoWork ELSE @]

TickWrite(r, i) ==
    /\ i \in plan[r] /\ i.stage = pc[r] /\ i.st # "error"
    /\ Put(i.orb, TickRecord(i))
    /\ plan' = [plan EXCEPT ![r] =
          (@ \ {i}) \cup IF i.stage = "roots" /\ i.st = "executing_children"
                         THEN {[i EXCEPT !.st = AfterChildren(i.orb)]} ELSE {}]
    /\ UNCHANGED <<claims, orphans, pc, running, dispatchVars, accepted, budget>>

\* A pre-phase-transition hook exits 2: this transition is skipped.
HookAborts(r, i) ==
    /\ HooksAbort /\ i \in plan[r] /\ i.stage = pc[r] /\ i.orb \in Phased
    /\ plan' = [plan EXCEPT ![r] = @ \ {i}]
    /\ Setback
    /\ KeepStore
    /\ UNCHANGED <<claims, orphans, pc, running, dispatchVars, accepted>>

StageAfter == [start |-> "ready", ready |-> "roots", roots |-> "waiting", waiting |-> "dispatch"]

NextStage(r) ==
    /\ pc[r] \in Stages
    /\ \A i \in plan[r] : i.stage # pc[r]
    /\ pc' = [pc EXCEPT ![r] = StageAfter[pc[r]]]
    /\ plan' = [plan EXCEPT ![r] = @ \cup IF pc[r] = "ready" THEN CompleteRoots(store) ELSE {}]
    /\ KeepStore
    /\ UNCHANGED <<claims, orphans, running, dispatchVars, accepted, budget>>

\* A `?` ends the tick with the writes made so far.  The supervisor and
\* drain_target then stop; run_daemon only logs it and goes on to the dispatch.
EndTick(r) ==
    /\ pc[r] \in Stages
    /\ plan' = [plan EXCEPT ![r] = {}]
    /\ \/ pc' = [pc EXCEPT ![r] = "idle"] /\ running' = [running EXCEPT ![r] = FALSE]
       \/ pc' = [pc EXCEPT ![r] = "dispatch"] /\ UNCHANGED running
    /\ KeepStore
    /\ UNCHANGED <<claims, orphans, dispatchVars, accepted>>

\* set_status refuses a planned transition.
TickFails(r) ==
    /\ \E i \in plan[r] : i.stage = pc[r] /\ i.st = "error"
    /\ EndTick(r)
    /\ UNCHANGED budget

\* A store read or write of the tick fails.
TickBreaks(r) == CanFault("error") /\ EndTick(r) /\ Fault
-----------------------------------------------------------------------------
(* The dispatch round.  A dispatch task goes queued -> claimed -> working     *)
(* (-> materializing, after a decomposition) -> written -> none.  It holds a  *)
(* permit from "claimed" on, and a worker process may live while "working".  *)

Holding == {"claimed", "working", "materializing", "written"}
Holds(r, o) == attempt[r][o] \in Holding
Held(r) == {o \in Orbs : Holds(r, o)}

NoCopy == Fresh("absent")
At(r, o, a) == attempt' = [attempt EXCEPT ![r][o] = a]
Leave(r, o) ==
    /\ At(r, o, "none")
    /\ copy' = [copy EXCEPT ![r][o] = NoCopy]
    /\ todo' = [todo EXCEPT ![r] = @ \ Children(o)]

BeginDispatch(r) ==
    /\ pc[r] = "dispatch"
    /\ pc' = [pc EXCEPT ![r] = "join"]
    /\ LET targets == DispatchTargets(store)
       IN  /\ attempt' = [attempt EXCEPT ![r] = [o \in Orbs |-> IF o \in targets THEN "queued" ELSE "none"]]
           /\ copy' = [copy EXCEPT ![r] = [o \in Orbs |-> IF o \in targets THEN store[o] ELSE NoCopy]]
    /\ KeepStore
    /\ UNCHANGED <<claims, orphans, running, plan, todo, accepted, budget>>

\* A task that is still waiting for its permit when the queue stops.
Abandon(r, o) ==
    /\ attempt[r][o] = "queued" /\ ~running[r]
    /\ Leave(r, o)
    /\ KeepStore
    /\ UNCHANGED <<claims, orphans, runnerVars, accepted, budget>>

\* Mutant: an existing claim is taken over, as if its owner were gone.
AcquireOverClaim(r, o) ==
    /\ attempt[r][o] = "queued" /\ running[r]
    /\ Cardinality(Held(r)) < MaxConcurrency
    /\ claims' = claims \cup {o} /\ At(r, o, "claimed") /\ UNCHANGED <<copy, todo>>
    /\ KeepStore
    /\ UNCHANGED <<orphans, runnerVars, accepted, budget>>

\* A permit is free: create_new on the claim file, or leave the orb alone when
\* an earlier claim is unresolved.
Acquire(r, o) ==
    /\ attempt[r][o] = "queued" /\ running[r]
    /\ Cardinality(Held(r)) < MaxConcurrency
    /\ \/ o \notin claims /\ claims' = claims \cup {o} /\ At(r, o, "claimed") /\ UNCHANGED <<copy, todo>>
       \/ o \in claims /\ Leave(r, o) /\ UNCHANGED claims
    /\ KeepStore
    /\ UNCHANGED <<orphans, runnerVars, accepted, budget>>

\* Mutant: a claimed task ignores that the queue has stopped.
RefuseIneligibleOnly(r, o) ==
    /\ attempt[r][o] = "claimed"
    /\ ~Eligible(store, o, copy[r][o].st)
    /\ claims' = claims \ {o}
    /\ Leave(r, o)
    /\ KeepStore
    /\ UNCHANGED <<orphans, runnerVars, accepted, budget>>

\* The reload finds the orb changed or blocked, or the queue stopped.
Refuse(r, o) ==
    /\ attempt[r][o] = "claimed"
    /\ ~Eligible(store, o, copy[r][o].st) \/ ~running[r]
    /\ claims' = claims \ {o}
    /\ Leave(r, o)
    /\ KeepStore
    /\ UNCHANGED <<orphans, runnerVars, accepted, budget>>

Admit(r, o) ==
    /\ attempt[r][o] = "claimed"
    /\ Eligible(store, o, copy[r][o].st) /\ running[r]
    /\ At(r, o, "working")
    /\ copy' = [copy EXCEPT ![r][o] = store[o]]
    /\ KeepStore
    /\ UNCHANGED <<claims, orphans, runnerVars, todo, accepted, budget>>

\* apply_decomposition lists the stored children once.  load_all hides deleted
\* records, so a deleted child is as missing as one that was never written.
MissingChildren(o) == {c \in Children(o) \cap Planned : ~Visible(store, c)}

ReadChildren(r, o) ==
    /\ attempt[r][o] = "working" /\ copy[r][o].st = "decomposing"
    /\ At(r, o, "materializing")
    /\ todo' = [todo EXCEPT ![r] = @ \cup MissingChildren(o)]
    /\ KeepStore
    /\ UNCHANGED <<claims, orphans, runnerVars, copy, accepted, budget>>

\* One append per missing child; the parent's own record is written afterwards.
Materialize(r, o) ==
    /\ attempt[r][o] = "materializing"
    /\ \E c \in todo[r] \cap Children(o) :
          /\ Put(c, Fresh("pending"))
          /\ todo' = [todo EXCEPT ![r] = @ \ {c}]
    /\ UNCHANGED <<claims, orphans, runnerVars, attempt, copy, accepted, budget>>

\* Mutants: the marker is never cleared, or names the outcome, not the phase.
AfterKeepsMarker(rec, st) ==
    [st |-> st, exec |-> rec.st,
     label |-> IF st = "review" THEN rec.st = "executing" ELSE rec.label]

AfterMarksOutcome(rec, st) ==
    [st |-> st, exec |-> IF st \in Terminal THEN st ELSE NoWork,
     label |-> IF st = "review" THEN rec.st = "executing" ELSE rec.label]

\* The record a finished attempt leaves: the marker stays only on an orb that
\* is terminal, the label only on a completion review.
After(rec, st) ==
    [st |-> st,
     exec |-> IF st \in Terminal THEN rec.st ELSE NoWork,
     label |-> IF st = "review" THEN rec.st = "executing" ELSE rec.label]

\* Where a successful attempt may take the orb.  Refining ends in Review (the
\* orb needs approval, or its quality rejections are exhausted) or, accepted
\* and needing no approval, in Waiting.
NextOnSuccess(target) ==
    CASE target = "speccing" -> {"decomposing"}
      [] target = "decomposing" -> {"refining"}
      [] target = "refining" -> {"review", "waiting"}
      [] target = "reevaluating" -> {"executing"}
      [] target = "executing" -> {IF b THEN "review" ELSE "done" : b \in ReviewOnCompletion}
      [] target = "active" -> {"done"}

\* Verdicts that send the work back or end it: a quality rejection with retries
\* left, a pivot, an abort or an invalid verdict, a failed or cancelled worker.
NextOnSetback(target) ==
    {"failed", "cancelled"}
        \cup IF target \in {"refining", "reevaluating"} THEN {"refining"} ELSE {}

Finished(r, o, st) ==
    /\ Put(o, After(copy[r][o], st))
    /\ At(r, o, "written")
    /\ accepted' = IF copy[r][o].st \in Executes /\ st \in {"done", "review"}
                   THEN [accepted EXCEPT ![o] = TRUE] ELSE accepted
    /\ UNCHANGED <<claims, orphans, runnerVars, copy, todo>>

\* Mutant: the parent advances before its child graph is complete.
SucceedBeforeChildren(r, o) ==
    /\ attempt[r][o] \in {"working", "materializing"}
    /\ \E st \in NextOnSuccess(copy[r][o].st) : Finished(r, o, st)
    /\ UNCHANGED budget

Succeed(r, o) ==
    /\ \/ attempt[r][o] = "working" /\ copy[r][o].st # "decomposing"
       \/ attempt[r][o] = "materializing" /\ todo[r] \cap Children(o) = {}
    /\ \E st \in NextOnSuccess(copy[r][o].st) : Finished(r, o, st)
    /\ UNCHANGED budget

SetBack(r, o) ==
    /\ attempt[r][o] = "working"
    /\ \E st \in NextOnSetback(copy[r][o].st) : Finished(r, o, st)
    /\ Setback

\* A pre-worker-spawn hook exits 2: the outcome is Aborted, the reloaded record
\* is stored as it was and stays dispatchable.
SpawnAborts(r, o) ==
    /\ HooksAbort /\ attempt[r][o] = "working"
    /\ Put(o, copy[r][o])
    /\ At(r, o, "written")
    /\ Setback
    /\ UNCHANGED <<claims, orphans, runnerVars, copy, todo, accepted>>

\* Mutant: the claim is not archived after the outcome is stored.
ReleaseKeepsClaim(r, o) ==
    /\ attempt[r][o] = "written"
    /\ Leave(r, o)
    /\ KeepStore
    /\ UNCHANGED <<claims, orphans, runnerVars, accepted, budget>>

\* DispatchClaim::finish archives the claim once the record is durable.
Release(r, o) ==
    /\ attempt[r][o] = "written"
    /\ claims' = claims \ {o}
    /\ Leave(r, o)
    /\ KeepStore
    /\ UNCHANGED <<orphans, runnerVars, accepted, budget>>

Joined(r) ==
    /\ pc[r] = "join" /\ \A o \in Orbs : attempt[r][o] = "none"
    /\ pc' = [pc EXCEPT ![r] = "idle"]
    /\ KeepStore
    /\ UNCHANGED <<claims, orphans, running, plan, dispatchVars, accepted, budget>>

-----------------------------------------------------------------------------
(* Errors and crashes.  Nothing here removes a claim: it quarantines the orb. *)

\* A `?` inside a dispatch task; a failed teardown may leave its worker alive.
DispatchError(r, o) ==
    /\ CanFault("error") /\ Holds(r, o)
    /\ Leave(r, o)
    /\ \/ attempt[r][o] = "working" /\ orphans' = orphans \cup {o}
       \/ UNCHANGED orphans
    /\ Fault /\ KeepStore
    /\ UNCHANGED <<claims, runnerVars, accepted>>

\* Every task of the runner is dropped with its worker killed, at best.
DropTasks(r) ==
    /\ attempt' = [attempt EXCEPT ![r] = [o \in Orbs |-> "none"]]
    /\ copy' = [copy EXCEPT ![r] = [o \in Orbs |-> NoCopy]]
    /\ todo' = [todo EXCEPT ![r] = {}]
    /\ \E left \in SUBSET {o \in Orbs : attempt[r][o] = "working"} : orphans' = orphans \cup left

\* Fatal to the runner: the round cannot be set up, or a worker cannot
\* initialise (stop, abort_all, leave the loop).
FatalError(r) ==
    /\ CanFault("error")
    /\ pc[r] = "dispatch" \/ \E o \in Orbs : attempt[r][o] = "working"
    /\ DropTasks(r)
    /\ pc' = [pc EXCEPT ![r] = "idle"]
    /\ running' = [running EXCEPT ![r] = FALSE]
    /\ Fault /\ KeepStore
    /\ UNCHANGED <<claims, plan, accepted>>

Crash(r) ==
    /\ CanFault("crash") /\ pc[r] # "down"
    /\ DropTasks(r)
    /\ pc' = [pc EXCEPT ![r] = "down"]
    /\ running' = [running EXCEPT ![r] = FALSE]
    /\ plan' = [plan EXCEPT ![r] = {}]
    /\ Fault /\ KeepStore
    /\ UNCHANGED <<claims, accepted>>

OrphanExits(o) ==
    /\ o \in orphans
    /\ orphans' = orphans \ {o}
    /\ KeepStore
    /\ UNCHANGED <<claims, runnerVars, dispatchVars, accepted, budget>>
-----------------------------------------------------------------------------
(* Stopping, restarting and the manual recovery of claims.                  *)

Stop(r) ==
    /\ Move
    /\ pc[r] # "down" /\ running[r]
    /\ running' = [running EXCEPT ![r] = FALSE]
    /\ KeepStore
    /\ UNCHANGED <<claims, orphans, pc, plan, dispatchVars, accepted>>

Exit(r) ==
    /\ pc[r] = "idle" /\ ~running[r]
    /\ pc' = [pc EXCEPT ![r] = "down"]
    /\ KeepStore
    /\ UNCHANGED <<claims, orphans, running, plan, dispatchVars, accepted, budget>>

Start(r) ==
    /\ pc[r] = "down"
    /\ pc' = [pc EXCEPT ![r] = "idle"]
    /\ running' = [running EXCEPT ![r] = TRUE]
    /\ KeepStore
    /\ UNCHANGED <<claims, orphans, plan, dispatchVars, accepted, budget>>

\* The documented recovery: every owner stopped, the workers gone.
ArchiveClaim(o) ==
    /\ o \in claims /\ o \notin orphans
    /\ \A r \in Runners : pc[r] = "down"
    /\ claims' = claims \ {o}
    /\ KeepStore
    /\ UNCHANGED <<orphans, runnerVars, dispatchVars, accepted, budget>>

-----------------------------------------------------------------------------
(* Operator commands.  Each reads one record and writes it back.            *)

OperatorPut(o, rec) ==
    /\ Move
    /\ Put(o, rec)
    /\ UNCHANGED <<claims, orphans, runnerVars, dispatchVars>>

\* Mutant: only the marker, which the move to Review clears, tells the reviews apart.
CompletionReviewByMarker(o) == o \in Phased /\ store[o].exec = "executing"

\* A review of finished work: the checkpoint label, the marker of an Execute
\* worker, or, for records older than the label, children that are all Done.
PostCompletionReview(o) ==
    /\ o \in Phased
    /\ \/ store[o].label
       \/ store[o].exec = "executing"
       \/ VisibleChildren(store, o) # {} /\ AllChildrenDone(store, o)

Approve(o) ==
    /\ store[o].st = "review"
    /\ OperatorPut(o, [store[o] EXCEPT !.label = FALSE, !.st =
          IF o \in Phased /\ ~PostCompletionReview(o) THEN "waiting" ELSE "done"])
    /\ UNCHANGED accepted

Reject(o) ==
    /\ store[o].st = "review"
    /\ OperatorPut(o, [store[o] EXCEPT !.label = FALSE, !.st = "failed"])
    /\ UNCHANGED accepted

Revise(o) ==
    /\ store[o].st = "review"
    /\ OperatorPut(o, Fresh(IF o \notin Phased THEN "active"
                            ELSE IF PostCompletionReview(o) THEN "executing" ELSE "refining"))
    /\ accepted' = [accepted EXCEPT ![o] = FALSE]

\* retry_phase_from_history and the marker of the failed attempt must agree.
RetryPhase(o) ==
    IF o \notin Phased THEN {"pending"}
    ELSE {p \in WorkPhases : p = history[o] /\ store[o].exec \in {NoWork, p}}

\* Mutant: a cancelled orb can be reset too.
ResetCancelled(o) ==
    /\ store[o].st \in {"failed", "cancelled"}
    /\ \E p \in RetryPhase(o) : OperatorPut(o, Fresh(p))
    /\ accepted' = [accepted EXCEPT ![o] = FALSE]

Reset(o) ==
    /\ store[o].st = "failed"
    /\ \E p \in RetryPhase(o) : OperatorPut(o, Fresh(p))
    /\ accepted' = [accepted EXCEPT ![o] = FALSE]

\* `update --status` goes through the task transition table of the store.
TaskEdges == [pending |-> {"active", "cancelled"},
              active |-> {"review", "done", "failed", "cancelled"},
              review |-> {"active", "done", "failed", "cancelled"}]

EditStatus(o) ==
    /\ "status" \in Edits /\ o \notin Phased /\ store[o].st \in DOMAIN TaskEdges
    /\ \E st \in TaskEdges[store[o].st] : OperatorPut(o, [store[o] EXCEPT !.st = st])
    /\ accepted' = [accepted EXCEPT ![o] = FALSE]

Delete(o) ==
    /\ "delete" \in Edits /\ Visible(store, o)
    /\ OperatorPut(o, [store[o] EXCEPT !.st = "tombstone"])
    /\ accepted' = [accepted EXCEPT ![o] = FALSE]

-----------------------------------------------------------------------------
Init ==
    /\ store = [o \in Orbs |-> Fresh(IF o \in Planned THEN "absent" ELSE "pending")]
    /\ history = [o \in Orbs |-> store[o].st]
    /\ claims = {} /\ orphans = {}
    /\ pc = [r \in Runners |-> "idle"]
    /\ running = [r \in Runners |-> TRUE]
    /\ plan = [r \in Runners |-> {}]
    /\ attempt = [r \in Runners |-> [o \in Orbs |-> "none"]]
    /\ copy = [r \in Runners |-> [o \in Orbs |-> NoCopy]]
    /\ todo = [r \in Runners |-> {}]
    /\ accepted = [o \in Orbs |-> FALSE]
    /\ faults = 0 /\ setbacks = 0 /\ moves = 0

Tick(r) ==
    \/ BeginTick(r) \/ NextStage(r) \/ TickFails(r)
    \/ \E i \in plan[r] : TickWrite(r, i)

Dispatch(r) ==
    \/ BeginDispatch(r) \/ Joined(r)
    \/ \E o \in Orbs : Abandon(r, o) \/ Acquire(r, o) \/ Refuse(r, o) \/ Admit(r, o)
                       \/ ReadChildren(r, o) \/ Materialize(r, o) \/ Succeed(r, o) \/ Release(r, o)

Disturb(r) ==
    \/ Stop(r) \/ Start(r) \/ Crash(r) \/ FatalError(r) \/ TickBreaks(r)
    \/ \E i \in plan[r] : HookAborts(r, i)
    \/ \E o \in Orbs : SetBack(r, o) \/ SpawnAborts(r, o) \/ DispatchError(r, o)

Operator(o) ==
    \/ Approve(o) \/ Reject(o) \/ Revise(o) \/ Reset(o)
    \/ EditStatus(o) \/ Delete(o) \/ ArchiveClaim(o)

Next ==
    \/ \E r \in Runners : Tick(r) \/ Dispatch(r) \/ Exit(r) \/ Disturb(r)
    \/ \E o \in Orbs : Operator(o) \/ OrphanExits(o)

Spec == Init /\ [][Next]_vars

\* A live process runs its loop, its workers end, and it exits once stopped.
\* Nothing is assumed of operators, hooks, failures, crashes or restarts.
Fairness == \A r \in Runners : WF_vars(Tick(r) \/ Dispatch(r) \/ Exit(r))

LiveSpec == Spec /\ Fairness
-----------------------------------------------------------------------------
(* Properties.                                                              *)

Executing(r, o) == attempt[r][o] = "working" /\ copy[r][o].st \in Executes

\* The claim is what keeps two runners, or a runner and the worker a crash left
\* behind, off the same orb: whoever is past the claim, or still has a process,
\* is alone, and the claim file is there until it is reconciled.
OneEpisodePerOrb ==
    \A o \in Orbs, r \in Runners : Holds(r, o) =>
        /\ o \in claims
        /\ o \notin orphans
        /\ \A q \in Runners : Holds(q, o) => q = r

OrphansAreQuarantined == orphans \subseteq claims

ClaimsExclusive == OneEpisodePerOrb /\ OrphansAreQuarantined

\* An Execute result that was stored is never computed again unless an operator
\* asked for it (revise, reset, edit): not after a restart, an archived claim, a
\* stale queue entry or a second pass through the pipeline.
AcceptedWorkNotRepeated ==
    \A r \in Runners, o \in Orbs : Executing(r, o) => ~accepted[o]

\* While a worker implements an orb, everything the orb depends on is Done,
\* although admission checked that only once, before the worker started.
DependenciesHoldWhileExecuting ==
    \A r \in Runners, o \in Orbs : Executing(r, o) =>
        \A d \in Blockers(o) : store[d].st = "done"

\* While a worker implements a child, no ancestor is still being planned,
\* reviewed or re-evaluated, and none has failed or been cancelled.
AncestorsReleasedWhileExecuting ==
    \A r \in Runners, o \in Orbs : Executing(r, o) =>
        \A p \in Ancestors[o] : store[p].st \notin
            {"absent", "tombstone", "failed", "cancelled", "speccing", "decomposing",
             "refining", "review", "reevaluating"}

\* A decomposed parent has its whole child graph from the moment it leaves
\* Decomposing, and it is not Done before every child is.
ParentFollowsChildren ==
    \A o \in Phased : Children(o) # {} =>
        /\ store[o].st \notin {"pending", "speccing", "decomposing", "failed", "cancelled", "tombstone"} =>
              \A c \in Children(o) : store[c].st # "absent"
        /\ store[o].st = "done" => \A c \in Children(o) : store[c].st = "done"

\* The execution marker never stays on an orb that still has work to do: the
\* dispatcher skips marked orbs, so such an orb would never be picked again.
NoStrandedMarker ==
    \A o \in Orbs : store[o].exec # NoWork => store[o].st \in Terminal \cup {"tombstone"}

\* When a phase worker fails, its marker and the stored history name the same
\* phase, so the operator's reset is never refused as conflicting evidence.
FailedAttemptIsResettable ==
    \A o \in Phased : store[o].st = "failed" /\ store[o].exec # NoWork =>
        store[o].exec = history[o]

\* Done and Cancelled are final; Failed ends only by an operator's reset.
TerminalIsFinal ==
    [][\A o \in Orbs : store[o].st \in Terminal /\ store'[o].st # store[o].st =>
          store[o].st = "failed" /\ moves' = moves + 1]_vars

\* "Failed remains terminal to automatic scheduling."
FailedStaysTerminal ==
    [][\A o \in Orbs : store[o].st = "failed" /\ moves' = moves =>
          store'[o].st = "failed"]_vars

\* "Only re-evaluate phase orbs in Waiting."
OnlyWaitingReevaluated ==
    [][\A o \in Orbs : store'[o].st = "reevaluating" =>
          store[o].st \in {"waiting", "reevaluating"}]_vars

\* A stopped queue admits nothing more, lets its workers end, and the process
\* exits.
StopDrains ==
    \A r \in Runners : (pc[r] # "down" /\ ~running[r]) ~> (pc[r] = "down")

\* A queue that keeps running comes to rest only with every orb terminal, or
\* with something that needs a human: a failed or cancelled orb, a review, or a
\* claim that a fault left behind.
NeedsHuman(o) == store[o].st \in {"failed", "cancelled", "review"}
Settled ==
    \/ \A o \in Orbs : Visible(store, o) => store[o].st \in Terminal
    \/ \E o \in Orbs : NeedsHuman(o)
    \/ faults > 0 /\ \E o \in claims : \A r \in Runners : ~Holds(r, o)
QueueDrains == (<>[](\A r \in Runners : running[r])) => []<>Settled

\* "Detects root orbs whose children are all Done and marks them Done."
RootsWithDoneChildrenComplete ==
    \A o \in Phased :
        (store[o].st = "executing" /\ VisibleChildren(store, o) # {} /\ AllChildrenDone(store, o))
            ~> (store[o].st # "executing" \/ \E r \in Runners : ~running[r])
=============================================================================
