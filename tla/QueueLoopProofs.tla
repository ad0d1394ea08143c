---------------------------- MODULE QueueLoopProofs ----------------------------
(***************************************************************************)
(* The queue loop, for every store, hierarchy and dependency graph.         *)
(*                                                                         *)
(* With any number of runners, edits and crashes: dispatch claims are       *)
(* exclusive, every variable keeps its type, no open orb is stranded by an  *)
(* execution marker, no orb is lost, child graphs stay whole, a claim       *)
(* without a runner means a fault, and each dispatch task keeps the         *)
(* contract of an episode.  ClaimsExclusive is not inductive: an operator   *)
(* may archive a claim once every runner is down, and a runner may exit     *)
(* once it is idle, so a runner outside its dispatch round must be known to *)
(* hold nothing.                                                           *)
(*                                                                         *)
(* With one runner and no status edit or deletion behind it: what a task    *)
(* was admitted on stays true until it ends.  With a second runner, or an   *)
(* edit, a stale snapshot can be written over it, and TLC shows how; with   *)
(* any number of runners whose ticks write over nothing that changed since  *)
(* it was read, all but the rest of the ancestors holds again.              *)
(***************************************************************************)
EXTENDS QueueLoop, TLAPS

AttemptType == attempt \in [Runners -> [Orbs -> Attempts]]
PcType == pc \in [Runners -> PcStates]

\* Dispatch tasks exist only between BeginDispatch and Joined.
TasksOnlyInJoin ==
    \A r \in Runners : pc[r] # "join" => \A o \in Orbs : attempt[r][o] = "none"

ClaimsInv == AttemptType /\ PcType /\ TasksOnlyInJoin /\ ClaimsExclusive

-----------------------------------------------------------------------------
\* One task's step, read pointwise.
LEMMA AtPointwise ==
    ASSUME AttemptType, NEW r \in Runners, NEW o \in Orbs, NEW a \in Attempts, At(r, o, a)
    PROVE  /\ AttemptType'
           /\ \A q \in Runners, x \in Orbs :
                 attempt'[q][x] = IF q = r /\ x = o THEN a ELSE attempt[q][x]
  BY DEF AttemptType, At

\* Dropping every task of a runner, read pointwise.
LEMMA DropPointwise ==
    ASSUME AttemptType, NEW r \in Runners, DropTasks(r)
    PROVE  /\ AttemptType'
           /\ \A q \in Runners, x \in Orbs :
                 attempt'[q][x] = IF q = r THEN "none" ELSE attempt[q][x]
           /\ \A x \in orphans' : x \in orphans \/ (x \in Orbs /\ attempt[r][x] = "working")
           /\ orphans \subseteq orphans'
  BY DEF AttemptType, DropTasks, Attempts

\* A runner that leaves an orb, with or without its worker, leaves the claims
\* exclusive as long as a claim it removes is its own.
LEMMA LeaveKeepsClaims ==
    ASSUME ClaimsInv, NEW r \in Runners, NEW o \in Orbs, Leave(r, o), Holds(r, o),
           \/ claims' = claims \ {o} /\ orphans' = orphans
           \/ claims' = claims /\ orphans' \in {orphans, orphans \cup {o}}
    PROVE  ClaimsExclusive' /\ AttemptType'
  <1>1. At(r, o, "none")  BY DEF Leave
  <1>2. "none" \in Attempts  BY DEF Attempts
  <1>3. /\ AttemptType'
        /\ \A q \in Runners, x \in Orbs :
              attempt'[q][x] = IF q = r /\ x = o THEN "none" ELSE attempt[q][x]
    BY <1>1, <1>2, AtPointwise DEF ClaimsInv
  <1>4. \A q \in Runners, x \in Orbs :
           Holds(q, x)' => Holds(q, x) /\ x # o
    <2>1. SUFFICES ASSUME NEW q \in Runners, NEW x \in Orbs, Holds(q, x)'
                   PROVE  Holds(q, x) /\ x # o
      OBVIOUS
    <2>2. ~(q = r /\ x = o)  BY <1>3, <2>1 DEF Holds, Holding
    <2>3. Holds(q, x)  BY <1>3, <2>1, <2>2 DEF Holds
    <2>4. CASE x = o
      BY <2>2, <2>3, <2>4 DEF ClaimsInv, ClaimsExclusive, OneEpisodePerOrb
    <2>5. QED  BY <2>3, <2>4
  <1>5. OneEpisodePerOrb'
    BY <1>4 DEF ClaimsInv, ClaimsExclusive, OneEpisodePerOrb
  <1>6. OrphansAreQuarantined'
    BY DEF ClaimsInv, ClaimsExclusive, OneEpisodePerOrb, OrphansAreQuarantined
  <1>7. QED  BY <1>3, <1>5, <1>6 DEF ClaimsExclusive
-----------------------------------------------------------------------------
(* The steps that leave attempts, claims and orphans alone.                 *)

Quiet == UNCHANGED <<attempt, claims, orphans>>

LEMMA QuietKeepsClaims ==
    ASSUME ClaimsInv, Quiet, PcType', TasksOnlyInJoin'  PROVE  ClaimsInv'
  BY DEF ClaimsInv, Quiet, AttemptType, ClaimsExclusive, OneEpisodePerOrb,
         OrphansAreQuarantined, Holds

LEMMA EndTickKeepsClaims ==
    ASSUME ClaimsInv, NEW r \in Runners, EndTick(r)  PROVE  ClaimsInv'
  <1>1. Quiet  BY DEF EndTick, Quiet, dispatchVars
  <1>2. \E c \in {"idle", "dispatch"} : pc' = [pc EXCEPT ![r] = c]  BY DEF EndTick
  <1>3. pc[r] # "join"  BY DEF EndTick, Stages
  <1>4. PcType' /\ TasksOnlyInJoin'
    BY <1>1, <1>2, <1>3 DEF ClaimsInv, PcType, PcStates, Stages, TasksOnlyInJoin, Quiet
  <1>5. QED  BY <1>1, <1>4, QuietKeepsClaims

LEMMA TickKeepsClaims ==
    ASSUME ClaimsInv, NEW r \in Runners, Tick(r)  PROVE  ClaimsInv'
  <1>1. Quiet
    BY DEF Tick, BeginTick, NextStage, TickFails, EndTick, TickWrite, Quiet, dispatchVars
  <1>2. CASE BeginTick(r)
    <2>1. PcType' /\ TasksOnlyInJoin'
      BY <1>1, <1>2 DEF BeginTick, ClaimsInv, PcType, PcStates, Stages, TasksOnlyInJoin, Quiet
    <2>2. QED  BY <1>1, <2>1, QuietKeepsClaims
  <1>3. CASE NextStage(r)
    <2>1. pc' = [pc EXCEPT ![r] = StageAfter[pc[r]]] /\ pc[r] \in Stages
      BY <1>3 DEF NextStage
    <2>2. StageAfter[pc[r]] \in {"ready", "roots", "waiting", "dispatch"}
      BY <2>1 DEF StageAfter, Stages
    <2>3. PcType' /\ TasksOnlyInJoin'
      BY <1>1, <2>1, <2>2 DEF ClaimsInv, PcType, PcStates, Stages, TasksOnlyInJoin, Quiet
    <2>4. QED  BY <1>1, <2>3, QuietKeepsClaims
  <1>4. CASE TickFails(r)
    BY <1>4, EndTickKeepsClaims DEF TickFails
  <1>5. CASE \E i \in plan[r] : TickWrite(r, i)
    <2>1. UNCHANGED pc  BY <1>5 DEF TickWrite
    <2>2. PcType' /\ TasksOnlyInJoin'
      BY <1>1, <2>1 DEF ClaimsInv, PcType, TasksOnlyInJoin, Quiet
    <2>3. QED  BY <1>1, <2>2, QuietKeepsClaims
  <1>6. QED  BY <1>2, <1>3, <1>4, <1>5 DEF Tick
\* A dispatch task that changes its own attempt state changes nothing the
\* runner's pc says.
LEMMA JoinStays ==
    ASSUME ClaimsInv, NEW r \in Runners, UNCHANGED pc, pc[r] = "join", AttemptType',
           \A q \in Runners, x \in Orbs : q # r => attempt'[q][x] = attempt[q][x]
    PROVE  PcType' /\ TasksOnlyInJoin'
  BY DEF ClaimsInv, PcType, TasksOnlyInJoin

\* A task of a runner means the runner is in its dispatch round.
LEMMA TaskMeansJoin ==
    ASSUME ClaimsInv, NEW r \in Runners, NEW o \in Orbs, attempt[r][o] # "none"
    PROVE  pc[r] = "join"
  BY DEF ClaimsInv, TasksOnlyInJoin

\* A task that stays among the holding states, with its claim, keeps the claims.
LEMMA AdvanceKeepsClaims ==
    ASSUME ClaimsInv, NEW r \in Runners, NEW o \in Orbs, NEW a \in Attempts,
           Holds(r, o), At(r, o, a), UNCHANGED <<claims, orphans, pc>>
    PROVE  ClaimsInv'
  <1>1. /\ AttemptType'
        /\ \A q \in Runners, x \in Orbs :
              attempt'[q][x] = IF q = r /\ x = o THEN a ELSE attempt[q][x]
    BY AtPointwise DEF ClaimsInv
  <1>2. \A q \in Runners, x \in Orbs : Holds(q, x)' => Holds(q, x)
    BY <1>1 DEF Holds
  <1>3. ClaimsExclusive'
    BY <1>2 DEF ClaimsInv, ClaimsExclusive, OneEpisodePerOrb, OrphansAreQuarantined
  <1>4. pc[r] = "join"
    BY TaskMeansJoin DEF Holds, Holding
  <1>5. PcType' /\ TasksOnlyInJoin'
    BY <1>1, <1>4, JoinStays
  <1>6. QED  BY <1>1, <1>3, <1>5 DEF ClaimsInv

\* A task that ends before it holds anything keeps the claims too.
LEMMA DropQueuedKeepsClaims ==
    ASSUME ClaimsInv, NEW r \in Runners, NEW o \in Orbs, attempt[r][o] = "queued",
           Leave(r, o), UNCHANGED <<claims, orphans, pc>>
    PROVE  ClaimsInv'
  <1>1. At(r, o, "none") /\ "none" \in Attempts  BY DEF Leave, Attempts
  <1>2. /\ AttemptType'
        /\ \A q \in Runners, x \in Orbs :
              attempt'[q][x] = IF q = r /\ x = o THEN "none" ELSE attempt[q][x]
    BY <1>1, AtPointwise DEF ClaimsInv
  <1>3. \A q \in Runners, x \in Orbs : Holds(q, x)' => Holds(q, x)
    BY <1>2 DEF Holds, Holding
  <1>4. ClaimsExclusive'
    BY <1>3 DEF ClaimsInv, ClaimsExclusive, OneEpisodePerOrb, OrphansAreQuarantined
  <1>5. PcType' /\ TasksOnlyInJoin'
    BY <1>2, TaskMeansJoin, JoinStays
  <1>6. QED  BY <1>2, <1>4, <1>5 DEF ClaimsInv

\* A task that leaves while it holds its orb.
LEMMA LeaveKeepsInv ==
    ASSUME ClaimsInv, NEW r \in Runners, NEW o \in Orbs, Leave(r, o), Holds(r, o), UNCHANGED pc,
           \/ claims' = claims \ {o} /\ orphans' = orphans
           \/ claims' = claims /\ orphans' \in {orphans, orphans \cup {o}}
    PROVE  ClaimsInv'
  <1>1. ClaimsExclusive' /\ AttemptType'  BY LeaveKeepsClaims
  <1>2. pc[r] = "join"  BY TaskMeansJoin DEF Holds, Holding
  <1>3. At(r, o, "none") /\ "none" \in Attempts  BY DEF Leave, Attempts
  <1>4. \A q \in Runners, x \in Orbs : q # r => attempt'[q][x] = attempt[q][x]
    BY <1>3, AtPointwise DEF ClaimsInv
  <1>5. PcType' /\ TasksOnlyInJoin'  BY <1>1, <1>2, <1>4, JoinStays
  <1>6. QED  BY <1>1, <1>5 DEF ClaimsInv
-----------------------------------------------------------------------------
(* The dispatch round.                                                      *)

LEMMA BeginDispatchKeepsClaims ==
    ASSUME ClaimsInv, NEW r \in Runners, BeginDispatch(r)  PROVE  ClaimsInv'
  <1>1. PICK targets \in {DispatchTargets(store)} :
           attempt' = [attempt EXCEPT ![r] = [o \in Orbs |-> IF o \in targets THEN "queued" ELSE "none"]]
    BY DEF BeginDispatch
  <1>2. pc' = [pc EXCEPT ![r] = "join"] /\ UNCHANGED <<claims, orphans>>
    BY DEF BeginDispatch
  <1>3. AttemptType'
    BY <1>1 DEF ClaimsInv, AttemptType, Attempts
  <1>4. \A q \in Runners, x \in Orbs : Holds(q, x)' => Holds(q, x)
    BY <1>1 DEF ClaimsInv, AttemptType, Holds, Holding
  <1>5. ClaimsExclusive'
    BY <1>2, <1>4 DEF ClaimsInv, ClaimsExclusive, OneEpisodePerOrb, OrphansAreQuarantined
  <1>6. PcType'
    BY <1>2 DEF ClaimsInv, PcType, PcStates
  <1>7. TasksOnlyInJoin'
    BY <1>1, <1>2 DEF ClaimsInv, PcType, AttemptType, TasksOnlyInJoin
  <1>8. QED  BY <1>3, <1>5, <1>6, <1>7 DEF ClaimsInv

LEMMA JoinedKeepsClaims ==
    ASSUME ClaimsInv, NEW r \in Runners, Joined(r)  PROVE  ClaimsInv'
  <1>1. Quiet  BY DEF Joined, Quiet, dispatchVars
  <1>2. PcType' /\ TasksOnlyInJoin'
    BY <1>1 DEF Joined, ClaimsInv, PcType, PcStates, TasksOnlyInJoin, Quiet
  <1>3. QED  BY <1>1, <1>2, QuietKeepsClaims

\* Only a free claim file is created, so the orb was held by nobody and has no
\* orphan worker.
LEMMA AcquireKeepsClaims ==
    ASSUME ClaimsInv, NEW r \in Runners, NEW o \in Orbs, Acquire(r, o)  PROVE  ClaimsInv'
  <1>1. attempt[r][o] = "queued" /\ UNCHANGED <<orphans, pc>>
    BY DEF Acquire, runnerVars
  <1>2. CASE o \notin claims /\ claims' = claims \cup {o} /\ At(r, o, "claimed")
    <2>1. "claimed" \in Attempts  BY DEF Attempts
    <2>2. /\ AttemptType'
          /\ \A q \in Runners, x \in Orbs :
                attempt'[q][x] = IF q = r /\ x = o THEN "claimed" ELSE attempt[q][x]
      BY <1>2, <2>1, AtPointwise DEF ClaimsInv
    <2>3. \A q \in Runners : ~Holds(q, o)
      BY <1>2 DEF ClaimsInv, ClaimsExclusive, OneEpisodePerOrb
    <2>4. o \notin orphans
      BY <1>2 DEF ClaimsInv, ClaimsExclusive, OrphansAreQuarantined
    <2>5. \A q \in Runners, x \in Orbs : Holds(q, x)' => (q = r /\ x = o) \/ (x # o /\ Holds(q, x))
      BY <2>2, <2>3 DEF Holds
    <2>6. OneEpisodePerOrb'
      BY <1>1, <1>2, <2>4, <2>5 DEF ClaimsInv, ClaimsExclusive, OneEpisodePerOrb
    <2>7. OrphansAreQuarantined'
      BY <1>1, <1>2 DEF ClaimsInv, ClaimsExclusive, OrphansAreQuarantined
    <2>8. PcType' /\ TasksOnlyInJoin'
      BY <1>1, <2>2, TaskMeansJoin, JoinStays
    <2>9. QED  BY <2>2, <2>6, <2>7, <2>8 DEF ClaimsInv, ClaimsExclusive
  <1>3. CASE o \in claims /\ Leave(r, o) /\ UNCHANGED claims
    BY <1>1, <1>3, DropQueuedKeepsClaims
  <1>4. QED  BY <1>2, <1>3 DEF Acquire

LEMMA DispatchKeepsClaims ==
    ASSUME ClaimsInv, NEW r \in Runners, Dispatch(r)  PROVE  ClaimsInv'
  <1>1. CASE BeginDispatch(r)  BY <1>1, BeginDispatchKeepsClaims
  <1>2. CASE Joined(r)  BY <1>2, JoinedKeepsClaims
  <1>3. CASE \E o \in Orbs : Abandon(r, o)
    BY <1>3, DropQueuedKeepsClaims DEF Abandon, runnerVars
  <1>4. CASE \E o \in Orbs : Acquire(r, o)  BY <1>4, AcquireKeepsClaims
  <1>5. CASE \E o \in Orbs : Refuse(r, o)
    BY <1>5, LeaveKeepsInv DEF Refuse, runnerVars, Holds, Holding
  <1>6. CASE \E o \in Orbs : Admit(r, o)
    BY <1>6, AdvanceKeepsClaims DEF Admit, runnerVars, Holds, Holding, Attempts
  <1>7. CASE \E o \in Orbs : ReadChildren(r, o)
    BY <1>7, AdvanceKeepsClaims DEF ReadChildren, runnerVars, Holds, Holding, Attempts
  <1>8. CASE \E o \in Orbs : Succeed(r, o)
    <2>1. PICK o \in Orbs : Succeed(r, o)  BY <1>8
    <2>2. Holds(r, o) /\ At(r, o, "written") /\ UNCHANGED <<claims, orphans, pc>>
      BY <2>1 DEF Succeed, Finished, runnerVars, Holds, Holding
    <2>3. QED  BY <2>2, AdvanceKeepsClaims DEF Attempts
  <1>9. CASE \E o \in Orbs : Release(r, o)
    BY <1>9, LeaveKeepsInv DEF Release, runnerVars, Holds, Holding
  <1>10. CASE \E o \in Orbs : Materialize(r, o)
    <2>1. Quiet /\ UNCHANGED pc  BY <1>10 DEF Materialize, Quiet, runnerVars
    <2>2. QED  BY <2>1, QuietKeepsClaims DEF ClaimsInv, PcType, TasksOnlyInJoin, Quiet
  <1>11. QED
    BY <1>1, <1>2, <1>3, <1>4, <1>5, <1>6, <1>7, <1>8, <1>9, <1>10 DEF Dispatch

-----------------------------------------------------------------------------
(* Errors, crashes and stops.                                               *)

\* Losing every task of a runner removes no claim, so an orphan it leaves
\* behind stays quarantined.
LEMMA DropKeepsClaims ==
    ASSUME ClaimsInv, NEW r \in Runners, DropTasks(r), UNCHANGED claims,
           NEW c \in {"idle", "down"}, pc' = [pc EXCEPT ![r] = c]
    PROVE  ClaimsInv'
  <1>1. /\ AttemptType'
        /\ \A q \in Runners, x \in Orbs :
              attempt'[q][x] = IF q = r THEN "none" ELSE attempt[q][x]
        /\ \A x \in orphans' : x \in orphans \/ (x \in Orbs /\ attempt[r][x] = "working")
    BY DropPointwise DEF ClaimsInv
  <1>2. \A q \in Runners, x \in Orbs : Holds(q, x)' => q # r /\ Holds(q, x)
    BY <1>1 DEF Holds, Holding
  <1>3. \A x \in Orbs : attempt[r][x] = "working" => Holds(r, x)
    BY DEF Holds, Holding
  <1>4. OneEpisodePerOrb'
    <2>1. SUFFICES ASSUME NEW x \in Orbs, NEW q \in Runners, Holds(q, x)'
                   PROVE  /\ x \in claims' /\ x \notin orphans'
                          /\ \A s \in Runners : Holds(s, x)' => s = q
      BY DEF OneEpisodePerOrb
    <2>2. q # r /\ Holds(q, x)  BY <1>2, <2>1
    <2>3. ~Holds(r, x)  BY <2>2 DEF ClaimsInv, ClaimsExclusive, OneEpisodePerOrb
    <2>4. QED  BY <1>1, <1>2, <1>3, <2>2, <2>3 DEF ClaimsInv, ClaimsExclusive, OneEpisodePerOrb
  <1>5. OrphansAreQuarantined'
    BY <1>1, <1>3 DEF ClaimsInv, ClaimsExclusive, OneEpisodePerOrb, OrphansAreQuarantined
  <1>6. PcType' /\ TasksOnlyInJoin'
    BY <1>1 DEF ClaimsInv, PcType, PcStates, TasksOnlyInJoin
  <1>7. QED  BY <1>1, <1>4, <1>5, <1>6 DEF ClaimsInv, ClaimsExclusive

LEMMA DisturbKeepsClaims ==
    ASSUME ClaimsInv, NEW r \in Runners, Disturb(r)  PROVE  ClaimsInv'
  <1>1. CASE Stop(r)
    <2>1. Quiet /\ UNCHANGED pc  BY <1>1 DEF Stop, Quiet, dispatchVars
    <2>2. QED  BY <2>1, QuietKeepsClaims DEF ClaimsInv, PcType, TasksOnlyInJoin, Quiet
  <1>2. CASE Start(r)
    <2>1. Quiet /\ pc[r] = "down" /\ pc' = [pc EXCEPT ![r] = "idle"]
      BY <1>2 DEF Start, Quiet, dispatchVars
    <2>2. PcType' /\ TasksOnlyInJoin'
      BY <2>1 DEF ClaimsInv, PcType, PcStates, TasksOnlyInJoin, Quiet
    <2>3. QED  BY <2>1, <2>2, QuietKeepsClaims
  <1>3. CASE Crash(r)
    BY <1>3, DropKeepsClaims DEF Crash
  <1>4. CASE FatalError(r)
    BY <1>4, DropKeepsClaims DEF FatalError
  <1>5. CASE \E i \in plan[r] : HookAborts(r, i)
    <2>1. Quiet /\ UNCHANGED pc  BY <1>5 DEF HookAborts, Quiet, dispatchVars
    <2>2. QED  BY <2>1, QuietKeepsClaims DEF ClaimsInv, PcType, TasksOnlyInJoin, Quiet
  <1>6. CASE \E o \in Orbs : SetBack(r, o) \/ SpawnAborts(r, o)
    <2>1. PICK o \in Orbs : SetBack(r, o) \/ SpawnAborts(r, o)  BY <1>6
    <2>2. Holds(r, o) /\ At(r, o, "written") /\ UNCHANGED <<claims, orphans, pc>>
      BY <2>1 DEF SetBack, SpawnAborts, Finished, runnerVars, Holds, Holding
    <2>3. QED  BY <2>2, AdvanceKeepsClaims DEF Attempts
  <1>7. CASE \E o \in Orbs : DispatchError(r, o)
    <2>1. PICK o \in Orbs : DispatchError(r, o)  BY <1>7
    <2>2. /\ Holds(r, o) /\ Leave(r, o) /\ UNCHANGED <<claims, pc>>
          /\ orphans' \in {orphans, orphans \cup {o}}
      BY <2>1 DEF DispatchError, runnerVars
    <2>3. QED  BY <2>2, LeaveKeepsInv
  <1>8. CASE TickBreaks(r)
    BY <1>8, EndTickKeepsClaims DEF TickBreaks
  <1>9. QED  BY <1>1, <1>2, <1>3, <1>4, <1>5, <1>6, <1>7, <1>8 DEF Disturb

-----------------------------------------------------------------------------
(* Operators: the only step that removes a claim is ArchiveClaim, and then no *)
(* runner is up to hold it.                                                 *)

LEMMA OperatorKeepsClaims ==
    ASSUME ClaimsInv, NEW o \in Orbs, Operator(o)  PROVE  ClaimsInv'
  <1>1. CASE ArchiveClaim(o)
    <2>1. /\ o \notin orphans /\ claims' = claims \ {o}
          /\ UNCHANGED <<attempt, orphans, pc>>
          /\ \A r \in Runners : pc[r] = "down"
      BY <1>1 DEF ArchiveClaim, runnerVars, dispatchVars
    <2>2. \A r \in Runners, x \in Orbs : ~Holds(r, x)
      BY <2>1 DEF ClaimsInv, TasksOnlyInJoin, Holds, Holding
    <2>3. ClaimsExclusive'
      BY <2>1, <2>2 DEF ClaimsInv, ClaimsExclusive, OneEpisodePerOrb, OrphansAreQuarantined, Holds
    <2>4. AttemptType' /\ PcType' /\ TasksOnlyInJoin'
      BY <2>1 DEF ClaimsInv, AttemptType, PcType, TasksOnlyInJoin
    <2>5. QED  BY <2>3, <2>4 DEF ClaimsInv
  <1>2. CASE \/ Approve(o) \/ Reject(o) \/ Revise(o) \/ Reset(o)
            \/ EditStatus(o) \/ Delete(o)
    <2>1. Quiet /\ UNCHANGED pc
      BY <1>2 DEF Approve, Reject, Revise, Reset, EditStatus, Delete, OperatorPut,
                  Quiet, runnerVars, dispatchVars
    <2>2. QED  BY <2>1, QuietKeepsClaims DEF ClaimsInv, PcType, TasksOnlyInJoin, Quiet
  <1>3. QED  BY <1>1, <1>2 DEF Operator

-----------------------------------------------------------------------------
\* Every task of a runner lives in its dispatch round, under a claim of its own.
THEOREM ClaimsAreInvariant == Spec => []ClaimsInv
  <1>1. Init => ClaimsInv
    BY DEF Init, ClaimsInv, AttemptType, Attempts, PcType, PcStates, TasksOnlyInJoin,
           ClaimsExclusive, OneEpisodePerOrb, OrphansAreQuarantined, Holds, Holding
  <1>2. ClaimsInv /\ [Next]_vars => ClaimsInv'
    <2>1. SUFFICES ASSUME ClaimsInv, [Next]_vars PROVE ClaimsInv'  OBVIOUS
    <2>2. CASE \E r \in Runners : Tick(r)  BY <2>1, <2>2, TickKeepsClaims
    <2>3. CASE \E r \in Runners : Dispatch(r)  BY <2>1, <2>3, DispatchKeepsClaims
    <2>4. CASE \E r \in Runners : Exit(r)
      <3>1. PICK r \in Runners : Exit(r)  BY <2>4
      <3>2. Quiet /\ pc[r] = "idle" /\ pc' = [pc EXCEPT ![r] = "down"]
        BY <3>1 DEF Exit, Quiet, dispatchVars
      <3>3. PcType' /\ TasksOnlyInJoin'
        BY <2>1, <3>2 DEF ClaimsInv, PcType, PcStates, TasksOnlyInJoin, Quiet
      <3>4. QED  BY <2>1, <3>2, <3>3, QuietKeepsClaims
    <2>5. CASE \E r \in Runners : Disturb(r)  BY <2>1, <2>5, DisturbKeepsClaims
    <2>6. CASE \E o \in Orbs : Operator(o)  BY <2>1, <2>6, OperatorKeepsClaims
    <2>7. CASE \E o \in Orbs : OrphanExits(o)
      <3>1. orphans' \subseteq orphans /\ UNCHANGED <<attempt, claims, pc>>
        BY <2>7 DEF OrphanExits, runnerVars, dispatchVars
      <3>2. QED
        BY <2>1, <3>1 DEF ClaimsInv, AttemptType, PcType, TasksOnlyInJoin, ClaimsExclusive,
                          OneEpisodePerOrb, OrphansAreQuarantined, Holds
    <2>8. CASE UNCHANGED vars
      BY <2>1, <2>8, QuietKeepsClaims
         DEF vars, runnerVars, dispatchVars, Quiet, ClaimsInv, PcType, TasksOnlyInJoin
    <2>9. QED  BY <2>1, <2>2, <2>3, <2>4, <2>5, <2>6, <2>7, <2>8 DEF Next
  <1>3. QED  BY <1>1, <1>2, PTL DEF Spec

(* For every set of runners and every project: at most one dispatch episode   *)
(* owns an orb, its claim file is on disk while it does, and a worker that   *)
(* outlived its runner keeps the orb quarantined until the claim is archived *)
(* (DispatchClaim in queue_loop.rs).                                        *)
THEOREM ClaimsAreExclusive == Spec => []ClaimsExclusive
  <1>1. ClaimsInv => ClaimsExclusive  BY DEF ClaimsInv
  <1>2. QED  BY ClaimsAreInvariant, <1>1, PTL
-----------------------------------------------------------------------------
(* Type correctness.                                                        *)

Counters == faults \in 0..MaxFaults /\ setbacks \in 0..MaxSetbacks /\ moves \in 0..MaxMoves

LEMMA CountersStayBounded ==
    ASSUME Counters, UNCHANGED budget \/ Setback \/ Move \/ (Fault /\ faults < MaxFaults)
    PROVE  Counters'
  BY QueueAssumption DEF Counters, budget, Setback, Move, Fault

LEMMA FreshIsRecord == \A st \in States : Fresh(st) \in Record
  BY DEF Fresh, Record, Targets, WorkPhases, NoWork

LEMMA PutTyped ==
    ASSUME store \in [Orbs -> Record], history \in [Orbs -> States],
           NEW o \in Orbs, NEW rec \in Record, Put(o, rec)
    PROVE  store' \in [Orbs -> Record] /\ history' \in [Orbs -> States]
  <1>1. rec.st \in States  BY DEF Record
  <1>2. store' = [store EXCEPT ![o] = rec]  BY DEF Put
  <1>3. history' = history \/ history' = [history EXCEPT ![o] = rec.st]  BY DEF Put
  <1>4. QED  BY <1>1, <1>2, <1>3

\* Every transition a tick plans is an item over the snapshot's records.
LEMMA ItemsTyped ==
    ASSUME NEW s \in [Orbs -> Record]
    PROVE  StartPipelines(s) \cup ExecuteReady(s) \cup ReevaluateWaiting(s) \cup CompleteRoots(s)
              \subseteq Item
  <1>1. \A g \in Stages, o \in Orbs, st \in States \cup {"error"} : Do(g, s, o, st) \in Item
    BY DEF Do, Item
  <1>2. Phased \subseteq Orbs  BY QueueAssumption DEF QueueAssumption
  <1>3. ReadySet(s) \subseteq Orbs /\ WaitingSet(s) \subseteq Orbs /\ RootsDone(s) \subseteq Orbs
    BY DEF ReadySet, WaitingSet, RootsDone
  <1>4. {"speccing", "executing", "executing_children", "active", "reevaluating", "done"} \subseteq States
    BY DEF States, TaskStates, PhaseStates
  <1>5. \A o : AfterChildren(o) \in States \cup {"error"}
    BY <1>4 DEF AfterChildren
  <1>6. StartPipelines(s) \subseteq Item
    BY <1>1, <1>2, <1>4 DEF StartPipelines, Stages
  <1>7. ExecuteReady(s) \subseteq Item
    BY <1>1, <1>3, <1>4 DEF ExecuteReady, Stages
  <1>8. ReevaluateWaiting(s) \subseteq Item
    BY <1>1, <1>3, <1>4 DEF ReevaluateWaiting, Stages
  <1>9. CompleteRoots(s) \subseteq Item
    BY <1>1, <1>3, <1>4, <1>5 DEF CompleteRoots, Stages
  <1>10. QED  BY <1>6, <1>7, <1>8, <1>9
\* The type invariant is inductive only together with what the dispatcher may
\* hold: a task works on an unmarked orb in a dispatchable state, and a planned
\* transition starts from an unmarked record.
StoreOK == store \in [Orbs -> Record] /\ history \in [Orbs -> States] /\ NoStrandedMarker
PlanOK == /\ plan \in [Runners -> SUBSET Item]
          /\ \A r \in Runners : \A i \in plan[r] : i.from.exec = NoWork
RunnersOK == PcType /\ running \in [Runners -> BOOLEAN]
TasksOK == /\ AttemptType
           /\ copy \in [Runners -> [Orbs -> Record]]
           /\ \A r \in Runners, o \in Orbs : attempt[r][o] # "none" => HasTarget(copy[r], o)
FilesOK == claims \subseteq Orbs /\ orphans \subseteq Orbs /\ accepted \in [Orbs -> BOOLEAN]

MarkerInv == StoreOK /\ PlanOK /\ RunnersOK /\ TasksOK /\ FilesOK /\ Counters

\* A record that may be written: its marker, if any, is on a terminal orb.
Writable(rec) == rec \in Record /\ (rec.exec # NoWork => rec.st \in Terminal \cup {"tombstone"})

LEMMA PutKeepsStore ==
    ASSUME StoreOK, NEW o \in Orbs, NEW rec, Writable(rec), Put(o, rec)
    PROVE  StoreOK'
  <1>1. rec \in Record  BY DEF Writable
  <1>2. store' \in [Orbs -> Record] /\ history' \in [Orbs -> States]
    BY <1>1, PutTyped DEF StoreOK
  <1>3. store' = [store EXCEPT ![o] = rec]  BY DEF Put
  <1>4. NoStrandedMarker'
    BY <1>3 DEF StoreOK, NoStrandedMarker, Writable
  <1>5. QED  BY <1>2, <1>4 DEF StoreOK

LEMMA FreshIsWritable == \A st \in States : Writable(Fresh(st))
  BY FreshIsRecord DEF Writable, Fresh

\* The states an attempt may end in, and the record it writes.
LEMMA OutcomesTyped ==
    ASSUME NEW rec \in Record, rec.st \in Targets, rec.exec = NoWork,
           NEW st \in NextOnSuccess(rec.st) \cup NextOnSetback(rec.st)
    PROVE  Writable(After(rec, st))
  <1>1. {"decomposing", "refining", "review", "waiting", "executing", "done", "failed", "cancelled"}
           \subseteq States
    BY DEF States, TaskStates, PhaseStates
  <1>2. NextOnSuccess(rec.st) \subseteq States
    BY <1>1 DEF NextOnSuccess, Targets, WorkPhases
  <1>3. NextOnSetback(rec.st) \subseteq States
    BY <1>1 DEF NextOnSetback
  <1>4. st \in States  BY <1>2, <1>3
  <1>5. rec.label \in BOOLEAN  BY DEF Record
  <1>6. After(rec, st) \in [st : States, exec : Targets \cup {NoWork}, label : BOOLEAN]
    BY <1>4, <1>5 DEF After
  <1>7. After(rec, st).exec # NoWork => After(rec, st).st \in Terminal
    BY DEF After
  <1>8. QED  BY <1>6, <1>7 DEF Writable, Record

\* A planned transition other than an error writes an unmarked record.
LEMMA TickRecordWritable ==
    ASSUME NEW i \in Item, i.st # "error", i.from.exec = NoWork
    PROVE  Writable(TickRecord(i))
  <1>1. i.st \in States /\ i.from \in Record  BY DEF Item
  <1>2. TickRecord(i) = [i.from EXCEPT !.st = i.st, !.exec = NoWork]
    BY <1>1 DEF TickRecord, Record
  <1>3. QED  BY <1>1, <1>2 DEF Writable, Record

\* Items planned from a store whose open orbs are unmarked start unmarked.
LEMMA ItemsUnmarked ==
    ASSUME StoreOK,
           NEW i \in StartPipelines(store) \cup ExecuteReady(store)
                        \cup ReevaluateWaiting(store) \cup CompleteRoots(store)
    PROVE  i \in Item /\ i.from.exec = NoWork
  <1>1. i \in Item  BY ItemsTyped DEF StoreOK
  <1>2. \A o \in Orbs : store[o].st \notin Terminal \cup {"tombstone"} => store[o].exec = NoWork
    BY DEF StoreOK, NoStrandedMarker
  <1>3. \A o \in Orbs : Open(store, o) => store[o].exec = NoWork
    BY <1>2 DEF Open, Visible, Hidden
  <1>4. Phased \subseteq Orbs  BY QueueAssumption DEF QueueAssumption
  <1>5. \A g, o, st : Do(g, store, o, st).from = store[o]
    BY DEF Do
  <1>6. CASE i \in StartPipelines(store)
    <2>1. PICK o \in Phased : i = Do("start", store, o, "speccing") /\ store[o].st = "pending"
      BY <1>6 DEF StartPipelines
    <2>2. store[o].exec = NoWork  BY <1>2, <1>4, <2>1 DEF Terminal
    <2>3. QED  BY <1>1, <1>5, <2>1, <2>2
  <1>7. CASE i \in ExecuteReady(store)
    <2>1. PICK o \in ReadySet(store) : \E st : i = Do("ready", store, o, st)
      BY <1>7 DEF ExecuteReady
    <2>2. o \in Orbs /\ Open(store, o)  BY DEF ReadySet
    <2>3. QED  BY <1>1, <1>3, <1>5, <2>1, <2>2
  <1>8. CASE i \in ReevaluateWaiting(store)
    <2>1. PICK o \in WaitingSet(store) : i = Do("waiting", store, o, "reevaluating")
      BY <1>8 DEF ReevaluateWaiting
    <2>2. o \in Orbs /\ Open(store, o)  BY DEF WaitingSet
    <2>3. QED  BY <1>1, <1>3, <1>5, <2>1, <2>2
  <1>9. CASE i \in CompleteRoots(store)
    <2>1. PICK o \in RootsDone(store) : \E st : i = Do("roots", store, o, st)
      BY <1>9 DEF CompleteRoots
    <2>2. o \in Orbs /\ Open(store, o)  BY DEF RootsDone
    <2>3. QED  BY <1>1, <1>3, <1>5, <2>1, <2>2
  <1>10. QED  BY <1>6, <1>7, <1>8, <1>9
-----------------------------------------------------------------------------
(* Frames: what is unchanged stays typed.                                   *)

LEMMA Frames ==
    /\ StoreOK /\ UNCHANGED <<store, history>> => StoreOK'
    /\ PlanOK /\ UNCHANGED plan => PlanOK'
    /\ RunnersOK /\ UNCHANGED <<pc, running>> => RunnersOK'
    /\ TasksOK /\ UNCHANGED <<attempt, copy>> => TasksOK'
    /\ FilesOK /\ UNCHANGED <<claims, orphans, accepted>> => FilesOK'
  BY DEF StoreOK, NoStrandedMarker, PlanOK, RunnersOK, PcType, TasksOK, AttemptType, FilesOK

LEMMA LeaveKeepsTasks ==
    ASSUME TasksOK, NEW r \in Runners, NEW o \in Orbs, Leave(r, o)  PROVE  TasksOK'
  <1>1. At(r, o, "none") /\ copy' = [copy EXCEPT ![r][o] = NoCopy]  BY DEF Leave
  <1>2. "none" \in Attempts  BY DEF Attempts
  <1>3. /\ AttemptType'
        /\ \A q \in Runners, x \in Orbs :
              attempt'[q][x] = IF q = r /\ x = o THEN "none" ELSE attempt[q][x]
    BY <1>1, <1>2, AtPointwise DEF TasksOK
  <1>4. NoCopy \in Record
    BY FreshIsRecord DEF NoCopy, States, Hidden
  <1>5. /\ copy' \in [Runners -> [Orbs -> Record]]
        /\ \A q \in Runners, x \in Orbs : ~(q = r /\ x = o) => copy'[q][x] = copy[q][x]
    BY <1>1, <1>4 DEF TasksOK
  <1>6. QED  BY <1>3, <1>5 DEF TasksOK, HasTarget

\* Moving a task on, with the copy it has.
LEMMA AtKeepsTasks ==
    ASSUME TasksOK, NEW r \in Runners, NEW o \in Orbs, NEW a \in Attempts,
           attempt[r][o] # "none", At(r, o, a), UNCHANGED copy
    PROVE  TasksOK'
  BY AtPointwise DEF TasksOK

LEMMA EndTickKeepsMarkers ==
    ASSUME MarkerInv, NEW r \in Runners, EndTick(r), Counters'  PROVE  MarkerInv'
  <1>1. StoreOK' /\ TasksOK' /\ FilesOK'
    BY Frames DEF EndTick, KeepStore, dispatchVars, MarkerInv
  <1>2. PlanOK'  BY DEF EndTick, MarkerInv, PlanOK
  <1>3. RunnersOK'  BY DEF EndTick, MarkerInv, RunnersOK, PcType, PcStates
  <1>4. QED  BY <1>1, <1>2, <1>3 DEF MarkerInv

LEMMA TickKeepsMarkers ==
    ASSUME MarkerInv, NEW r \in Runners, Tick(r)  PROVE  MarkerInv'
  <1>1. FilesOK' /\ TasksOK' /\ Counters'
    BY Frames DEF Tick, BeginTick, NextStage, TickFails, EndTick, TickWrite, dispatchVars, budget,
                  MarkerInv, Counters
  <1>2. CASE BeginTick(r)
    <2>1. StoreOK' /\ RunnersOK'
      BY <1>2, Frames DEF BeginTick, KeepStore, MarkerInv, RunnersOK, PcType, PcStates, Stages
    <2>2. DEFINE items == StartPipelines(store) \cup ExecuteReady(store) \cup ReevaluateWaiting(store)
    <2>3. plan' = [plan EXCEPT ![r] = items]  BY <1>2 DEF BeginTick
    <2>4. \A i \in items : i \in Item /\ i.from.exec = NoWork
      BY ItemsUnmarked DEF MarkerInv
    <2> HIDE DEF items
    <2>5. PlanOK'  BY <2>3, <2>4 DEF MarkerInv, PlanOK
    <2>6. QED  BY <1>1, <2>1, <2>5 DEF MarkerInv
  <1>3. CASE NextStage(r)
    <2>1. StoreOK'  BY <1>3, Frames DEF NextStage, KeepStore, MarkerInv
    <2>2. RunnersOK'
      <3>1. pc' = [pc EXCEPT ![r] = StageAfter[pc[r]]] /\ pc[r] \in Stages /\ UNCHANGED running
        BY <1>3 DEF NextStage
      <3>2. StageAfter[pc[r]] \in PcStates  BY <3>1 DEF StageAfter, Stages, PcStates
      <3>3. QED  BY <3>1, <3>2 DEF MarkerInv, RunnersOK, PcType
    <2>3. DEFINE items == IF pc[r] = "ready" THEN CompleteRoots(store) ELSE {}
    <2>4. plan' = [plan EXCEPT ![r] = @ \cup items]  BY <1>3 DEF NextStage
    <2>5. \A i \in items : i \in Item /\ i.from.exec = NoWork
      BY ItemsUnmarked DEF MarkerInv
    <2> HIDE DEF items
    <2>6. PlanOK'  BY <2>4, <2>5 DEF MarkerInv, PlanOK
    <2>7. QED  BY <1>1, <2>1, <2>2, <2>6 DEF MarkerInv
  <1>4. CASE TickFails(r)
    BY <1>1, <1>4, EndTickKeepsMarkers DEF TickFails
  <1>5. CASE \E i \in plan[r] : TickWrite(r, i)
    <2>1. PICK i \in plan[r] : TickWrite(r, i)  BY <1>5
    <2>2. i \in Item /\ i.from.exec = NoWork /\ i.st # "error"
      BY <2>1 DEF MarkerInv, PlanOK, TickWrite
    <2>3. i.orb \in Orbs /\ Writable(TickRecord(i))  BY <2>2, TickRecordWritable DEF Item
    <2>4. StoreOK'
      BY <2>1, <2>3, PutKeepsStore DEF TickWrite, MarkerInv
    <2>5. DEFINE follow == [i EXCEPT !.st = AfterChildren(i.orb)]
    <2>6. follow \in Item /\ follow.from.exec = NoWork
      BY <2>2 DEF Item, AfterChildren, States, PhaseStates
    <2>7. \E more \in {{}, {follow}} : plan' = [plan EXCEPT ![r] = (@ \ {i}) \cup more]
      BY <2>1 DEF TickWrite
    <2> HIDE DEF follow
    <2>8. PlanOK'  BY <2>6, <2>7 DEF MarkerInv, PlanOK
    <2>9. RunnersOK'  BY <2>1, Frames DEF TickWrite, MarkerInv
    <2>10. QED  BY <1>1, <2>4, <2>8, <2>9 DEF MarkerInv
  <1>6. QED  BY <1>2, <1>3, <1>4, <1>5 DEF Tick

-----------------------------------------------------------------------------
(* Dispatch: a task is created for an unmarked orb in a dispatchable state,   *)
(* and writes a record whose marker is on a terminal orb.                    *)

LEMMA AttemptNames == {"none", "queued"} \cup Holding \subseteq Attempts
  BY DEF Attempts, Holding

LEMMA NoCopyIsRecord == NoCopy \in Record
  BY FreshIsRecord DEF NoCopy, States, Hidden

LEMMA TargetsUnmarked ==
    ASSUME NEW s, NEW o \in Orbs, HasTarget(s, o)
    PROVE  s[o].st \in Targets /\ s[o].exec = NoWork
  BY DEF HasTarget, Targets, WorkPhases

\* A finished attempt keeps the invariant, whatever it counts.
LEMMA FinishedKeepsMarkers ==
    ASSUME MarkerInv, NEW r \in Runners, NEW o \in Orbs, Holds(r, o),
           NEW st \in NextOnSuccess(copy[r][o].st) \cup NextOnSetback(copy[r][o].st),
           Finished(r, o, st), Counters'
    PROVE  MarkerInv'
  <1>1. attempt[r][o] # "none"  BY DEF Holds, Holding
  <1>2. copy[r][o] \in Record /\ copy[r][o].st \in Targets /\ copy[r][o].exec = NoWork
    BY <1>1, TargetsUnmarked DEF MarkerInv, TasksOK
  <1>3. Writable(After(copy[r][o], st))  BY <1>2, OutcomesTyped
  <1>4. StoreOK'  BY <1>3, PutKeepsStore DEF MarkerInv, Finished
  <1>5. TasksOK'
    <2>1. At(r, o, "written") /\ UNCHANGED copy  BY DEF Finished
    <2>2. QED  BY <1>1, <2>1, AtKeepsTasks, AttemptNames DEF MarkerInv, Holding
  <1>6. FilesOK'  BY DEF Finished, MarkerInv, FilesOK
  <1>7. PlanOK' /\ RunnersOK'  BY Frames DEF Finished, runnerVars, MarkerInv
  <1>8. QED  BY <1>4, <1>5, <1>6, <1>7 DEF MarkerInv

LEMMA DispatchKeepsMarkers ==
    ASSUME MarkerInv, NEW r \in Runners, Dispatch(r)  PROVE  MarkerInv'
  <1>1. CASE BeginDispatch(r)
    <2>1. StoreOK' /\ PlanOK' /\ FilesOK' /\ Counters'
      BY <1>1, Frames DEF BeginDispatch, KeepStore, budget, MarkerInv, Counters
    <2>2. RunnersOK'  BY <1>1 DEF BeginDispatch, MarkerInv, RunnersOK, PcType, PcStates
    <2>3. \A o \in DispatchTargets(store) : HasTarget(store, o)  BY DEF DispatchTargets
    <2> DEFINE targets == DispatchTargets(store)
    <2>4. /\ attempt' = [attempt EXCEPT ![r] = [o \in Orbs |-> IF o \in targets THEN "queued" ELSE "none"]]
          /\ copy' = [copy EXCEPT ![r] = [o \in Orbs |-> IF o \in targets THEN store[o] ELSE NoCopy]]
      BY <1>1 DEF BeginDispatch
    <2> HIDE DEF targets
    <2>5. AttemptType' /\ copy' \in [Runners -> [Orbs -> Record]]
      BY <2>4, AttemptNames, NoCopyIsRecord DEF MarkerInv, TasksOK, AttemptType, StoreOK
    <2>6. ASSUME NEW q \in Runners, NEW o \in Orbs, attempt'[q][o] # "none"
          PROVE  HasTarget(copy'[q], o)
      <3>1. CASE q = r
        BY <2>3, <2>4, <2>6, <3>1 DEF MarkerInv, TasksOK, AttemptType, targets, HasTarget
      <3>2. CASE q # r
        BY <2>4, <2>6, <3>2 DEF MarkerInv, TasksOK, AttemptType, HasTarget
      <3>3. QED  BY <3>1, <3>2
    <2>7. QED  BY <2>1, <2>2, <2>5, <2>6 DEF MarkerInv, TasksOK
  <1>2. CASE Joined(r)
    <2>1. StoreOK' /\ PlanOK' /\ FilesOK' /\ TasksOK' /\ Counters'
      BY <1>2, Frames DEF Joined, KeepStore, dispatchVars, budget, MarkerInv, Counters
    <2>2. RunnersOK'  BY <1>2 DEF Joined, MarkerInv, RunnersOK, PcType, PcStates
    <2>3. QED  BY <2>1, <2>2 DEF MarkerInv
  <1>3. CASE \E o \in Orbs : Abandon(r, o) \/ Acquire(r, o) \/ Refuse(r, o) \/ Release(r, o)
    <2>1. PICK o \in Orbs : Abandon(r, o) \/ Acquire(r, o) \/ Refuse(r, o) \/ Release(r, o)
      BY <1>3
    <2>2. StoreOK' /\ PlanOK' /\ RunnersOK' /\ Counters'
      BY <2>1, Frames DEF Abandon, Acquire, Refuse, Release, KeepStore, runnerVars, budget,
                          MarkerInv, Counters
    <2>3. FilesOK'
      BY <2>1 DEF Abandon, Acquire, Refuse, Release, MarkerInv, FilesOK
    <2>4. \/ Leave(r, o)
          \/ attempt[r][o] # "none" /\ At(r, o, "claimed") /\ UNCHANGED copy
      BY <2>1 DEF Abandon, Acquire, Refuse, Release
    <2>5. TasksOK'
      BY <2>4, LeaveKeepsTasks, AtKeepsTasks, AttemptNames DEF MarkerInv, Holding
    <2>6. QED  BY <2>2, <2>3, <2>5 DEF MarkerInv
  <1>4. CASE \E o \in Orbs : Admit(r, o)
    <2>1. PICK o \in Orbs : Admit(r, o)  BY <1>4
    <2>2. StoreOK' /\ PlanOK' /\ RunnersOK' /\ FilesOK' /\ Counters'
      BY <2>1, Frames DEF Admit, KeepStore, runnerVars, budget, MarkerInv, Counters
    <2>3. store[o] \in Record /\ HasTarget(store, o)
      BY <2>1 DEF Admit, Eligible, MarkerInv, StoreOK
    <2>4. At(r, o, "working") /\ copy' = [copy EXCEPT ![r][o] = store[o]]
      BY <2>1 DEF Admit
    <2>5. /\ AttemptType'
          /\ \A q \in Runners, x \in Orbs :
                attempt'[q][x] = IF q = r /\ x = o THEN "working" ELSE attempt[q][x]
      BY <2>4, AtPointwise, AttemptNames DEF MarkerInv, TasksOK, Holding
    <2>6. /\ copy' \in [Runners -> [Orbs -> Record]]
          /\ \A q \in Runners, x \in Orbs :
                copy'[q][x] = IF q = r /\ x = o THEN store[o] ELSE copy[q][x]
      BY <2>3, <2>4 DEF MarkerInv, TasksOK
    <2>7. TasksOK'  BY <2>3, <2>5, <2>6 DEF MarkerInv, TasksOK, HasTarget
    <2>8. QED  BY <2>2, <2>7 DEF MarkerInv
  <1>5. CASE \E o \in Orbs : Materialize(r, o)
    <2>1. PICK o \in Orbs : Materialize(r, o)  BY <1>5
    <2>2. PICK c \in Orbs : Put(c, Fresh("pending"))  BY <2>1 DEF Materialize, Children
    <2>3. Writable(Fresh("pending"))  BY FreshIsWritable DEF States, TaskStates
    <2>4. StoreOK'  BY <2>2, <2>3, PutKeepsStore DEF MarkerInv
    <2>5. PlanOK' /\ RunnersOK' /\ TasksOK' /\ FilesOK' /\ Counters'
      BY <2>1, Frames DEF Materialize, runnerVars, budget, MarkerInv, Counters
    <2>6. QED  BY <2>4, <2>5 DEF MarkerInv
  <1>6. CASE \E o \in Orbs : Succeed(r, o)
    <2>1. PICK o \in Orbs : Succeed(r, o)  BY <1>6
    <2>2. Holds(r, o) /\ UNCHANGED budget  BY <2>1 DEF Succeed, Holds, Holding
    <2>3. PICK st \in NextOnSuccess(copy[r][o].st) : Finished(r, o, st)  BY <2>1 DEF Succeed
    <2>4. Counters'  BY <2>2, CountersStayBounded DEF MarkerInv
    <2>5. QED  BY <2>2, <2>3, <2>4, FinishedKeepsMarkers
  <1>7. CASE \E o \in Orbs : ReadChildren(r, o)
    <2>1. PICK o \in Orbs : ReadChildren(r, o)  BY <1>7
    <2>2. StoreOK' /\ PlanOK' /\ RunnersOK' /\ FilesOK' /\ Counters'
      BY <2>1, Frames DEF ReadChildren, KeepStore, runnerVars, budget, MarkerInv, Counters
    <2>3. attempt[r][o] # "none" /\ At(r, o, "materializing") /\ UNCHANGED copy
      BY <2>1 DEF ReadChildren
    <2>4. TasksOK'  BY <2>3, AtKeepsTasks, AttemptNames DEF MarkerInv, Holding
    <2>5. QED  BY <2>2, <2>4 DEF MarkerInv
  <1>8. QED  BY <1>1, <1>2, <1>3, <1>4, <1>5, <1>6, <1>7 DEF Dispatch

-----------------------------------------------------------------------------
(* Disturbances, operators, and the theorems.                               *)

LEMMA DropKeepsTasks ==
    ASSUME TasksOK, FilesOK, NEW r \in Runners, DropTasks(r), UNCHANGED <<claims, accepted>>
    PROVE  TasksOK' /\ FilesOK'
  <1>1. /\ attempt' = [attempt EXCEPT ![r] = [o \in Orbs |-> "none"]]
        /\ copy' = [copy EXCEPT ![r] = [o \in Orbs |-> NoCopy]]
    BY DEF DropTasks
  <1>2. AttemptType' /\ copy' \in [Runners -> [Orbs -> Record]]
    BY <1>1, AttemptNames, NoCopyIsRecord DEF TasksOK, AttemptType
  <1>3. \A q \in Runners, x \in Orbs : attempt'[q][x] # "none" =>
            attempt'[q][x] = attempt[q][x] /\ copy'[q][x] = copy[q][x]
    BY <1>1 DEF TasksOK, AttemptType
  <1>4. TasksOK'  BY <1>2, <1>3 DEF TasksOK, HasTarget
  <1>5. FilesOK'  BY DEF DropTasks, FilesOK
  <1>6. QED  BY <1>4, <1>5

LEMMA DisturbKeepsMarkers ==
    ASSUME MarkerInv, NEW r \in Runners, Disturb(r)  PROVE  MarkerInv'
  <1>1. CASE Stop(r) \/ Start(r)
    <2>1. StoreOK' /\ PlanOK' /\ TasksOK' /\ FilesOK'
      BY <1>1, Frames DEF Stop, Start, KeepStore, dispatchVars, MarkerInv
    <2>2. RunnersOK'  BY <1>1 DEF Stop, Start, MarkerInv, RunnersOK, PcType, PcStates
    <2>3. Counters'  BY <1>1, CountersStayBounded DEF Stop, Start, MarkerInv
    <2>4. QED  BY <2>1, <2>2, <2>3 DEF MarkerInv
  <1>2. CASE Crash(r) \/ FatalError(r)
    <2>1. StoreOK'  BY <1>2, Frames DEF Crash, FatalError, KeepStore, MarkerInv
    <2>2. TasksOK' /\ FilesOK'
      BY <1>2, DropKeepsTasks DEF Crash, FatalError, MarkerInv
    <2>3. PlanOK' /\ RunnersOK'
      BY <1>2 DEF Crash, FatalError, MarkerInv, PlanOK, RunnersOK, PcType, PcStates
    <2>4. Counters'  BY <1>2, CountersStayBounded DEF Crash, FatalError, CanFault, MarkerInv
    <2>5. QED  BY <2>1, <2>2, <2>3, <2>4 DEF MarkerInv
  <1>3. CASE \E i \in plan[r] : HookAborts(r, i)
    <2>1. PICK i \in plan[r] : HookAborts(r, i)  BY <1>3
    <2>2. StoreOK' /\ RunnersOK' /\ TasksOK' /\ FilesOK'
      BY <2>1, Frames DEF HookAborts, KeepStore, dispatchVars, MarkerInv
    <2>3. PlanOK'
      <3>1. plan' = [plan EXCEPT ![r] = @ \ {i}]  BY <2>1 DEF HookAborts
      <3>2. QED  BY <3>1 DEF MarkerInv, PlanOK
    <2>4. Counters'  BY <2>1, CountersStayBounded DEF HookAborts, MarkerInv
    <2>5. QED  BY <2>2, <2>3, <2>4 DEF MarkerInv
  <1>4. CASE \E o \in Orbs : SetBack(r, o)
    <2>1. PICK o \in Orbs : SetBack(r, o)  BY <1>4
    <2>2. Holds(r, o)  BY <2>1 DEF SetBack, Holds, Holding
    <2>3. PICK st \in NextOnSetback(copy[r][o].st) : Finished(r, o, st)  BY <2>1 DEF SetBack
    <2>4. Counters'  BY <2>1, CountersStayBounded DEF SetBack, MarkerInv
    <2>5. QED  BY <2>2, <2>3, <2>4, FinishedKeepsMarkers
  <1>5. CASE \E o \in Orbs : SpawnAborts(r, o)
    <2>1. PICK o \in Orbs : SpawnAborts(r, o)  BY <1>5
    <2>2. attempt[r][o] # "none" /\ At(r, o, "written") /\ UNCHANGED copy /\ Put(o, copy[r][o])
      BY <2>1 DEF SpawnAborts
    <2>3. Writable(copy[r][o])  BY <2>2, TargetsUnmarked DEF MarkerInv, TasksOK, Writable
    <2>4. StoreOK'  BY <2>2, <2>3, PutKeepsStore DEF MarkerInv
    <2>5. TasksOK'  BY <2>2, AtKeepsTasks, AttemptNames DEF MarkerInv, Holding
    <2>6. PlanOK' /\ RunnersOK' /\ FilesOK'
      BY <2>1, Frames DEF SpawnAborts, runnerVars, MarkerInv
    <2>7. Counters'  BY <2>1, CountersStayBounded DEF SpawnAborts, MarkerInv
    <2>8. QED  BY <2>4, <2>5, <2>6, <2>7 DEF MarkerInv
  <1>6. CASE \E o \in Orbs : DispatchError(r, o)
    <2>1. PICK o \in Orbs : DispatchError(r, o)  BY <1>6
    <2>2. StoreOK' /\ PlanOK' /\ RunnersOK'
      BY <2>1, Frames DEF DispatchError, KeepStore, runnerVars, MarkerInv
    <2>3. TasksOK'  BY <2>1, LeaveKeepsTasks DEF DispatchError, MarkerInv
    <2>4. FilesOK'  BY <2>1 DEF DispatchError, MarkerInv, FilesOK
    <2>5. Counters'  BY <2>1, CountersStayBounded DEF DispatchError, CanFault, MarkerInv
    <2>6. QED  BY <2>2, <2>3, <2>4, <2>5 DEF MarkerInv
  <1>7. CASE TickBreaks(r)
    <2>1. Counters'  BY <1>7, CountersStayBounded DEF TickBreaks, CanFault, MarkerInv
    <2>2. QED  BY <1>7, <2>1, EndTickKeepsMarkers DEF TickBreaks
  <1>8. QED  BY <1>1, <1>2, <1>3, <1>4, <1>5, <1>6, <1>7 DEF Disturb

\* What an operator command writes is unmarked, or a tombstone.
LEMMA OperatorPutKeepsMarkers ==
    ASSUME MarkerInv, NEW o \in Orbs, NEW rec, Writable(rec), OperatorPut(o, rec),
           accepted' \in [Orbs -> BOOLEAN]
    PROVE  MarkerInv'
  <1>1. StoreOK'  BY PutKeepsStore DEF OperatorPut, MarkerInv
  <1>2. PlanOK' /\ RunnersOK' /\ TasksOK'
    BY Frames DEF OperatorPut, runnerVars, dispatchVars, MarkerInv
  <1>3. FilesOK'  BY DEF OperatorPut, MarkerInv, FilesOK
  <1>4. Counters'  BY CountersStayBounded DEF OperatorPut, MarkerInv
  <1>5. QED  BY <1>1, <1>2, <1>3, <1>4 DEF MarkerInv

LEMMA OperatorKeepsMarkers ==
    ASSUME MarkerInv, NEW o \in Orbs, Operator(o)  PROVE  MarkerInv'
  <1>1. store[o] \in Record  BY DEF MarkerInv, StoreOK
  <1>2. store[o].st \notin Terminal \cup {"tombstone"} => store[o].exec = NoWork
    BY DEF MarkerInv, StoreOK, NoStrandedMarker
  <1>3. accepted \in [Orbs -> BOOLEAN] /\ [accepted EXCEPT ![o] = FALSE] \in [Orbs -> BOOLEAN]
    BY DEF MarkerInv, FilesOK
  <1>4. CASE Approve(o) \/ Reject(o)
    <2>1. PICK st \in {"waiting", "done", "failed"} :
              OperatorPut(o, [store[o] EXCEPT !.label = FALSE, !.st = st])
      BY <1>4 DEF Approve, Reject
    <2>2. store[o].exec = NoWork  BY <1>2, <1>4 DEF Approve, Reject, Terminal
    <2>3. Writable([store[o] EXCEPT !.label = FALSE, !.st = st])
      BY <1>1, <2>2 DEF Writable, Record, States, TaskStates, PhaseStates
    <2>4. accepted' = accepted  BY <1>4 DEF Approve, Reject
    <2>5. QED  BY <1>3, <2>1, <2>3, <2>4, OperatorPutKeepsMarkers
  <1>5. CASE Revise(o) \/ Reset(o)
    <2>1. accepted' = [accepted EXCEPT ![o] = FALSE]  BY <1>5 DEF Revise, Reset
    <2>2. \E st \in States : OperatorPut(o, Fresh(st))
      <3>1. {"active", "executing", "refining", "pending"} \cup WorkPhases \subseteq States
        BY DEF States, TaskStates, PhaseStates, WorkPhases
      <3>2. RetryPhase(o) \subseteq States  BY <3>1 DEF RetryPhase
      <3>3. QED  BY <1>5, <3>1, <3>2 DEF Revise, Reset
    <2>3. QED  BY <1>3, <2>1, <2>2, FreshIsWritable, OperatorPutKeepsMarkers
  <1>6. CASE EditStatus(o)
    <2>1. store[o].st \in {"pending", "active", "review"}  BY <1>6 DEF EditStatus, TaskEdges
    <2>2. PICK st \in TaskEdges[store[o].st] : OperatorPut(o, [store[o] EXCEPT !.st = st])
      BY <1>6 DEF EditStatus
    <2>3. st \in States  BY <2>1, <2>2 DEF TaskEdges, States, TaskStates
    <2>4. store[o].exec = NoWork  BY <1>2, <2>1 DEF Terminal
    <2>5. Writable([store[o] EXCEPT !.st = st])  BY <1>1, <2>3, <2>4 DEF Writable, Record
    <2>6. accepted' = [accepted EXCEPT ![o] = FALSE]  BY <1>6 DEF EditStatus
    <2>7. QED  BY <1>3, <2>2, <2>5, <2>6, OperatorPutKeepsMarkers
  <1>7. CASE Delete(o)
    <2>1. Writable([store[o] EXCEPT !.st = "tombstone"])
      BY <1>1 DEF Writable, Record, States, Hidden
    <2>2. QED  BY <1>3, <1>7, <2>1, OperatorPutKeepsMarkers DEF Delete
  <1>8. CASE ArchiveClaim(o)
    <2>1. StoreOK' /\ PlanOK' /\ RunnersOK' /\ TasksOK' /\ Counters'
      BY <1>8, Frames DEF ArchiveClaim, KeepStore, runnerVars, dispatchVars, budget,
                          MarkerInv, Counters
    <2>2. FilesOK'  BY <1>8 DEF ArchiveClaim, MarkerInv, FilesOK
    <2>3. QED  BY <2>1, <2>2 DEF MarkerInv
  <1>9. QED  BY <1>4, <1>5, <1>6, <1>7, <1>8 DEF Operator

\* The inductive invariant behind the two theorems below.
THEOREM MarkersAreInvariant == Spec => []MarkerInv
  <1>1. Init => MarkerInv
    <2>1. SUFFICES ASSUME Init PROVE MarkerInv  OBVIOUS
    <2>2. \A o \in Orbs : store[o] \in Record /\ store[o].exec = NoWork
      <3>1. "absent" \in States /\ "pending" \in States  BY DEF States, TaskStates, Hidden
      <3>2. ASSUME NEW o \in Orbs  PROVE  \E st \in States : store[o] = Fresh(st)
        BY <2>1, <3>1 DEF Init
      <3>3. \A st \in States : Fresh(st).exec = NoWork  BY DEF Fresh
      <3>4. QED  BY <3>2, <3>3, FreshIsRecord
    <2>3. StoreOK
      <3>1. store \in [Orbs -> Record]  BY <2>1, <2>2 DEF Init
      <3>2. history \in [Orbs -> States]  BY <2>1, <2>2 DEF Init, Record
      <3>3. QED  BY <2>2, <3>1, <3>2 DEF StoreOK, NoStrandedMarker
    <2>4. PlanOK /\ RunnersOK /\ FilesOK
      BY <2>1 DEF Init, PlanOK, RunnersOK, PcType, PcStates, FilesOK
    <2>5. TasksOK
      BY <2>1, AttemptNames, NoCopyIsRecord DEF Init, TasksOK, AttemptType
    <2>6. Counters  BY <2>1, QueueAssumption DEF Init, Counters, QueueAssumption
    <2>7. QED  BY <2>3, <2>4, <2>5, <2>6 DEF MarkerInv
  <1>2. MarkerInv /\ [Next]_vars => MarkerInv'
    <2>1. SUFFICES ASSUME MarkerInv, [Next]_vars PROVE MarkerInv'  OBVIOUS
    <2>2. CASE \E r \in Runners : Tick(r)  BY <2>1, <2>2, TickKeepsMarkers
    <2>3. CASE \E r \in Runners : Dispatch(r)  BY <2>1, <2>3, DispatchKeepsMarkers
    <2>4. CASE \E r \in Runners : Disturb(r)  BY <2>1, <2>4, DisturbKeepsMarkers
    <2>5. CASE \E o \in Orbs : Operator(o)  BY <2>1, <2>5, OperatorKeepsMarkers
    <2>6. CASE \E r \in Runners : Exit(r)
      <3>1. PICK r \in Runners : Exit(r)  BY <2>6
      <3>2. StoreOK' /\ PlanOK' /\ TasksOK' /\ FilesOK' /\ Counters'
        BY <2>1, <3>1, Frames DEF Exit, KeepStore, dispatchVars, budget, MarkerInv, Counters
      <3>3. RunnersOK'  BY <2>1, <3>1 DEF Exit, MarkerInv, RunnersOK, PcType, PcStates
      <3>4. QED  BY <3>2, <3>3 DEF MarkerInv
    <2>7. CASE \E o \in Orbs : OrphanExits(o)
      <3>1. PICK o \in Orbs : OrphanExits(o)  BY <2>7
      <3>2. StoreOK' /\ PlanOK' /\ RunnersOK' /\ TasksOK' /\ Counters'
        BY <2>1, <3>1, Frames DEF OrphanExits, KeepStore, runnerVars, dispatchVars, budget,
                                  MarkerInv, Counters
      <3>3. FilesOK'  BY <2>1, <3>1 DEF OrphanExits, MarkerInv, FilesOK
      <3>4. QED  BY <3>2, <3>3 DEF MarkerInv
    <2>8. CASE UNCHANGED vars
      BY <2>1, <2>8, Frames DEF vars, runnerVars, dispatchVars, budget, MarkerInv, Counters
    <2>9. QED  BY <2>1, <2>2, <2>3, <2>4, <2>5, <2>6, <2>7, <2>8 DEF Next
  <1>3. QED  BY <1>1, <1>2, PTL DEF Spec

-----------------------------------------------------------------------------
(* The children a decomposition has still to append.                        *)

\* No record is taken back, and without a delete there is no tombstone: what a tick
\* plans and a task works on has a record, and of the children of an orb that is being
\* decomposed, exactly those that are not listed are there for certain.
Pending(r, o) == attempt[r][o] = "materializing"
PlanListed == \A r \in Runners : \A i \in plan[r] : store[i.orb].st # "absent" /\ i.st \notin Hidden
TasksListed == \A r \in Runners, o \in Orbs : attempt[r][o] # "none" => store[o].st # "absent"
NothingDeleted == Edits = {} => \A o \in Orbs : store[o].st # "tombstone"
ChildrenListed ==
    \A r \in Runners, o \in Orbs : Pending(r, o) => \A c \in Children(o) \cap Planned :
        /\ c \notin todo[r] => store[c].st # "absent"
        /\ Edits = {} /\ c \in todo[r] => store[c].st = "absent"
TodoTidy == \A r \in Runners, o \in Orbs : ~Pending(r, o) => todo[r] \cap Children(o) = {}
TodoInv ==
    /\ todo \in [Runners -> SUBSET Planned]
    /\ PlanListed /\ TasksListed /\ NothingDeleted /\ ChildrenListed /\ TodoTidy

\* What a step may write, other than the first record of a child.
Kept == \A x \in Orbs :
    store'[x] = store[x]
        \/ (store[x].st # "absent" /\ store'[x].st # "absent"
              /\ (Edits = {} => store'[x].st # "tombstone"))

LEMMA PutKept ==
    ASSUME StoreOK, NEW o \in Orbs, NEW rec, Put(o, rec), store[o].st # "absent",
           rec.st # "absent", Edits = {} => rec.st # "tombstone"
    PROVE  Kept
  BY DEF StoreOK, Put, Kept

LEMMA ChildOfOne == \A o, x \in Orbs : x # o => Children(x) \cap Children(o) = {}
  BY DEF Children

\* Only the tasks that were there go on, with the children they had still to append.
TasksGoOn ==
    /\ todo' \in [Runners -> SUBSET Planned]
    /\ \A r \in Runners, o \in Orbs :
          /\ attempt'[r][o] # "none" => store[o].st # "absent"
          /\ attempt'[r][o] = "materializing" =>
                 Pending(r, o) /\ todo'[r] \cap Children(o) = todo[r] \cap Children(o)
          /\ attempt'[r][o] # "materializing" => todo'[r] \cap Children(o) = {}

LEMMA KeptKeepsTodo ==
    ASSUME MarkerInv, TodoInv, Kept, TasksGoOn,
           \A r \in Runners : \A i \in plan'[r] :
               i.orb \in Orbs /\ store[i.orb].st # "absent" /\ i.st \notin Hidden
    PROVE  TodoInv'
  <1>1. \A x \in Orbs : store[x].st # "absent" => store'[x].st # "absent"  BY DEF Kept
  <1>2. PlanListed' /\ TasksListed'
    BY <1>1 DEF TasksGoOn, PlanListed, TasksListed, Hidden
  <1>3. NothingDeleted'  BY DEF Kept, TodoInv, NothingDeleted
  <1>4. ChildrenListed'
    <2>1. SUFFICES ASSUME NEW r \in Runners, NEW o \in Orbs, Pending(r, o)',
                          NEW c \in Children(o) \cap Planned
                   PROVE  /\ c \notin todo'[r] => store'[c].st # "absent"
                          /\ Edits = {} /\ c \in todo'[r] => store'[c].st = "absent"
      BY DEF ChildrenListed
    <2>2. Pending(r, o) /\ (c \in todo'[r] <=> c \in todo[r])
      BY <2>1 DEF TasksGoOn, Pending
    <2>3. c \in Orbs  BY DEF Children
    <2>4. QED  BY <1>1, <2>2, <2>3 DEF TodoInv, ChildrenListed, Kept
  <1>5. TodoTidy'  BY DEF TasksGoOn, TodoTidy, Pending
  <1>6. QED  BY <1>2, <1>3, <1>4, <1>5 DEF TasksGoOn, TodoInv

\* The ways tasks go on or end.
LEMMA SameTasks ==
    ASSUME MarkerInv, TodoInv, UNCHANGED <<attempt, todo>> PROVE TasksGoOn
  BY DEF TodoInv, TasksListed, TodoTidy, TasksGoOn, Pending

LEMMA LeavingTask ==
    ASSUME MarkerInv, TodoInv, NEW r \in Runners, NEW o \in Orbs, Leave(r, o) PROVE TasksGoOn
  <1>1. \A q \in Runners, x \in Orbs :
           attempt'[q][x] = IF q = r /\ x = o THEN "none" ELSE attempt[q][x]
    BY AtPointwise, AttemptNames DEF Leave, MarkerInv, TasksOK
  <1>2. todo' = [todo EXCEPT ![r] = @ \ Children(o)]  BY DEF Leave
  <1>3. todo' \in [Runners -> SUBSET Planned]  BY <1>2 DEF TodoInv
  <1>4. \A q \in Runners, x \in Orbs : ~(q = r /\ x = o) =>
           todo'[q] \cap Children(x) = todo[q] \cap Children(x)
    BY <1>2, ChildOfOne DEF TodoInv
  <1>5. todo'[r] \cap Children(o) = {}  BY <1>2 DEF TodoInv
  <1>6. QED  BY <1>1, <1>3, <1>4, <1>5 DEF TodoInv, TasksListed, TodoTidy, TasksGoOn, Pending

LEMMA MovingTask ==
    ASSUME MarkerInv, TodoInv, NEW r \in Runners, NEW o \in Orbs, NEW a \in Attempts \ {"materializing"},
           attempt[r][o] # "none", Pending(r, o) => todo[r] \cap Children(o) = {},
           At(r, o, a), UNCHANGED todo
    PROVE  TasksGoOn
  <1>1. \A q \in Runners, x \in Orbs :
           attempt'[q][x] = IF q = r /\ x = o THEN a ELSE attempt[q][x]
    BY AtPointwise DEF MarkerInv, TasksOK
  <1>2. QED  BY <1>1 DEF TodoInv, TasksListed, TodoTidy, TasksGoOn, Pending

LEMMA DroppingTasks ==
    ASSUME MarkerInv, TodoInv, NEW r \in Runners, DropTasks(r) PROVE TasksGoOn
  <1>1. \A q \in Runners, x \in Orbs :
           attempt'[q][x] = IF q = r THEN "none" ELSE attempt[q][x]
    BY DropPointwise DEF MarkerInv, TasksOK
  <1>2. todo' = [todo EXCEPT ![r] = {}]  BY DEF DropTasks
  <1>3. /\ todo' \in [Runners -> SUBSET Planned] /\ todo'[r] = {}
        /\ \A q \in Runners : q # r => todo'[q] = todo[q]
    BY <1>2 DEF TodoInv
  <1>4. QED  BY <1>1, <1>3 DEF TodoInv, TasksListed, TodoTidy, TasksGoOn, Pending

\* A plan that shrinks names no orb it did not name.
LEMMA SamePlans ==
    ASSUME MarkerInv, TodoInv, \A r \in Runners : plan'[r] \subseteq plan[r]
    PROVE  \A r \in Runners : \A i \in plan'[r] :
               i.orb \in Orbs /\ store[i.orb].st # "absent" /\ i.st \notin Hidden
  <1>1. \A r \in Runners : \A i \in plan[r] : i.orb \in Orbs  BY DEF MarkerInv, PlanOK, Item
  <1>2. QED  BY <1>1 DEF TodoInv, PlanListed

LEMMA StoreSame == ASSUME KeepStore PROVE Kept
  BY DEF KeepStore, Kept

\* A tick plans nothing for an orb that has no record, and takes nothing away.
LEMMA ItemsListed ==
    ASSUME MarkerInv,
           NEW i \in StartPipelines(store) \cup ExecuteReady(store)
                        \cup ReevaluateWaiting(store) \cup CompleteRoots(store)
    PROVE  i.orb \in Orbs /\ store[i.orb].st # "absent" /\ i.st \notin Hidden
  <1>1. i.orb \in Orbs  BY ItemsUnmarked DEF MarkerInv, Item
  <1>2. \A g, o, st : Do(g, store, o, st).st = st /\ Do(g, store, o, st).orb = o  BY DEF Do
  <1>3. \A o : Open(store, o) => store[o].st # "absent"  BY DEF Open, Visible, Hidden
  <1>4. {"speccing", "executing", "executing_children", "active", "reevaluating", "done", "error"}
           \cap Hidden = {}
    BY DEF Hidden
  <1>5. CASE i \in StartPipelines(store)
    BY <1>1, <1>2, <1>4, <1>5 DEF StartPipelines
  <1>6. CASE i \in ExecuteReady(store)
    BY <1>1, <1>2, <1>3, <1>4, <1>6 DEF ExecuteReady, ReadySet
  <1>7. CASE i \in ReevaluateWaiting(store)
    BY <1>1, <1>2, <1>3, <1>4, <1>7 DEF ReevaluateWaiting, WaitingSet
  <1>8. CASE i \in CompleteRoots(store)
    <2>1. \A o : AfterChildren(o) \notin Hidden  BY <1>4 DEF AfterChildren
    <2>2. QED  BY <1>1, <1>2, <1>3, <1>4, <1>8, <2>1 DEF CompleteRoots, RootsDone
  <1>9. QED  BY <1>5, <1>6, <1>7, <1>8

LEMMA TickKeepsTodo ==
    ASSUME MarkerInv, TodoInv, NEW r \in Runners, Tick(r) PROVE TodoInv'
  <1>1. UNCHANGED <<attempt, todo>>
    BY DEF Tick, BeginTick, NextStage, TickFails, EndTick, TickWrite, dispatchVars
  <1>2. TasksGoOn  BY <1>1, SameTasks
  <1>3. plan \in [Runners -> SUBSET Item]  BY DEF MarkerInv, PlanOK
  <1>4. \A q \in Runners : \A i \in plan[q] :
            i.orb \in Orbs /\ store[i.orb].st # "absent" /\ i.st \notin Hidden
    BY <1>3 DEF TodoInv, PlanListed, Item
  <1>5. CASE BeginTick(r) \/ NextStage(r)
    <2>1. Kept  BY <1>5, StoreSame DEF BeginTick, NextStage
    <2>2. \A q \in Runners : \A i \in plan'[q] : i \in plan[q] \/
              i \in StartPipelines(store) \cup ExecuteReady(store)
                        \cup ReevaluateWaiting(store) \cup CompleteRoots(store)
      BY <1>3, <1>5 DEF BeginTick, NextStage
    <2>3. QED  BY <1>2, <1>4, <2>1, <2>2, ItemsListed, KeptKeepsTodo
  <1>6. CASE TickFails(r)
    <2>1. Kept  BY <1>6, StoreSame DEF TickFails, EndTick
    <2>2. \A q \in Runners : plan'[q] \subseteq plan[q]
      BY <1>3, <1>6 DEF TickFails, EndTick
    <2>3. QED  BY <1>2, <2>1, <2>2, SamePlans, KeptKeepsTodo
  <1>7. ASSUME NEW i \in plan[r], TickWrite(r, i) PROVE TodoInv'
    <2>1. i \in Item /\ i.orb \in Orbs /\ store[i.orb].st # "absent" /\ i.st \notin Hidden
      BY <1>3, <1>4
    <2>2. TickRecord(i).st = i.st  BY <2>1 DEF TickRecord, Item, Record
    <2>3. Kept  BY <1>7, <2>1, <2>2, PutKept DEF TickWrite, MarkerInv, Hidden
    <2> DEFINE follow == [i EXCEPT !.st = AfterChildren(i.orb)]
    <2>4. follow.orb = i.orb /\ follow.st \notin Hidden
      BY <2>1 DEF Item, AfterChildren, Hidden
    <2>5. \A q \in Runners : \A j \in plan'[q] : j \in plan[q] \/ j = follow
      BY <1>3, <1>7 DEF TickWrite
    <2> HIDE DEF follow
    <2>6. QED  BY <1>2, <1>4, <2>1, <2>3, <2>4, <2>5, KeptKeepsTodo
  <1>8. QED  BY <1>5, <1>6, <1>7 DEF Tick

\* A task that has its record stores another one, never a hidden one.
LEMMA OutcomeKeepsTodo ==
    ASSUME MarkerInv, TodoInv, NEW r \in Runners, NEW o \in Orbs,
           Succeed(r, o) \/ SetBack(r, o) \/ SpawnAborts(r, o)
    PROVE  TodoInv'
  <1>1. /\ attempt[r][o] # "none" /\ At(r, o, "written") /\ UNCHANGED <<todo, plan>>
    BY DEF Succeed, SetBack, SpawnAborts, Finished, runnerVars
  <1>2. Pending(r, o) => todo[r] \cap Children(o) = {}
    BY DEF Succeed, SetBack, SpawnAborts, Pending
  <1>3. TasksGoOn  BY <1>1, <1>2, MovingTask DEF Attempts
  <1>4. copy[r][o].st \in Targets  BY <1>1, TargetsUnmarked DEF MarkerInv, TasksOK
  <1>5. \A st \in NextOnSuccess(copy[r][o].st) \cup NextOnSetback(copy[r][o].st) :
            After(copy[r][o], st).st = st /\ st \notin Hidden
    BY <1>4 DEF NextOnSuccess, NextOnSetback, After, Targets, WorkPhases, Hidden
  <1>6. copy[r][o].st \notin Hidden  BY <1>4 DEF Targets, WorkPhases, Hidden
  <1>7. \E rec : Put(o, rec) /\ rec.st \notin Hidden
    BY <1>5, <1>6 DEF Succeed, SetBack, SpawnAborts, Finished
  <1>8. Kept  BY <1>1, <1>7, PutKept DEF TodoInv, TasksListed, MarkerInv, Hidden
  <1>9. QED  BY <1>1, <1>3, <1>8, SamePlans, KeptKeepsTodo

\* The list of children is read: those that show are there, the others are to be appended.
LEMMA ReadingKeepsTodo ==
    ASSUME MarkerInv, TodoInv, NEW r \in Runners, NEW o \in Orbs, ReadChildren(r, o)
    PROVE  TodoInv'
  <1>1. /\ attempt[r][o] = "working" /\ At(r, o, "materializing")
        /\ todo' = [todo EXCEPT ![r] = @ \cup MissingChildren(o)]
        /\ UNCHANGED <<store, plan>>
    BY DEF ReadChildren, KeepStore, runnerVars
  <1>2. \A q \in Runners, x \in Orbs :
           attempt'[q][x] = IF q = r /\ x = o THEN "materializing" ELSE attempt[q][x]
    BY <1>1, AtPointwise, AttemptNames DEF MarkerInv, TasksOK, Holding
  <1>3. /\ MissingChildren(o) \subseteq Children(o) \cap Planned
        /\ \A c \in Children(o) \cap Planned :
              c \notin MissingChildren(o) <=> store[c].st \notin Hidden
    BY DEF MissingChildren, Visible
  <1>4. todo' \in [Runners -> SUBSET Planned]  BY <1>1, <1>3 DEF TodoInv
  <1>5. \A q \in Runners, x \in Orbs : ~(q = r /\ x = o) =>
            todo'[q] \cap Children(x) = todo[q] \cap Children(x)
    BY <1>1, <1>3, ChildOfOne DEF TodoInv
  <1>6. todo[r] \cap Children(o) = {}
    BY <1>1 DEF TodoInv, TodoTidy, Pending
  <1>7. PlanListed' /\ TasksListed' /\ NothingDeleted' /\ TodoTidy'
    BY <1>1, <1>2, <1>5 DEF TodoInv, PlanListed, TasksListed, NothingDeleted, TodoTidy, Pending
  <1>8. ChildrenListed'
    <2>1. SUFFICES ASSUME NEW q \in Runners, NEW x \in Orbs, Pending(q, x)',
                          NEW c \in Children(x) \cap Planned
                   PROVE  /\ c \notin todo'[q] => store'[c].st # "absent"
                          /\ Edits = {} /\ c \in todo'[q] => store'[c].st = "absent"
      BY DEF ChildrenListed
    <2>2. CASE q = r /\ x = o
      <3>1. c \in todo'[r] <=> c \in MissingChildren(o)  BY <1>1, <1>6, <2>1, <2>2 DEF TodoInv
      <3>2. c \in Orbs /\ (c \in MissingChildren(o) <=> store[c].st \in Hidden)
        BY <1>3, <2>1, <2>2 DEF Children
      <3>3. QED  BY <1>1, <2>2, <3>1, <3>2 DEF TodoInv, NothingDeleted, Hidden
    <2>3. CASE ~(q = r /\ x = o)
      <3>1. Pending(q, x)  BY <1>2, <2>1, <2>3 DEF Pending
      <3>2. c \in todo'[q] <=> c \in todo[q]  BY <1>5, <2>3
      <3>3. QED  BY <1>1, <3>1, <3>2 DEF TodoInv, ChildrenListed
    <2>4. QED  BY <2>2, <2>3
  <1>9. QED  BY <1>4, <1>7, <1>8 DEF TodoInv

\* The child that is appended: of its parent's plan, and without a delete the first
\* record it has.
LEMMA AppendedChild ==
    ASSUME TodoInv, NEW r \in Runners, NEW o \in Orbs, Materialize(r, o)
    PROVE  \E c \in Children(o) \cap Planned :
              /\ c \in Orbs \ Phased /\ Put(c, Fresh("pending"))
              /\ todo' = [todo EXCEPT ![r] = @ \ {c}]
              /\ Edits = {} => store[c].st = "absent"
  <1>1. PICK c \in todo[r] \cap Children(o) :
           Put(c, Fresh("pending")) /\ todo' = [todo EXCEPT ![r] = @ \ {c}]
    BY DEF Materialize
  <1>2. c \in Planned  BY <1>1 DEF TodoInv
  <1>3. c \in Orbs \ Phased  BY <1>2, QueueAssumption DEF QueueAssumption
  <1>4. Edits = {} => store[c].st = "absent"
    BY <1>1, <1>2 DEF Materialize, TodoInv, ChildrenListed, Pending
  <1>5. QED  BY <1>1, <1>2, <1>3, <1>4

LEMMA AppendingKeepsTodo ==
    ASSUME ClaimsInv, MarkerInv, TodoInv, NEW r \in Runners, NEW o \in Orbs, Materialize(r, o)
    PROVE  TodoInv'
  <1>1. PICK c \in Children(o) \cap Planned :
              /\ c \in Orbs \ Phased /\ Put(c, Fresh("pending"))
              /\ todo' = [todo EXCEPT ![r] = @ \ {c}]
    BY AppendedChild
  <1>2. Pending(r, o) /\ UNCHANGED <<attempt, plan>>
    BY DEF Materialize, Pending, runnerVars
  <1>3. \A x \in Orbs : IF x = c THEN store'[x].st = "pending" ELSE store'[x] = store[x]
    BY <1>1 DEF MarkerInv, StoreOK, Put, Fresh
  <1>4. /\ todo' \in [Runners -> SUBSET Planned] /\ c \notin todo'[r]
        /\ \A q \in Runners : \A d : d # c => (d \in todo'[q] <=> d \in todo[q])
        /\ \A q \in Runners : todo'[q] \subseteq todo[q]
    BY <1>1 DEF TodoInv
  <1>5. PlanListed' /\ TasksListed' /\ NothingDeleted'
    <2>1. \A q \in Runners : \A i \in plan[q] : i.orb \in Orbs  BY DEF MarkerInv, PlanOK, Item
    <2>2. QED  BY <1>2, <1>3, <2>1 DEF TodoInv, PlanListed, TasksListed, NothingDeleted
  <1>6. TodoTidy'  BY <1>2, <1>4 DEF TodoInv, TodoTidy, Pending
  <1>7. ChildrenListed'
    <2>1. SUFFICES ASSUME NEW q \in Runners, NEW x \in Orbs, Pending(q, x)',
                          NEW d \in Children(x) \cap Planned
                   PROVE  /\ d \notin todo'[q] => store'[d].st # "absent"
                          /\ Edits = {} /\ d \in todo'[q] => store'[d].st = "absent"
      BY DEF ChildrenListed
    <2>2. Pending(q, x) /\ d \in Orbs  BY <1>2, <2>1 DEF Pending, Children
    <2>3. CASE d = c
      <3>1. x = o  BY <2>3 DEF Children
      <3>2. q = r
        BY <1>2, <2>2, <3>1 DEF Pending, ClaimsInv, ClaimsExclusive, OneEpisodePerOrb, Holds, Holding
      <3>3. QED  BY <1>3, <1>4, <2>2, <2>3, <3>2
    <2>4. CASE d # c
      BY <1>3, <1>4, <2>2, <2>4 DEF TodoInv, ChildrenListed
    <2>5. QED  BY <2>3, <2>4
  <1>8. QED  BY <1>4, <1>5, <1>6, <1>7 DEF TodoInv

LEMMA DispatchKeepsTodo ==
    ASSUME ClaimsInv, MarkerInv, TodoInv, NEW r \in Runners, Dispatch(r) PROVE TodoInv'
  <1>1. CASE BeginDispatch(r)
    <2>1. Kept /\ UNCHANGED <<plan, todo>>  BY <1>1, StoreSame DEF BeginDispatch
    <2>2. \A o \in Orbs : attempt[r][o] = "none"
      BY <1>1 DEF BeginDispatch, ClaimsInv, TasksOnlyInJoin
    <2>3. \A o \in DispatchTargets(store) : store[o].st # "absent"
      BY DEF DispatchTargets, HasTarget, WorkPhases
    <2> DEFINE targets == DispatchTargets(store)
    <2>4. attempt' = [attempt EXCEPT ![r] = [o \in Orbs |-> IF o \in targets THEN "queued" ELSE "none"]]
      BY <1>1 DEF BeginDispatch
    <2> HIDE DEF targets
    <2>5. \A q \in Runners, o \in Orbs :
              attempt'[q][o] = IF q # r THEN attempt[q][o]
                               ELSE IF o \in targets THEN "queued" ELSE "none"
      BY <2>4 DEF ClaimsInv, AttemptType
    <2>6. TasksGoOn
      BY <2>1, <2>2, <2>3, <2>5 DEF targets, TodoInv, TasksListed, TodoTidy, TasksGoOn, Pending
    <2>7. QED  BY <2>1, <2>6, SamePlans, KeptKeepsTodo
  <1>2. CASE Joined(r)
    BY <1>2, StoreSame, SameTasks, SamePlans, KeptKeepsTodo DEF Joined, dispatchVars
  <1>3. ASSUME NEW o \in Orbs, Abandon(r, o) \/ Acquire(r, o) \/ Refuse(r, o) \/ Admit(r, o) \/ Release(r, o)
        PROVE  TodoInv'
    <2>1. Kept /\ UNCHANGED plan
      BY <1>3, StoreSame DEF Abandon, Acquire, Refuse, Admit, Release, runnerVars
    <2>2. \/ Leave(r, o)
          \/ /\ attempt[r][o] \notin {"none", "materializing"} /\ UNCHANGED todo
             /\ At(r, o, "claimed") \/ At(r, o, "working")
      BY <1>3 DEF Abandon, Acquire, Refuse, Admit, Release
    <2>3. TasksGoOn  BY <2>2, LeavingTask, MovingTask DEF Attempts, Pending
    <2>4. QED  BY <2>1, <2>3, SamePlans, KeptKeepsTodo
  <1>4. QED
    BY <1>1, <1>2, <1>3, ReadingKeepsTodo, AppendingKeepsTodo, OutcomeKeepsTodo DEF Dispatch

LEMMA DisturbKeepsTodo ==
    ASSUME MarkerInv, TodoInv, NEW r \in Runners, Disturb(r) PROVE TodoInv'
  <1>1. plan \in [Runners -> SUBSET Item]  BY DEF MarkerInv, PlanOK
  <1>2. CASE Stop(r) \/ Start(r) \/ TickBreaks(r) \/ \E i \in plan[r] : HookAborts(r, i)
    <2>1. Kept /\ UNCHANGED <<attempt, todo>>
      BY <1>2, StoreSame DEF Stop, Start, TickBreaks, EndTick, HookAborts, dispatchVars
    <2>2. \A q \in Runners : plan'[q] \subseteq plan[q]
      BY <1>1, <1>2 DEF Stop, Start, TickBreaks, EndTick, HookAborts
    <2>3. QED  BY <2>1, <2>2, SameTasks, SamePlans, KeptKeepsTodo
  <1>3. CASE Crash(r) \/ FatalError(r)
    <2>1. Kept /\ DropTasks(r)  BY <1>3, StoreSame DEF Crash, FatalError
    <2>2. \A q \in Runners : plan'[q] \subseteq plan[q]  BY <1>1, <1>3 DEF Crash, FatalError
    <2>3. QED  BY <2>1, <2>2, DroppingTasks, SamePlans, KeptKeepsTodo
  <1>4. ASSUME NEW o \in Orbs, DispatchError(r, o) PROVE TodoInv'
    <2>1. Kept /\ Leave(r, o) /\ UNCHANGED plan
      BY <1>4, StoreSame DEF DispatchError, runnerVars
    <2>2. QED  BY <2>1, LeavingTask, SamePlans, KeptKeepsTodo
  <1>5. QED  BY <1>2, <1>3, <1>4, OutcomeKeepsTodo DEF Disturb

\* An operator's command writes an orb that there is, and only a delete hides it.
LEMMA OperatorKeepsTodo ==
    ASSUME MarkerInv, TodoInv, NEW o \in Orbs, Operator(o) PROVE TodoInv'
  <1>1. UNCHANGED <<plan, attempt, todo>>
    BY DEF Operator, Approve, Reject, Revise, Reset, EditStatus, Delete, OperatorPut, ArchiveClaim,
           runnerVars, dispatchVars
  <1>2. Kept
    <2>1. CASE ArchiveClaim(o)  BY <2>1, StoreSame DEF ArchiveClaim
    <2>2. CASE \/ Approve(o) \/ Reject(o) \/ Revise(o) \/ Reset(o) \/ EditStatus(o) \/ Delete(o)
      <3>1. store[o] \in Record  BY DEF MarkerInv, StoreOK
      <3>2. \E rec : /\ Put(o, rec) /\ store[o].st # "absent" /\ rec.st # "absent"
                     /\ Edits = {} => rec.st # "tombstone"
        <4>1. CASE Approve(o)
          <5>1. PICK rec \in {[store[o] EXCEPT !.label = FALSE, !.st =
                    IF o \in Phased /\ ~PostCompletionReview(o) THEN "waiting" ELSE "done"]} :
                    Put(o, rec)
            BY <4>1 DEF Approve, OperatorPut
          <5>2. rec.st \in {"waiting", "done"}  BY <3>1, <5>1 DEF Record
          <5>3. QED  BY <4>1, <5>1, <5>2 DEF Approve
        <4>2. CASE Reject(o)
          <5>1. Put(o, [store[o] EXCEPT !.label = FALSE, !.st = "failed"]) /\ store[o].st = "review"
            BY <4>2 DEF Reject, OperatorPut
          <5>2. [store[o] EXCEPT !.label = FALSE, !.st = "failed"].st = "failed"
            BY <3>1 DEF Record
          <5>3. QED  BY <5>1, <5>2
        <4>3. CASE Revise(o)
          BY <4>3 DEF Revise, OperatorPut, Fresh
        <4>4. CASE Reset(o)
          <5>1. PICK p \in RetryPhase(o) : Put(o, Fresh(p))  BY <4>4 DEF Reset, OperatorPut
          <5>2. p \notin Hidden  BY DEF RetryPhase, WorkPhases, Hidden
          <5>3. QED  BY <4>4, <5>1, <5>2 DEF Reset, Fresh, Hidden
        <4>5. CASE EditStatus(o)
          <5>1. Edits # {} /\ store[o].st \in {"pending", "active", "review"}
            BY <4>5 DEF EditStatus, TaskEdges
          <5>2. PICK st \in TaskEdges[store[o].st] : Put(o, [store[o] EXCEPT !.st = st])
            BY <4>5 DEF EditStatus, OperatorPut
          <5>3. st # "absent"  BY <5>1, <5>2 DEF TaskEdges
          <5>4. QED  BY <3>1, <5>1, <5>2, <5>3 DEF Record
        <4>6. CASE Delete(o)
          BY <3>1, <4>6 DEF Delete, OperatorPut, Record, Visible, Hidden
        <4>7. QED  BY <2>2, <4>1, <4>2, <4>3, <4>4, <4>5, <4>6
      <3>3. QED  BY <3>2, PutKept DEF MarkerInv
    <2>3. QED  BY <2>1, <2>2 DEF Operator
  <1>3. QED  BY <1>1, <1>2, SameTasks, SamePlans, KeptKeepsTodo

\* What the proofs below take as given of every state.
Base == ClaimsInv /\ MarkerInv /\ TodoInv

LEMMA BaseIsInvariant == Spec => []Base
  <1>1. Init => TodoInv
    <2>1. SUFFICES ASSUME Init PROVE TodoInv  OBVIOUS
    <2>2. \A o \in Orbs : store[o].st # "tombstone"
      BY <2>1 DEF Init, Fresh
    <2>3. QED
      BY <2>1, <2>2 DEF Init, TodoInv, PlanListed, TasksListed, NothingDeleted, ChildrenListed,
                        TodoTidy, Pending
  <1>2. ClaimsInv /\ MarkerInv /\ TodoInv /\ [Next]_vars => TodoInv'
    <2>1. SUFFICES ASSUME ClaimsInv, MarkerInv, TodoInv, [Next]_vars PROVE TodoInv'  OBVIOUS
    <2>2. CASE \/ \E r \in Runners : Exit(r)
               \/ \E o \in Orbs : OrphanExits(o)
               \/ UNCHANGED vars
      <3>1. KeepStore /\ UNCHANGED <<plan, attempt, todo>>
        BY <2>2 DEF Exit, OrphanExits, KeepStore, vars, runnerVars, dispatchVars
      <3>2. QED  BY <2>1, <3>1, StoreSame, SameTasks, SamePlans, KeptKeepsTodo
    <2>3. QED
      BY <2>1, <2>2, TickKeepsTodo, DispatchKeepsTodo, DisturbKeepsTodo, OperatorKeepsTodo DEF Next
  <1>3. QED  BY <1>1, <1>2, ClaimsAreInvariant, MarkersAreInvariant, PTL DEF Spec, Base

\* Every variable keeps its type in every reachable state.
THEOREM TypeCorrect == Spec => []TypeOK
  <1>1. Base => TypeOK
    BY DEF Base, MarkerInv, StoreOK, PlanOK, RunnersOK, PcType, TasksOK, AttemptType, FilesOK,
           Counters, TodoInv, TypeOK
  <1>2. QED  BY <1>1, BaseIsInvariant, PTL

\* For every project and any number of runners, whatever stale snapshot a tick
\* writes and whatever hook, crash or operator interferes: the execution marker
\* is only ever on a terminal or deleted orb, so no open orb is skipped for it.
THEOREM MarkersNeverStrand == Spec => []NoStrandedMarker
  <1>1. MarkerInv => NoStrandedMarker  BY DEF MarkerInv, StoreOK
  <1>2. QED  BY <1>1, MarkersAreInvariant, PTL
-----------------------------------------------------------------------------
(* One runner, and no edits behind its back: what a task or a planned write   *)
(* started from is then still true when it ends.                             *)

Alone == Edits = {} /\ \E r : Runners = {r}

ChildrenDone(o) == \A c \in Children(o) : store[c].st = "done"
Whole(o) == \A c \in Children(o) : store[c].st # "absent"
Unbuilt == {"pending", "speccing", "decomposing", "failed", "cancelled", "tombstone"}
PlainStates == {"absent", "pending", "active", "done", "failed", "cancelled"}

\* A task is never reviewed; the label is on reviews of finished work only, and what
\* is accepted stays in such a review or at an end.
OrbInv(o) ==
    /\ store[o].st # "tombstone" /\ (store[o].st = "absent" => o \in Planned)
    /\ o \notin Phased => store[o].st \in PlainStates
    /\ store[o].label => o \in Phased /\ store[o].st = "review" /\ ChildrenDone(o)
    /\ o \in Phased =>
           /\ store[o].st # "failed" => history[o] = store[o].st
           /\ store[o].st \notin Unbuilt \/ history[o] \notin Unbuilt => Whole(o)
           /\ store[o].st = "done" => ChildrenDone(o)
           /\ store[o].st = "failed" /\ store[o].exec # NoWork => store[o].exec = history[o]
    /\ accepted[o] => store[o].st \in {"done", "failed"} \/ (o \in Phased /\ store[o].label)

\* The stages whose writes are still to come.
Left == [start |-> {"start", "ready", "waiting"}, ready |-> {"ready", "waiting"},
         roots |-> {"roots", "waiting"}, waiting |-> {"waiting"}]

ItemInv(r, i) ==
    /\ pc[r] \in Stages /\ i.stage \in Left[pc[r]]
    /\ ~i.from.label /\ ~accepted[i.orb]
    /\ i.orb \notin Phased =>
           /\ store[i.orb].st \in {"pending", "active"} /\ i.st \in {"active", "done", "error"}
           /\ i.stage \in {"ready", "roots"}
    /\ i.orb \in Phased =>
           /\ store[i.orb].st \in {"pending", "waiting", "executing_children", "executing", "done"}
           /\ store[i.orb].st = "done" => i.orb \notin FinalWork
           /\ i.st \in {"speccing", "executing", "executing_children", "reevaluating", "done"}
           /\ i.st = "speccing" <=> i.stage = "start"
           /\ i.st = "reevaluating" <=> i.stage = "waiting"
           /\ i.st = "done" => i.stage = "roots" /\ i.orb \notin FinalWork
           /\ i.stage # "start" => Whole(i.orb)
           /\ i.stage = "roots" => ChildrenDone(i.orb)

\* Two writes of one orb are planned only where the last stage works from the old list.
Distinct(i, j) ==
    i.orb = j.orb => i = j \/ (i.orb \in Phased /\ {i.stage, j.stage} = {"roots", "waiting"})

PlanInv == \A r \in Runners :
    (\A i \in plan[r] : ItemInv(r, i)) /\ (\A i, j \in plan[r] : Distinct(i, j))

\* While a task works, the store holds what the task was given.
WorkInv == \A r \in Runners, o \in Orbs :
    /\ attempt[r][o] \in {"working", "materializing"} => store[o] = copy[r][o]
    /\ attempt[r][o] = "materializing" => copy[r][o].st = "decomposing"
    /\ Executing(r, o) =>
           /\ o \in Phased => ChildrenDone(o)
           /\ o \notin Phased => Children(o) = {}
           /\ ExecutionDependenciesDone(store, o)

OrbsInv == \A o \in Orbs : OrbInv(o)
AloneInv == Alone /\ OrbsInv /\ PlanInv /\ WorkInv

LEMMA ChildFacts ==
    /\ \A o \in Phased : Children(o) # {} /\ Children(o) \subseteq Orbs
    /\ \A o \in Phased : \A c \in Children(o) : c \notin Phased /\ c \in Planned
    /\ \A o \in Orbs \ Phased : \A c \in Children(o) : c \in Orbs /\ c \notin Planned
    /\ Phased \subseteq Orbs /\ FinalWork \subseteq Phased /\ Planned \subseteq Orbs
  <1>1. \A o : \A c \in Children(o) : c \in Orbs /\ Parent[c] = o  BY DEF Children
  <1>2. QED  BY <1>1, QueueAssumption DEF QueueAssumption

LEMMA BaseFacts ==
    ASSUME Base
    PROVE  /\ store \in [Orbs -> Record] /\ history \in [Orbs -> States]
           /\ accepted \in [Orbs -> BOOLEAN]
           /\ plan \in [Runners -> SUBSET Item] /\ pc \in [Runners -> PcStates]
           /\ attempt \in [Runners -> [Orbs -> Attempts]] /\ copy \in [Runners -> [Orbs -> Record]]
           /\ \A o \in Orbs : store[o].exec # NoWork => store[o].st \in Terminal \cup {"tombstone"}
           /\ \A r \in Runners, o \in Orbs : attempt[r][o] # "none" =>
                 copy[r][o].st \in Targets /\ copy[r][o].exec = NoWork
           /\ \A r \in Runners : pc[r] # "join" => \A o \in Orbs : attempt[r][o] = "none"
  BY TargetsUnmarked
  DEF Base, ClaimsInv, MarkerInv, StoreOK, PlanOK, RunnersOK, TasksOK, FilesOK, AttemptType, PcType,
      TasksOnlyInJoin, NoStrandedMarker

\* Every child that there is shows, as nothing is deleted.
LEMMA EveryChildShows ==
    ASSUME OrbsInv, NEW o \in Orbs, o \in Phased => Whole(o)
    PROVE  VisibleChildren(store, o) = Children(o)
  <1>1. \A c \in Children(o) : c \in Orbs  BY DEF Children
  <1>2. \A c \in Children(o) : store[c].st # "tombstone"  BY <1>1 DEF OrbsInv, OrbInv
  <1>3. \A c \in Children(o) : store[c].st # "absent"
    BY <1>1, ChildFacts DEF OrbsInv, OrbInv, Whole
  <1>4. QED  BY <1>2, <1>3 DEF VisibleChildren, Visible, Hidden

\* The children of a phase orb that are Done stay so, and those that are there too.
Grows ==
    /\ \A c \in Orbs \ Phased : store[c].st = "done" => store'[c].st = "done"
    /\ \A c \in Orbs : store[c].st # "absent" => store'[c].st # "absent"

LEMMA GrowingKeeps ==
    ASSUME Grows, NEW o \in Phased
    PROVE  (ChildrenDone(o) => ChildrenDone(o)') /\ (Whole(o) => Whole(o)')
  BY ChildFacts DEF Grows, ChildrenDone, Whole

\* What a write must be for the invariant of its orb.
Sound(o, rec) ==
    /\ rec \in Record /\ rec.st \notin {"absent", "tombstone"}
    /\ o \notin Phased => rec.st \in PlainStates
    /\ rec.label => o \in Phased /\ rec.st = "review" /\ ChildrenDone(o)
    /\ o \in Phased =>
           /\ rec.st \notin Unbuilt => Whole(o)
           /\ rec.st = "done" => ChildrenDone(o)
           /\ rec.st = "failed" /\ rec.exec # NoWork => rec.exec = history[o]
    /\ store[o].st = "done" /\ o \notin Phased => rec.st = "done"

LEMMA PutPointwise ==
    ASSUME Base, NEW o \in Orbs, NEW rec, Put(o, rec)
    PROVE  /\ \A x \in Orbs : store'[x] = IF x = o THEN rec ELSE store[x]
           /\ \A x \in Orbs : history'[x] =
                 IF x = o /\ o \in Phased /\ rec.st # "failed" THEN rec.st ELSE history[x]
  BY BaseFacts DEF Put

LEMMA SoundGrows ==
    ASSUME Base, NEW o \in Orbs, NEW rec, Put(o, rec), Sound(o, rec)
    PROVE  Grows
  BY PutPointwise DEF Grows, Sound

LEMMA OrbStep ==
    ASSUME Base, OrbsInv, NEW o \in Orbs, NEW rec, Put(o, rec), Sound(o, rec),
           \A x \in Orbs : x # o => accepted'[x] = accepted[x],
           accepted'[o] => rec.st \in {"done", "failed"} \/ (o \in Phased /\ rec.label)
    PROVE  OrbsInv'
  <1>1. /\ \A x \in Orbs : store'[x] = IF x = o THEN rec ELSE store[x]
        /\ \A x \in Orbs : history'[x] =
              IF x = o /\ o \in Phased /\ rec.st # "failed" THEN rec.st ELSE history[x]
    BY PutPointwise
  <1>2. \A x \in Phased : (ChildrenDone(x) => ChildrenDone(x)') /\ (Whole(x) => Whole(x)')
    BY SoundGrows, GrowingKeeps
  <1>3. ASSUME NEW x \in Orbs, x # o  PROVE OrbInv(x)'
    <2>1. store'[x] = store[x] /\ history'[x] = history[x] /\ accepted'[x] = accepted[x]
      BY <1>1, <1>3
    <2>2. OrbInv(x)  BY DEF OrbsInv
    <2>3. QED  BY <1>2, <2>1, <2>2 DEF OrbInv
  <1>4. OrbInv(o)'
    <2>1. store'[o] = rec /\ history'[o] \in {rec.st, history[o]}
          /\ (o \in Phased /\ rec.st # "failed" => history'[o] = rec.st)
          /\ (rec.st = "failed" => history'[o] = history[o])
      BY <1>1
    <2>2. o \in Phased /\ history[o] \notin Unbuilt => Whole(o)  BY DEF OrbsInv, OrbInv
    <2>3. o \in Phased => (rec.st \notin Unbuilt \/ history'[o] \notin Unbuilt => Whole(o)')
      BY <1>2, <2>1, <2>2 DEF Sound
    <2>4. QED  BY <1>2, <2>1, <2>3 DEF OrbInv, Sound
  <1>5. QED  BY <1>3, <1>4 DEF OrbsInv
-----------------------------------------------------------------------------
(* The tick of a lone runner.                                               *)

LEMMA OrbsFrame == ASSUME OrbsInv, UNCHANGED <<store, history, accepted>> PROVE OrbsInv'
  BY DEF OrbsInv, OrbInv, ChildrenDone, Whole

LEMMA OneRunner == ASSUME Alone, NEW r \in Runners PROVE \A q \in Runners : q = r
  BY DEF Alone

LEMMA NoPlan ==
    ASSUME PlanInv, NEW r \in Runners, pc[r] \notin Stages  PROVE  plan[r] = {}
  BY DEF PlanInv, ItemInv

\* A plan no item of which lost its ground.
LEMMA PlanFrame ==
    ASSUME Base, PlanInv, Grows, UNCHANGED <<plan, pc>>,
           \A r \in Runners : \A i \in plan[r] :
               store'[i.orb] = store[i.orb] /\ accepted'[i.orb] = accepted[i.orb]
    PROVE  PlanInv'
  <1>1. \A x \in Phased : (ChildrenDone(x) => ChildrenDone(x)') /\ (Whole(x) => Whole(x)')
    BY GrowingKeeps
  <1>2. ASSUME NEW r \in Runners, NEW i \in plan[r]  PROVE ItemInv(r, i)'
    <2>1. ItemInv(r, i)  BY DEF PlanInv
    <2>2. QED  BY <1>1, <2>1 DEF ItemInv
  <1>3. QED  BY <1>2 DEF PlanInv, Distinct

LEMMA PlanStays ==
    ASSUME Base, PlanInv, UNCHANGED <<store, history, accepted, plan, pc>>  PROVE  PlanInv'
  <1>1. Grows  BY DEF Grows
  <1>2. QED  BY <1>1, PlanFrame

\* The plan of a lone runner is all there is.
LEMMA PlanOfOne ==
    ASSUME Alone, NEW r \in Runners,
           \A i \in plan'[r] : ItemInv(r, i)', \A i, j \in plan'[r] : Distinct(i, j)
    PROVE  PlanInv'
  BY OneRunner DEF PlanInv, Distinct

LEMMA ItemRecord ==
    ASSUME Base, PlanInv, NEW r \in Runners, NEW i \in plan[r], i.st # "error"
    PROVE  /\ i \in Item /\ i.orb \in Orbs /\ TickRecord(i) \in Record
           /\ TickRecord(i).st = i.st /\ TickRecord(i).exec = NoWork /\ ~TickRecord(i).label
  <1>1. i \in Item /\ i.from.exec = NoWork  BY DEF Base, MarkerInv, PlanOK
  <1>2. i.orb \in Orbs /\ i.from \in Record /\ i.st \in States  BY <1>1 DEF Item
  <1>3. ~i.from.label  BY DEF PlanInv, ItemInv
  <1>4. TickRecord(i) = [i.from EXCEPT !.st = i.st, !.exec = NoWork]
    BY <1>1, <1>2 DEF TickRecord, Record
  <1>5. QED  BY <1>1, <1>2, <1>3, <1>4 DEF Record

LEMMA TickWriteAlone ==
    ASSUME Base, AloneInv, NEW r \in Runners, NEW i \in plan[r], TickWrite(r, i)
    PROVE  OrbsInv' /\ PlanInv'
  <1> DEFINE o == i.orb  rec == TickRecord(i)
  <1>1. i.stage = pc[r] /\ i.st # "error" /\ Put(o, rec) /\ UNCHANGED <<pc, accepted>>
    BY DEF TickWrite
  <1>2. o \in Orbs /\ rec \in Record /\ rec.st = i.st /\ rec.exec = NoWork /\ ~rec.label
    BY <1>1, ItemRecord DEF AloneInv
  <1>3. ItemInv(r, i) /\ \A j \in plan[r] : ItemInv(r, j) /\ Distinct(i, j) /\ \A k \in plan[r] : Distinct(j, k)
    BY DEF AloneInv, PlanInv
  <1> HIDE DEF rec
  <1>4. Sound(o, rec)
    <2>1. CASE o \in Phased  BY <1>2, <1>3, <2>1 DEF ItemInv, Sound, Unbuilt
    <2>2. CASE o \notin Phased  BY <1>1, <1>2, <1>3, <2>2 DEF ItemInv, Sound, PlainStates
    <2>3. QED  BY <2>1, <2>2
  <1>5. OrbsInv'  BY <1>1, <1>2, <1>3, <1>4, OrbStep DEF AloneInv, ItemInv
  <1>6. \A x \in Orbs : store'[x] = IF x = o THEN rec ELSE store[x]  BY <1>1, <1>2, PutPointwise
  <1>7. \A x \in Phased : (ChildrenDone(x) => ChildrenDone(x)') /\ (Whole(x) => Whole(x)')
    BY <1>1, <1>2, <1>4, SoundGrows, GrowingKeeps
  <1>8. ASSUME NEW j \in plan[r], j # i  PROVE ItemInv(r, j)'
    <2>1. ItemInv(r, j) /\ Distinct(i, j)  BY <1>3
    <2>2. j.orb \in Orbs  BY BaseFacts DEF Item
    <2>3. CASE j.orb # o
      <3>1. store'[j.orb] = store[j.orb]  BY <1>6, <2>2, <2>3
      <3>2. QED  BY <1>1, <1>7, <2>1, <3>1 DEF ItemInv
    <2>4. CASE j.orb = o
      <3>1. o \in Phased /\ {i.stage, j.stage} = {"roots", "waiting"}
        BY <1>8, <2>1, <2>4 DEF Distinct
      <3>2. i.stage = "roots" /\ j.stage = "waiting"
        <4>1. i.stage = "waiting" => j.stage = "waiting"  BY <1>1, <2>1 DEF ItemInv, Left
        <4>2. QED  BY <3>1, <4>1
      <3>3. store'[o].st \in {"executing", "executing_children", "done"}
            /\ (store'[o].st = "done" => o \notin FinalWork)
        BY <1>2, <1>3, <1>6, <3>1, <3>2 DEF ItemInv
      <3>4. QED  BY <1>1, <1>7, <2>1, <2>4, <3>1, <3>3 DEF ItemInv
    <2>5. QED  BY <2>3, <2>4
  <1> DEFINE follow == [i EXCEPT !.st = AfterChildren(o)]
  <1>9. ASSUME i.stage = "roots", i.st = "executing_children"
        PROVE  ItemInv(r, follow)' /\ follow.stage = "roots" /\ follow.orb = o
    <2>1. i \in Item  BY <1>1, ItemRecord DEF AloneInv
    <2>2. follow.stage = "roots" /\ follow.orb = o /\ follow.from = i.from /\ follow.st = AfterChildren(o)
      BY <1>9, <2>1 DEF Item
    <2> HIDE DEF follow
    <2>3. o \in Phased  BY <1>3, <1>9 DEF ItemInv
    <2>4. store'[o].st = "executing_children"  BY <1>2, <1>6, <1>9
    <2>5. QED  BY <1>1, <1>3, <1>7, <1>9, <2>2, <2>3, <2>4 DEF ItemInv, AfterChildren
  <1>10. plan'[r] = (plan[r] \ {i}) \cup
            (IF i.stage = "roots" /\ i.st = "executing_children" THEN {follow} ELSE {})
    BY BaseFacts DEF TickWrite
  <1> HIDE DEF follow, o
  <1>11. \A j \in plan'[r] : ItemInv(r, j)'  BY <1>8, <1>9, <1>10
  <1>12. \A j \in plan[r] : j # i /\ i.stage = "roots" /\ i.st = "executing_children"
              => Distinct(follow, j) /\ Distinct(j, follow)
    BY <1>3, <1>9 DEF Distinct, o
  <1>13. \A j, k \in plan'[r] : Distinct(j, k)
    BY <1>3, <1>10, <1>12 DEF Distinct
  <1>14. QED  BY <1>5, <1>11, <1>13, PlanOfOne DEF AloneInv

\* What the first read of the store plans.
LEMMA FirstItems ==
    ASSUME Base, OrbsInv, NEW i \in StartPipelines(store) \cup ExecuteReady(store) \cup ReevaluateWaiting(store)
    PROVE  /\ i.orb \in Orbs /\ i.from = store[i.orb]
           /\ \/ /\ i.stage = "start" /\ i.st = "speccing" /\ i.orb \in Phased /\ store[i.orb].st = "pending"
              \/ /\ i.stage = "ready" /\ i.orb \in Phased \cap ReadySet(store) /\ store[i.orb].st = "waiting"
                 /\ i.st = IF VisibleChildren(store, i.orb) = {} THEN "executing" ELSE "executing_children"
              \/ /\ i.stage = "ready" /\ i.st = "active" /\ i.orb \notin Phased /\ store[i.orb].st = "pending"
              \/ /\ i.stage = "waiting" /\ i.st = "reevaluating" /\ i.orb \in Phased \cap WaitingSet(store)
                 /\ store[i.orb].st = "waiting"
           /\ i = [stage |-> i.stage, orb |-> i.orb, st |-> i.st, from |-> i.from]
  <1>1. Phased \subseteq Orbs  BY ChildFacts
  <1>2. CASE i \in StartPipelines(store)  BY <1>1, <1>2 DEF StartPipelines, Do
  <1>3. CASE i \in ExecuteReady(store)  BY <1>3 DEF ExecuteReady, Do, ReadySet
  <1>4. CASE i \in ReevaluateWaiting(store)  BY <1>4 DEF ReevaluateWaiting, Do, WaitingSet
  <1>5. QED  BY <1>2, <1>3, <1>4

LEMMA BeginTickAlone ==
    ASSUME Base, AloneInv, NEW r \in Runners, BeginTick(r)  PROVE  PlanInv'
  <1> DEFINE items == StartPipelines(store) \cup ExecuteReady(store) \cup ReevaluateWaiting(store)
  <1>1. plan'[r] = items /\ pc'[r] = "start" /\ UNCHANGED <<store, history, accepted>>
    BY BaseFacts DEF BeginTick, KeepStore
  <1> HIDE DEF items
  <1>2. ASSUME NEW i \in items  PROVE ItemInv(r, i)'
    <2>1. OrbInv(i.orb) /\ i.orb \in Orbs  BY <1>2, FirstItems DEF AloneInv, OrbsInv, items
    <2>2. store[i.orb].st \in {"pending", "waiting"} => ~accepted[i.orb] /\ ~store[i.orb].label
      BY <2>1 DEF OrbInv
    <2>3. i.orb \in Phased /\ store[i.orb].st = "waiting" => Whole(i.orb)
      BY <2>1 DEF OrbInv, Unbuilt
    <2>4. "start" \in Stages /\ Left["start"] = {"start", "ready", "waiting"}  BY DEF Stages, Left
    <2>5. /\ i.from = store[i.orb] /\ store[i.orb].st \in {"pending", "waiting"}
          /\ i.stage \in {"start", "ready", "waiting"}
      BY <1>2, FirstItems DEF AloneInv, items
    <2>6. CASE i.orb \notin Phased
      <3>1. i.stage = "ready" /\ i.st = "active" /\ store[i.orb].st = "pending"
        BY <1>2, <2>6, FirstItems DEF AloneInv, items
      <3>2. QED  BY <1>1, <2>2, <2>4, <2>5, <2>6, <3>1 DEF ItemInv
    <2>7. CASE i.orb \in Phased
      <3>1. \/ i.stage = "start" /\ i.st = "speccing"
            \/ i.stage = "ready" /\ i.st \in {"executing", "executing_children"} /\ store[i.orb].st = "waiting"
            \/ i.stage = "waiting" /\ i.st = "reevaluating" /\ store[i.orb].st = "waiting"
        BY <1>2, <2>7, FirstItems DEF AloneInv, items
      <3>2. Whole(i.orb)' <=> Whole(i.orb)  BY <1>1 DEF Whole
      <3>3. QED  BY <1>1, <2>2, <2>3, <2>4, <2>5, <2>7, <3>1, <3>2 DEF ItemInv
    <2>8. QED  BY <2>6, <2>7
  <1>3. ASSUME NEW i \in items, NEW j \in items, i.orb = j.orb  PROVE i = j
    <2>1. ~(i.orb \in ReadySet(store) /\ i.orb \in WaitingSet(store))  BY DEF ReadySet, WaitingSet
    <2>2. i.stage = j.stage /\ i.st = j.st /\ i.from = j.from
      BY <1>3, <2>1, FirstItems DEF AloneInv, items
    <2>3. QED  BY <1>3, <2>2, FirstItems DEF AloneInv, items
  <1>4. \A i, j \in items : Distinct(i, j)  BY <1>3 DEF Distinct
  <1>5. QED  BY <1>1, <1>2, <1>4, PlanOfOne DEF AloneInv

\* What the second read plans: one write for each parent whose children are all Done.
LEMMA RootItems ==
    ASSUME Base, OrbsInv, NEW i \in CompleteRoots(store)
    PROVE  /\ i.orb \in Orbs /\ i.from = store[i.orb] /\ i.stage = "roots"
           /\ i.orb \in Phased =>
                 /\ store[i.orb].st \in {"waiting", "executing_children"} /\ ChildrenDone(i.orb)
                 /\ i.st = IF store[i.orb].st = "waiting" THEN "executing_children" ELSE AfterChildren(i.orb)
           /\ i.orb \notin Phased =>
                 /\ store[i.orb].st \in {"pending", "active"}
                 /\ i.st = IF store[i.orb].st \in {"active", "review"} THEN "done" ELSE "error"
           /\ i = [stage |-> i.stage, orb |-> i.orb, st |-> i.st, from |-> i.from]
  <1>1. /\ i.orb \in RootsDone(store) /\ i.from = store[i.orb] /\ i.stage = "roots"
        /\ i = [stage |-> i.stage, orb |-> i.orb, st |-> i.st, from |-> i.from]
        /\ i.orb \in Phased =>
              /\ store[i.orb].st \in {"waiting", "executing_children"}
              /\ i.st = IF store[i.orb].st = "waiting" THEN "executing_children" ELSE AfterChildren(i.orb)
        /\ i.orb \notin Phased =>
              i.st = IF store[i.orb].st \in {"active", "review"} THEN "done" ELSE "error"
    BY DEF CompleteRoots, Do
  <1>2. i.orb \in Orbs /\ Open(store, i.orb) /\ AllChildrenDone(store, i.orb)
    BY <1>1 DEF RootsDone
  <1>3. OrbInv(i.orb)  BY <1>2 DEF OrbsInv
  <1>4. ASSUME i.orb \in Phased  PROVE ChildrenDone(i.orb)
    <2>1. Whole(i.orb)  BY <1>1, <1>3, <1>4 DEF OrbInv, Unbuilt
    <2>2. VisibleChildren(store, i.orb) = Children(i.orb)  BY <1>2, <2>1, EveryChildShows
    <2>3. QED  BY <1>2, <2>2 DEF AllChildrenDone, ChildrenDone
  <1>5. i.orb \notin Phased => store[i.orb].st \in {"pending", "active"}
    BY <1>2, <1>3 DEF OrbInv, PlainStates, Open, Visible, Hidden, Terminal
  <1>6. QED  BY <1>1, <1>2, <1>4, <1>5

LEMMA NextStageAlone ==
    ASSUME Base, AloneInv, NEW r \in Runners, NextStage(r)  PROVE  PlanInv'
  <1> DEFINE items == IF pc[r] = "ready" THEN CompleteRoots(store) ELSE {}
  <1>1. /\ pc[r] \in Stages /\ pc'[r] = StageAfter[pc[r]] /\ plan'[r] = plan[r] \cup items
        /\ (\A i \in plan[r] : i.stage # pc[r]) /\ UNCHANGED <<store, history, accepted>>
    BY BaseFacts DEF NextStage, KeepStore
  <1>2. \A i \in plan[r] : ItemInv(r, i) /\ \A j \in plan[r] : Distinct(i, j)
    BY DEF AloneInv, PlanInv
  <1>3. \A x : (ChildrenDone(x)' <=> ChildrenDone(x)) /\ (Whole(x)' <=> Whole(x))
    BY <1>1 DEF ChildrenDone, Whole
  <1>4. ASSUME NEW i \in plan[r]  PROVE ItemInv(r, i)' /\ (pc[r] = "ready" => i.stage = "waiting")
    <2>1. i.stage \in Left[pc[r]] /\ i.stage # pc[r] /\ ItemInv(r, i)  BY <1>1, <1>2 DEF ItemInv
    <2>2. pc'[r] \in Stages /\ i.stage \in Left[pc'[r]] /\ (pc[r] = "ready" => i.stage = "waiting")
      <3>1. CASE pc[r] = "start"  BY <1>1, <2>1, <3>1 DEF Left, StageAfter, Stages
      <3>2. CASE pc[r] = "ready"  BY <1>1, <2>1, <3>2 DEF Left, StageAfter, Stages
      <3>3. CASE pc[r] = "roots"  BY <1>1, <2>1, <3>3 DEF Left, StageAfter, Stages
      <3>4. CASE pc[r] = "waiting"  BY <1>1, <2>1, <3>4 DEF Left, StageAfter, Stages
      <3>5. QED  BY <1>1, <3>1, <3>2, <3>3, <3>4 DEF Stages
    <2>3. QED  BY <1>1, <1>3, <2>1, <2>2 DEF ItemInv
  <1>5. ASSUME NEW i \in items  PROVE ItemInv(r, i)' /\ i.stage = "roots" /\ pc[r] = "ready"
    <2>1. pc[r] = "ready" /\ i \in CompleteRoots(store)  BY <1>5
    <2> HIDE DEF items
    <2>2. /\ i.orb \in Orbs /\ i.from = store[i.orb] /\ i.stage = "roots"
          /\ i.orb \in Phased =>
                /\ store[i.orb].st \in {"waiting", "executing_children"} /\ ChildrenDone(i.orb)
                /\ i.st = IF store[i.orb].st = "waiting" THEN "executing_children" ELSE AfterChildren(i.orb)
          /\ i.orb \notin Phased =>
                /\ store[i.orb].st \in {"pending", "active"}
                /\ i.st = IF store[i.orb].st \in {"active", "review"} THEN "done" ELSE "error"
      BY <2>1, RootItems DEF AloneInv
    <2>3. OrbInv(i.orb)  BY <2>2 DEF AloneInv, OrbsInv
    <2>4. ~accepted[i.orb] /\ ~i.from.label  BY <2>2, <2>3 DEF OrbInv
    <2>5. i.orb \in Phased => Whole(i.orb)  BY <2>2, <2>3 DEF OrbInv, Unbuilt
    <2>6. pc'[r] = "roots" /\ pc'[r] \in Stages /\ i.stage \in Left[pc'[r]]
      BY <1>1, <2>1, <2>2 DEF StageAfter, Stages, Left
    <2>7. CASE i.orb \in Phased
      BY <1>1, <1>3, <2>1, <2>2, <2>4, <2>5, <2>6, <2>7 DEF ItemInv, AfterChildren
    <2>8. CASE i.orb \notin Phased
      BY <1>1, <2>1, <2>2, <2>4, <2>6, <2>8 DEF ItemInv
    <2>9. QED  BY <2>1, <2>2, <2>7, <2>8
  <1>6. ASSUME NEW i \in items, NEW j \in items, i.orb = j.orb  PROVE i = j
    <2>1. i \in CompleteRoots(store) /\ j \in CompleteRoots(store)  BY <1>6
    <2>2. i.stage = j.stage /\ i.st = j.st /\ i.from = j.from
      BY <1>6, <2>1, RootItems DEF AloneInv
    <2>3. QED  BY <1>6, <2>1, <2>2, RootItems DEF AloneInv
  <1>7. \A i \in plan[r] : \A j \in items : Distinct(i, j) /\ Distinct(j, i)
    <2> SUFFICES ASSUME NEW i \in plan[r], NEW j \in items PROVE Distinct(i, j) /\ Distinct(j, i)
      OBVIOUS
    <2>1. i.stage = "waiting" /\ j.stage = "roots"  BY <1>4, <1>5
    <2>2. i.orb \in Phased  BY <1>2, <2>1 DEF ItemInv
    <2>3. QED  BY <2>1, <2>2 DEF Distinct
  <1> HIDE DEF items
  <1>8. \A i, j \in plan'[r] : Distinct(i, j)  BY <1>1, <1>2, <1>6, <1>7 DEF Distinct
  <1>9. QED  BY <1>1, <1>4, <1>5, <1>8, PlanOfOne DEF AloneInv
-----------------------------------------------------------------------------
(* What the tasks rely on, however many runners there are: every step but the *)
(* write of a tick keeps it, as long as no status is edited and no orb deleted. *)

AtWork == {"working", "materializing"}

\* What is Done stays Done, and a task that goes on has its record undisturbed.
LEMMA WorkGoesOn ==
    ASSUME Base, WorkInv,
           \A d \in Orbs : store[d].st = "done" => store'[d].st = "done",
           \A q \in Runners, x \in Orbs : attempt'[q][x] \in AtWork =>
               /\ attempt[q][x] \in AtWork
               /\ attempt'[q][x] = "working" => attempt[q][x] = "working"
               /\ attempt'[q][x] = "materializing" => copy[q][x].st = "decomposing"
               /\ copy'[q][x] = copy[q][x] /\ store'[x] = store[x]
    PROVE  WorkInv'
  <1>1. SUFFICES ASSUME NEW r \in Runners, NEW o \in Orbs, attempt'[r][o] \in AtWork
                 PROVE  /\ store'[o] = copy'[r][o]
                        /\ attempt'[r][o] = "materializing" => copy'[r][o].st = "decomposing"
                        /\ Executing(r, o)' =>
                              /\ o \in Phased => ChildrenDone(o)'
                              /\ o \notin Phased => Children(o) = {}
                              /\ ExecutionDependenciesDone(store', o)
    BY DEF WorkInv, AtWork, Executing
  <1>2. store'[o] = copy'[r][o] /\ (attempt'[r][o] = "materializing" => copy'[r][o].st = "decomposing")
    BY <1>1 DEF WorkInv, AtWork
  <1>3. Executing(r, o)' => Executing(r, o)  BY <1>1 DEF Executing
  <1>4. o \in Phased /\ ChildrenDone(o) => ChildrenDone(o)'  BY ChildFacts DEF ChildrenDone
  <1>5. ExecutionDependenciesDone(store, o) => ExecutionDependenciesDone(store', o)
    BY DEF ExecutionDependenciesDone, Blockers
  <1>6. QED  BY <1>2, <1>3, <1>4, <1>5 DEF WorkInv

\* A step that writes no record and puts nothing to work.
LEMMA CalmStep ==
    ASSUME Base, OrbsInv, WorkInv, UNCHANGED <<store, history, accepted>>,
           \A q \in Runners, x \in Orbs : attempt'[q][x] \in AtWork =>
               attempt'[q][x] = attempt[q][x] /\ copy'[q][x] = copy[q][x]
    PROVE  OrbsInv' /\ WorkInv' /\ Grows
  <1>1. OrbsInv'  BY OrbsFrame
  <1>2. \A q \in Runners, x \in Orbs : attempt[q][x] = "materializing" => copy[q][x].st = "decomposing"
    BY DEF WorkInv
  <1>3. WorkInv'  BY <1>2, WorkGoesOn
  <1>4. QED  BY <1>1, <1>3 DEF Grows

\* A write of an orb no task goes on with.
LEMMA WriteStep ==
    ASSUME Base, OrbsInv, WorkInv, NEW o \in Orbs, NEW rec, Put(o, rec), Sound(o, rec),
           store[o].st # "done",
           \A q \in Runners, x \in Orbs : attempt'[q][x] \in AtWork =>
               /\ attempt[q][x] \in AtWork /\ x # o
               /\ attempt'[q][x] = "working" => attempt[q][x] = "working"
               /\ attempt'[q][x] = "materializing" => copy[q][x].st = "decomposing"
               /\ copy'[q][x] = copy[q][x],
           \A x \in Orbs : x # o => accepted'[x] = accepted[x],
           accepted'[o] => rec.st \in {"done", "failed"} \/ (o \in Phased /\ rec.label)
    PROVE  OrbsInv' /\ WorkInv' /\ Grows
  <1>1. OrbsInv'  BY OrbStep
  <1>2. \A x \in Orbs : store'[x] = IF x = o THEN rec ELSE store[x]  BY PutPointwise
  <1>3. WorkInv'  BY <1>2, WorkGoesOn
  <1>4. QED  BY <1>1, <1>3, SoundGrows

\* One task's step, with what BaseFacts says of it.
LEMMA AtStep ==
    ASSUME Base, NEW r \in Runners, NEW o \in Orbs, NEW a \in Attempts, At(r, o, a)
    PROVE  \A q \in Runners, x \in Orbs :
              attempt'[q][x] = IF q = r /\ x = o THEN a ELSE attempt[q][x]
  BY AtPointwise DEF Base, ClaimsInv

LEMMA LeaveStep ==
    ASSUME Base, NEW r \in Runners, NEW o \in Orbs, Leave(r, o)
    PROVE  \A q \in Runners, x \in Orbs : attempt'[q][x] \in AtWork =>
              attempt'[q][x] = attempt[q][x] /\ copy'[q][x] = copy[q][x]
  <1>1. \A q \in Runners, x \in Orbs :
           attempt'[q][x] = IF q = r /\ x = o THEN "none" ELSE attempt[q][x]
    BY AtStep, AttemptNames DEF Leave
  <1>2. \A q \in Runners, x \in Orbs : ~(q = r /\ x = o) => copy'[q][x] = copy[q][x]
    BY BaseFacts DEF Leave
  <1>3. QED  BY <1>1, <1>2 DEF AtWork

LEMMA DropStep ==
    ASSUME Base, NEW r \in Runners, DropTasks(r)
    PROVE  \A q \in Runners, x \in Orbs : attempt'[q][x] \in AtWork =>
              attempt'[q][x] = attempt[q][x] /\ copy'[q][x] = copy[q][x]
  <1>1. \A q \in Runners, x \in Orbs :
           attempt'[q][x] = IF q = r THEN "none" ELSE attempt[q][x]
    BY DropPointwise DEF Base, ClaimsInv
  <1>2. \A q \in Runners, x \in Orbs : q # r => copy'[q][x] = copy[q][x]
    BY BaseFacts DEF DropTasks
  <1>3. QED  BY <1>1, <1>2 DEF AtWork

LEMMA OneAtWork ==
    ASSUME Base, NEW o \in Orbs, NEW r \in Runners, attempt[r][o] \in AtWork
    PROVE  \A q \in Runners : attempt[q][o] \in AtWork => q = r
  BY DEF Base, ClaimsInv, ClaimsExclusive, OneEpisodePerOrb, Holds, Holding, AtWork

\* What the task that works on an orb knows of it.
LEMMA TaskFacts ==
    ASSUME Base, OrbsInv, WorkInv, NEW r \in Runners, NEW o \in Orbs, attempt[r][o] \in AtWork
    PROVE  /\ store[o] = copy[r][o] /\ store[o] \in Record /\ store[o].st \in Targets
           /\ store[o].exec = NoWork /\ ~store[o].label /\ ~accepted[o]
           /\ o \notin Phased => store[o].st = "active"
           /\ o \in Phased => history[o] = store[o].st
           /\ store[o].st = "executing" => o \in Phased
           /\ attempt[r][o] = "materializing" => store[o].st = "decomposing"
  <1>1. store[o] = copy[r][o] /\ (attempt[r][o] = "materializing" => copy[r][o].st = "decomposing")
    BY DEF WorkInv, AtWork
  <1>2. copy[r][o].st \in Targets /\ copy[r][o].exec = NoWork /\ store[o] \in Record
    BY BaseFacts DEF AtWork
  <1>3. OrbInv(o)  BY DEF OrbsInv
  <1>4. QED  BY <1>1, <1>2, <1>3 DEF OrbInv, Targets, WorkPhases, PlainStates

LEMMA FinishedKeepsTasks ==
    ASSUME Base, OrbsInv, WorkInv, NEW r \in Runners, NEW o \in Orbs, attempt[r][o] \in AtWork,
           NEW st, Finished(r, o, st),
           \/ st \in NextOnSuccess(copy[r][o].st) /\ (o \in Phased /\ copy[r][o].st = "decomposing" => Whole(o))
           \/ attempt[r][o] = "working" /\ st \in NextOnSetback(copy[r][o].st)
    PROVE  OrbsInv' /\ WorkInv' /\ Grows
  <1> DEFINE rec == After(copy[r][o], st)
  <1>1. /\ store[o] = copy[r][o] /\ store[o] \in Record /\ store[o].st \in Targets
        /\ store[o].exec = NoWork /\ ~store[o].label /\ ~accepted[o]
        /\ o \notin Phased => store[o].st = "active"
        /\ o \in Phased => history[o] = store[o].st
        /\ store[o].st = "executing" => o \in Phased
        /\ attempt[r][o] = "materializing" => store[o].st = "decomposing"
    BY TaskFacts
  <1>2. /\ rec \in Record /\ rec.st = st
        /\ rec.exec = IF st \in Terminal THEN store[o].st ELSE NoWork
        /\ rec.label <=> (st = "review" /\ store[o].st = "executing")
    <2>1. rec \in Record  BY <1>1, OutcomesTyped DEF Writable
    <2>2. QED  BY <1>1, <2>1 DEF After
  <1>3. /\ Put(o, rec) /\ At(r, o, "written") /\ UNCHANGED copy
        /\ accepted' = IF copy[r][o].st \in Executes /\ st \in {"done", "review"}
                       THEN [accepted EXCEPT ![o] = TRUE] ELSE accepted
    BY DEF Finished
  <1> HIDE DEF rec
  <1>4. st \in {"decomposing", "refining", "review", "waiting", "executing", "done", "failed", "cancelled"}
    BY <1>1 DEF NextOnSuccess, NextOnSetback, Targets, WorkPhases
  <1>5. /\ st = "done" => store[o].st \in Executes
        /\ st = "review" => store[o].st \in {"refining", "executing"}
        /\ st \in {"waiting", "executing"} => store[o].st \in {"refining", "reevaluating"}
        /\ st = "refining" => store[o].st \in {"refining", "reevaluating"}
               \/ (store[o].st = "decomposing" /\ (o \in Phased => Whole(o)))
        /\ store[o].st = "active" => st \in {"done", "failed", "cancelled"}
    BY <1>1 DEF NextOnSuccess, NextOnSetback, Targets, WorkPhases, Executes
  <1>6. store[o].st \in Executes /\ st \in {"done", "review"} /\ o \in Phased => ChildrenDone(o)
    <2>1. store[o].st \in Executes => attempt[r][o] = "working"  BY <1>1 DEF AtWork, Executes
    <2>2. store[o].st \in Executes => Executing(r, o)  BY <1>1, <2>1 DEF Executing
    <2>3. QED  BY <2>2 DEF WorkInv
  <1>7. o \in Phased /\ st \notin Unbuilt => Whole(o)
    <2>1. o \in Phased /\ store[o].st \notin Unbuilt => Whole(o)
      BY DEF OrbsInv, OrbInv
    <2>2. QED  BY <1>1, <1>4, <1>5, <2>1 DEF Unbuilt, Executes
  <1>8. Sound(o, rec)
    BY <1>1, <1>2, <1>4, <1>5, <1>6, <1>7 DEF Sound, PlainStates, Targets, WorkPhases, Executes, Terminal
  <1>9. accepted'[o] => rec.st \in {"done", "failed"} \/ (o \in Phased /\ rec.label)
    BY <1>1, <1>2, <1>3, <1>5 DEF Executes
  <1>10. \A x \in Orbs : x # o => accepted'[x] = accepted[x]  BY <1>3
  <1>11. \A q \in Runners, x \in Orbs :
            attempt'[q][x] = IF q = r /\ x = o THEN "written" ELSE attempt[q][x]
    BY <1>3, AtStep, AttemptNames DEF Holding
  <1>12. \A q \in Runners : attempt[q][o] \in AtWork => q = r  BY OneAtWork
  <1>13. \A q \in Runners, x \in Orbs : attempt[q][x] = "materializing" => copy[q][x].st = "decomposing"
    BY DEF WorkInv
  <1>14. store[o].st # "done"  BY <1>1 DEF Targets, WorkPhases
  <1>15. \A q \in Runners, x \in Orbs : attempt'[q][x] \in AtWork =>
               /\ attempt[q][x] \in AtWork /\ x # o
               /\ attempt'[q][x] = "working" => attempt[q][x] = "working"
               /\ attempt'[q][x] = "materializing" => copy[q][x].st = "decomposing"
               /\ copy'[q][x] = copy[q][x]
    BY <1>3, <1>11, <1>12, <1>13 DEF AtWork
  <1>16. Put(o, rec)  BY <1>3
  <1>17. QED  BY <1>8, <1>9, <1>10, <1>14, <1>15, <1>16, WriteStep

LEMMA AdmitKeepsTasks ==
    ASSUME Base, OrbsInv, WorkInv, NEW r \in Runners, NEW o \in Orbs, Admit(r, o)
    PROVE  OrbsInv' /\ WorkInv' /\ Grows
  <1>1. /\ attempt[r][o] = "claimed" /\ Eligible(store, o, copy[r][o].st) /\ At(r, o, "working")
        /\ copy' = [copy EXCEPT ![r][o] = store[o]]
        /\ UNCHANGED <<store, history, accepted>>
    BY DEF Admit, KeepStore
  <1>2. OrbsInv' /\ Grows  BY <1>1, OrbsFrame DEF Grows
  <1>3. \A q \in Runners, x \in Orbs :
            attempt'[q][x] = IF q = r /\ x = o THEN "working" ELSE attempt[q][x]
    BY <1>1, AtStep, AttemptNames DEF Holding
  <1>4. \A q \in Runners, x \in Orbs :
            copy'[q][x] = IF q = r /\ x = o THEN store[o] ELSE copy[q][x]
    BY <1>1, BaseFacts
  <1>5. ASSUME NEW q \in Runners, NEW x \in Orbs, ~(q = r /\ x = o)
        PROVE  /\ attempt'[q][x] \in {"working", "materializing"} => store'[x] = copy'[q][x]
               /\ attempt'[q][x] = "materializing" => copy'[q][x].st = "decomposing"
               /\ Executing(q, x)' =>
                      /\ x \in Phased => ChildrenDone(x)'
                      /\ x \notin Phased => Children(x) = {}
                      /\ ExecutionDependenciesDone(store', x)
    <2>1. attempt'[q][x] = attempt[q][x] /\ copy'[q][x] = copy[q][x] /\ store' = store
      BY <1>1, <1>3, <1>4, <1>5
    <2>2. ChildrenDone(x)' <=> ChildrenDone(x)  BY <2>1 DEF ChildrenDone
    <2>3. Executing(q, x)' => Executing(q, x)  BY <2>1 DEF Executing
    <2>4. QED  BY <2>1, <2>2, <2>3 DEF WorkInv
  <1>6. /\ attempt'[r][o] = "working" /\ store'[o] = copy'[r][o]
        /\ Executing(r, o)' =>
              /\ o \in Phased => ChildrenDone(o)'
              /\ o \notin Phased => Children(o) = {}
              /\ ExecutionDependenciesDone(store', o)
    <2>1. attempt'[r][o] = "working" /\ copy'[r][o] = store[o] /\ store' = store
      BY <1>1, <1>3, <1>4
    <2>2. HasTarget(store, o) /\ store[o].st = copy[r][o].st  BY <1>1 DEF Eligible
    <2>3. SUFFICES ASSUME store[o].st \in Executes
                   PROVE  /\ o \in Phased => ChildrenDone(o)'
                          /\ o \notin Phased => Children(o) = {}
                          /\ ExecutionDependenciesDone(store', o)
      BY <2>1 DEF Executing
    <2>4. ExecutionDependenciesDone(store, o) /\ ParentExecutionReady(store, o)
      BY <1>1, <2>2, <2>3 DEF Eligible
    <2>5. OrbInv(o)  BY DEF OrbsInv
    <2>6. o \in Phased => Whole(o)
      BY <2>2, <2>3, <2>5 DEF OrbInv, Unbuilt, Executes
    <2>7. VisibleChildren(store, o) = Children(o)  BY <2>6, EveryChildShows
    <2>8. o \in Phased => ChildrenDone(o)
      BY <2>4, <2>7, ChildFacts DEF ParentExecutionReady, AllChildrenDone, ChildrenDone
    <2>9. o \notin Phased => Children(o) = {}
      BY <2>4, <2>7, ChildFacts DEF ParentExecutionReady
    <2>10. ChildrenDone(o)' <=> ChildrenDone(o)  BY <2>1 DEF ChildrenDone
    <2>11. QED  BY <2>1, <2>4, <2>8, <2>9, <2>10
  <1>7. WorkInv'
    <2>1. SUFFICES ASSUME NEW q \in Runners, NEW x \in Orbs
          PROVE  /\ attempt'[q][x] \in {"working", "materializing"} => store'[x] = copy'[q][x]
                 /\ attempt'[q][x] = "materializing" => copy'[q][x].st = "decomposing"
                 /\ Executing(q, x)' =>
                        /\ x \in Phased => ChildrenDone(x)'
                        /\ x \notin Phased => Children(x) = {}
                        /\ ExecutionDependenciesDone(store', x)
      BY DEF WorkInv
    <2>2. CASE q = r /\ x = o  BY <1>6, <2>2
    <2>3. CASE ~(q = r /\ x = o)  BY <1>5, <2>3
    <2>4. QED  BY <2>2, <2>3
  <1>8. QED  BY <1>2, <1>7

LEMMA MaterializeKeepsTasks ==
    ASSUME Base, OrbsInv, WorkInv, Edits = {}, NEW r \in Runners, NEW o \in Orbs, Materialize(r, o)
    PROVE  OrbsInv' /\ WorkInv' /\ Grows
  <1>1. PICK c \in Orbs \ Phased : Put(c, Fresh("pending")) /\ store[c].st = "absent"
    BY AppendedChild DEF Base
  <1>2. UNCHANGED <<attempt, copy, accepted>>
    BY DEF Materialize
  <1>3. Sound(c, Fresh("pending"))
    <2>1. Fresh("pending") \in Record  BY FreshIsRecord DEF States, TaskStates
    <2>2. QED  BY <1>1, <2>1 DEF Sound, Fresh, PlainStates
  <1>4. ~accepted[c]  BY <1>1 DEF OrbsInv, OrbInv
  <1>5. \A q \in Runners, x \in Orbs : attempt[q][x] \in AtWork => x # c
    BY <1>1, TaskFacts DEF Targets, WorkPhases
  <1>6. \A q \in Runners, x \in Orbs : attempt[q][x] = "materializing" => copy[q][x].st = "decomposing"
    BY DEF WorkInv
  <1>7. \A q \in Runners, x \in Orbs : attempt'[q][x] \in AtWork =>
               /\ attempt[q][x] \in AtWork /\ x # c
               /\ attempt'[q][x] = "working" => attempt[q][x] = "working"
               /\ attempt'[q][x] = "materializing" => copy[q][x].st = "decomposing"
               /\ copy'[q][x] = copy[q][x]
    BY <1>2, <1>5, <1>6
  <1>8. ~accepted'[c] /\ \A x \in Orbs : accepted'[x] = accepted[x]  BY <1>2, <1>4
  <1>9. store[c].st # "done"  BY <1>1
  <1>10. QED  BY <1>1, <1>3, <1>7, <1>8, <1>9, WriteStep

\* Reading the children changes nothing but the task's own list of them.
LEMMA ReadingIsCalm ==
    ASSUME Base, OrbsInv, WorkInv, NEW r \in Runners, NEW o \in Orbs, ReadChildren(r, o)
    PROVE  OrbsInv' /\ WorkInv' /\ Grows
  <1>1. /\ attempt[r][o] = "working" /\ copy[r][o].st = "decomposing" /\ At(r, o, "materializing")
        /\ UNCHANGED <<store, history, copy, accepted>>
    BY DEF ReadChildren, KeepStore
  <1>2. OrbsInv' /\ Grows  BY <1>1, OrbsFrame DEF Grows
  <1>3. \A q \in Runners, x \in Orbs :
            attempt'[q][x] = IF q = r /\ x = o THEN "materializing" ELSE attempt[q][x]
    BY <1>1, AtStep, AttemptNames DEF Holding
  <1>4. \A q \in Runners, x \in Orbs : attempt[q][x] = "materializing" => copy[q][x].st = "decomposing"
    BY DEF WorkInv
  <1>5. WorkInv'  BY <1>1, <1>3, <1>4, WorkGoesOn DEF AtWork
  <1>6. QED  BY <1>2, <1>5

\* A decomposition that ends has appended every child it found missing.
LEMMA DecomposedIsWhole ==
    ASSUME Base, NEW r \in Runners, NEW o \in Phased, Succeed(r, o), copy[r][o].st = "decomposing"
    PROVE  Whole(o)
  <1>1. attempt[r][o] = "materializing" /\ todo[r] \cap Children(o) = {}  BY DEF Succeed
  <1>2. o \in Orbs /\ Children(o) \subseteq Planned  BY ChildFacts
  <1>3. QED  BY <1>1, <1>2 DEF Base, TodoInv, ChildrenListed, Pending, Whole

\* Aborted before its worker was spawned, a task stores the record as it was.
LEMMA AbortedIsCalm ==
    ASSUME Base, OrbsInv, WorkInv, NEW r \in Runners, NEW o \in Orbs, SpawnAborts(r, o)
    PROVE  OrbsInv' /\ WorkInv' /\ Grows
  <1>1. /\ attempt[r][o] = "working" /\ Put(o, copy[r][o]) /\ At(r, o, "written")
        /\ UNCHANGED <<copy, accepted>>
    BY DEF SpawnAborts
  <1>2. store[o] = copy[r][o] /\ (o \in Phased => history[o] = store[o].st)
    BY <1>1, TaskFacts DEF AtWork
  <1>3. store' = store /\ history' = history
    BY <1>1, <1>2, BaseFacts DEF Put
  <1>4. \A q \in Runners, x \in Orbs :
            attempt'[q][x] = IF q = r /\ x = o THEN "written" ELSE attempt[q][x]
    BY <1>1, AtStep, AttemptNames DEF Holding
  <1>5. QED  BY <1>1, <1>3, <1>4, CalmStep DEF AtWork

LEMMA DispatchKeepsTasks ==
    ASSUME Base, OrbsInv, WorkInv, Edits = {}, NEW r \in Runners, Dispatch(r)
    PROVE  OrbsInv' /\ WorkInv' /\ Grows
  <1>1. CASE BeginDispatch(r)
    <2>1. UNCHANGED <<store, history, accepted>>  BY <1>1 DEF BeginDispatch, KeepStore
    <2>2. \A q \in Runners, x \in Orbs : attempt'[q][x] \in AtWork => q # r
      BY <1>1, BaseFacts DEF BeginDispatch, AtWork
    <2>3. \A q \in Runners, x \in Orbs : q # r =>
              attempt'[q][x] = attempt[q][x] /\ copy'[q][x] = copy[q][x]
      BY <1>1, BaseFacts DEF BeginDispatch
    <2>4. QED  BY <2>1, <2>2, <2>3, CalmStep
  <1>2. CASE Joined(r)  BY <1>2, CalmStep DEF Joined, KeepStore, dispatchVars
  <1>3. ASSUME NEW o \in Orbs, Abandon(r, o) \/ Acquire(r, o) \/ Refuse(r, o) \/ Release(r, o)
        PROVE  OrbsInv' /\ WorkInv' /\ Grows
    <2>1. /\ UNCHANGED <<store, history, accepted>>
          /\ Leave(r, o) \/ (At(r, o, "claimed") /\ UNCHANGED copy)
      BY <1>3 DEF Abandon, Acquire, Refuse, Release, KeepStore
    <2>2. CASE Leave(r, o)  BY <2>1, <2>2, LeaveStep, CalmStep
    <2>3. CASE At(r, o, "claimed") /\ UNCHANGED copy
      <3>1. \A q \in Runners, x \in Orbs :
                attempt'[q][x] = IF q = r /\ x = o THEN "claimed" ELSE attempt[q][x]
        BY <2>3, AtStep, AttemptNames DEF Holding
      <3>2. QED  BY <2>1, <2>3, <3>1, CalmStep DEF AtWork
    <2>4. QED  BY <2>1, <2>2, <2>3
  <1>4. ASSUME NEW o \in Orbs, Admit(r, o) \/ ReadChildren(r, o) \/ Materialize(r, o)
        PROVE  OrbsInv' /\ WorkInv' /\ Grows
    BY <1>4, AdmitKeepsTasks, ReadingIsCalm, MaterializeKeepsTasks
  <1>5. ASSUME NEW o \in Orbs, Succeed(r, o)  PROVE OrbsInv' /\ WorkInv' /\ Grows
    <2>1. PICK st \in NextOnSuccess(copy[r][o].st) : Finished(r, o, st)  BY <1>5 DEF Succeed
    <2>2. attempt[r][o] \in AtWork /\ (o \in Phased /\ copy[r][o].st = "decomposing" => Whole(o))
      BY <1>5, DecomposedIsWhole DEF Succeed, AtWork
    <2>3. QED  BY <2>1, <2>2, FinishedKeepsTasks
  <1>6. QED  BY <1>1, <1>2, <1>3, <1>4, <1>5 DEF Dispatch

LEMMA DisturbKeepsTasks ==
    ASSUME Base, OrbsInv, WorkInv, NEW r \in Runners, Disturb(r)
    PROVE  OrbsInv' /\ WorkInv' /\ Grows
  <1>1. CASE Stop(r) \/ Start(r) \/ TickBreaks(r) \/ \E i \in plan[r] : HookAborts(r, i)
    <2>1. UNCHANGED <<store, history, accepted, attempt, copy>>
      BY <1>1 DEF Stop, Start, TickBreaks, EndTick, HookAborts, KeepStore, dispatchVars
    <2>2. QED  BY <2>1, CalmStep
  <1>2. CASE Crash(r) \/ FatalError(r)
    <2>1. UNCHANGED <<store, history, accepted>> /\ DropTasks(r)
      BY <1>2 DEF Crash, FatalError, KeepStore
    <2>2. QED  BY <2>1, DropStep, CalmStep
  <1>3. ASSUME NEW o \in Orbs, SetBack(r, o)  PROVE OrbsInv' /\ WorkInv' /\ Grows
    <2>1. PICK st \in NextOnSetback(copy[r][o].st) : Finished(r, o, st)  BY <1>3 DEF SetBack
    <2>2. attempt[r][o] = "working"  BY <1>3 DEF SetBack
    <2>3. QED  BY <2>1, <2>2, FinishedKeepsTasks DEF AtWork
  <1>4. ASSUME NEW o \in Orbs, SpawnAborts(r, o)  PROVE OrbsInv' /\ WorkInv' /\ Grows
    BY <1>4, AbortedIsCalm
  <1>5. ASSUME NEW o \in Orbs, DispatchError(r, o)  PROVE OrbsInv' /\ WorkInv' /\ Grows
    <2>1. UNCHANGED <<store, history, accepted>> /\ Leave(r, o)
      BY <1>5 DEF DispatchError, KeepStore
    <2>2. QED  BY <2>1, LeaveStep, CalmStep
  <1>6. QED  BY <1>1, <1>2, <1>3, <1>4, <1>5 DEF Disturb

\* What the operator may write.
LEMMA OperatorSound ==
    ASSUME NEW o \in Orbs, NEW rec \in Record, rec.exec = NoWork, ~rec.label,
           store[o].st \in {"review", "failed"},
           o \notin Phased => rec.st \in {"pending", "failed"},
           o \in Phased => /\ rec.st \in WorkPhases \cup {"waiting", "failed", "done"}
                           /\ rec.st \notin Unbuilt => Whole(o)
                           /\ rec.st = "done" => ChildrenDone(o)
    PROVE  Sound(o, rec)
  <1>1. rec.st \notin {"absent", "tombstone"}  BY DEF WorkPhases
  <1>2. QED  BY <1>1 DEF Sound, PlainStates

\* An operator's write to an orb in review, or failed, that no task is concerned with.
LEMMA OperatorPutStep ==
    ASSUME Base, OrbsInv, WorkInv, NEW o \in Orbs, NEW rec, OperatorPut(o, rec), Sound(o, rec),
           store[o].st \in {"review", "failed"},
           accepted' \in {accepted, [accepted EXCEPT ![o] = FALSE]},
           accepted'[o] => rec.st \in {"done", "failed"} \/ (o \in Phased /\ rec.label)
    PROVE  /\ OrbsInv' /\ WorkInv' /\ Grows
           /\ \A x \in Orbs : store[x].st \notin {"review", "failed"} =>
                 store'[x] = store[x] /\ accepted'[x] = accepted[x]
  <1>1. Put(o, rec) /\ UNCHANGED <<attempt, copy>>
    BY DEF OperatorPut, dispatchVars
  <1>2. \A q \in Runners, x \in Orbs : attempt[q][x] \in AtWork => x # o
    BY TaskFacts DEF Targets, WorkPhases
  <1>3. \A q \in Runners, x \in Orbs : attempt[q][x] = "materializing" => copy[q][x].st = "decomposing"
    BY DEF WorkInv
  <1>4. \A q \in Runners, x \in Orbs : attempt'[q][x] \in AtWork =>
               /\ attempt[q][x] \in AtWork /\ x # o
               /\ attempt'[q][x] = "working" => attempt[q][x] = "working"
               /\ attempt'[q][x] = "materializing" => copy[q][x].st = "decomposing"
               /\ copy'[q][x] = copy[q][x]
    BY <1>1, <1>2, <1>3
  <1>5. \A x \in Orbs : x # o => accepted'[x] = accepted[x]  BY BaseFacts
  <1>6. OrbsInv' /\ WorkInv' /\ Grows  BY <1>1, <1>4, <1>5, WriteStep
  <1>7. \A x \in Orbs : x # o => store'[x] = store[x]  BY <1>1, PutPointwise
  <1>8. QED  BY <1>5, <1>6, <1>7

\* An operator's write is of an orb in review, or failed.
LEMMA OperatorKeepsTasks ==
    ASSUME Base, OrbsInv, WorkInv, Edits = {}, NEW o \in Orbs, Operator(o)
    PROVE  /\ OrbsInv' /\ WorkInv' /\ Grows
           /\ \A x \in Orbs : store[x].st \notin {"review", "failed"} =>
                 store'[x] = store[x] /\ accepted'[x] = accepted[x]
  <1>1. /\ store[o] \in Record /\ OrbInv(o)
        /\ store[o].st \notin Terminal \cup {"tombstone"} => store[o].exec = NoWork
        /\ accepted \in [Orbs -> BOOLEAN]
    BY BaseFacts DEF OrbsInv
  <1>2. ASSUME store[o].st = "review"
        PROVE  /\ o \in Phased /\ Whole(o) /\ store[o].exec = NoWork
               /\ PostCompletionReview(o) => ChildrenDone(o)
               /\ accepted[o] => PostCompletionReview(o)
    <2>1. o \in Phased /\ Whole(o) /\ store[o].exec = NoWork
      BY <1>1, <1>2 DEF OrbInv, PlainStates, Unbuilt, Terminal
    <2>2. VisibleChildren(store, o) = Children(o)  BY <2>1, EveryChildShows
    <2>3. AllChildrenDone(store, o) => ChildrenDone(o)  BY <2>2 DEF AllChildrenDone, ChildrenDone
    <2>4. PostCompletionReview(o) => ChildrenDone(o)
      BY <1>1, <2>1, <2>3 DEF PostCompletionReview, OrbInv, NoWork
    <2>5. accepted[o] => PostCompletionReview(o)
      BY <1>1, <1>2 DEF PostCompletionReview, OrbInv
    <2>6. QED  BY <2>1, <2>4, <2>5
  <1>3. CASE Approve(o) \/ Reject(o)
    <2>1. store[o].st = "review" /\ accepted' = accepted  BY <1>3 DEF Approve, Reject
    <2>2. /\ o \in Phased /\ Whole(o) /\ store[o].exec = NoWork
          /\ PostCompletionReview(o) => ChildrenDone(o)
          /\ accepted[o] => PostCompletionReview(o)
      BY <1>2, <2>1
    <2>3. PICK st \in {"waiting", "done", "failed"} :
              /\ OperatorPut(o, [store[o] EXCEPT !.label = FALSE, !.st = st])
              /\ st = "done" => PostCompletionReview(o)
              /\ st = "waiting" => ~PostCompletionReview(o)
      BY <1>3, <2>2 DEF Approve, Reject
    <2> DEFINE rec == [store[o] EXCEPT !.label = FALSE, !.st = st]
    <2>4. rec \in Record /\ rec.st = st /\ rec.exec = NoWork /\ ~rec.label
      BY <1>1, <2>2 DEF Record, States, TaskStates, PhaseStates
    <2>5. OperatorPut(o, rec)  BY <2>3
    <2> HIDE DEF rec
    <2>6. Sound(o, rec)  BY <2>1, <2>2, <2>3, <2>4, OperatorSound
    <2>7. accepted'[o] => rec.st \in {"done", "failed"}  BY <2>1, <2>2, <2>3, <2>4
    <2>8. QED  BY <2>1, <2>5, <2>6, <2>7, OperatorPutStep
  <1>4. CASE Revise(o) \/ Reset(o)
    <2>1. accepted' = [accepted EXCEPT ![o] = FALSE] /\ ~accepted'[o]
      BY <1>1, <1>4 DEF Revise, Reset
    <2>2. store[o].st \in {"review", "failed"}  BY <1>4 DEF Revise, Reset
    <2>3. \E st \in States : /\ OperatorPut(o, Fresh(st))
                             /\ o \notin Phased => st \in {"pending", "failed"}
                             /\ o \in Phased => st \in WorkPhases /\ (st \notin Unbuilt => Whole(o))
      <3>1. CASE Revise(o)
        <4>1. store[o].st = "review"  BY <3>1 DEF Revise
        <4>2. o \in Phased /\ Whole(o)  BY <1>2, <4>1
        <4>3. OperatorPut(o, Fresh("executing")) \/ OperatorPut(o, Fresh("refining"))
          BY <3>1, <4>2 DEF Revise
        <4>4. {"executing", "refining"} \subseteq States \cap WorkPhases
          BY DEF States, PhaseStates, WorkPhases
        <4>5. QED  BY <4>2, <4>3, <4>4
      <3>2. CASE Reset(o)
        <4>1. PICK p \in RetryPhase(o) : OperatorPut(o, Fresh(p))  BY <3>2 DEF Reset
        <4>2. p \in States  BY <4>1 DEF RetryPhase, States, TaskStates, PhaseStates, WorkPhases
        <4>3. o \in Phased => p \in WorkPhases /\ p = history[o]  BY <4>1 DEF RetryPhase
        <4>4. o \notin Phased => p = "pending"  BY <4>1 DEF RetryPhase
        <4>5. o \in Phased /\ p \notin Unbuilt => Whole(o)  BY <1>1, <4>3 DEF OrbInv
        <4>6. QED  BY <4>1, <4>2, <4>3, <4>4, <4>5
      <3>3. QED  BY <1>4, <3>1, <3>2
    <2>4. PICK st \in States : /\ OperatorPut(o, Fresh(st))
                               /\ o \notin Phased => st \in {"pending", "failed"}
                               /\ o \in Phased => st \in WorkPhases /\ (st \notin Unbuilt => Whole(o))
      BY <2>3
    <2>5. Fresh(st) \in Record /\ Fresh(st).st = st /\ Fresh(st).exec = NoWork /\ ~Fresh(st).label
      BY FreshIsRecord DEF Fresh
    <2>6. Sound(o, Fresh(st))  BY <2>2, <2>4, <2>5, OperatorSound DEF WorkPhases
    <2>7. QED  BY <2>1, <2>2, <2>4, <2>6, OperatorPutStep
  <1>5. ~EditStatus(o) /\ ~Delete(o)  BY DEF EditStatus, Delete
  <1>6. CASE ArchiveClaim(o)
    BY <1>6, CalmStep DEF ArchiveClaim, KeepStore, dispatchVars
  <1>7. QED  BY <1>3, <1>4, <1>5, <1>6 DEF Operator

LEMMA InitKeepsTasks == Init => OrbsInv /\ WorkInv
  <1>1. SUFFICES ASSUME Init PROVE OrbsInv /\ WorkInv  OBVIOUS
  <1>2. \A o \in Orbs : /\ store[o] = Fresh(IF o \in Planned THEN "absent" ELSE "pending")
                        /\ history[o] = store[o].st /\ ~accepted[o]
    BY <1>1 DEF Init
  <1>3. \A o \in Orbs : /\ store[o].st = IF o \in Planned THEN "absent" ELSE "pending"
                        /\ store[o].label = FALSE
    <2>1. \A st : Fresh(st).st = st /\ Fresh(st).label = FALSE  BY DEF Fresh
    <2>2. QED  BY <1>2, <2>1
  <1>4. OrbsInv
    <2>1. SUFFICES ASSUME NEW o \in Orbs PROVE OrbInv(o)  BY DEF OrbsInv
    <2>2. /\ store[o].st \in {"absent", "pending"} /\ ~store[o].label
          /\ store[o].st = "absent" => o \in Planned
      BY <1>3
    <2>3. o \in Phased => store[o].st = "pending"
      BY <1>3, QueueAssumption DEF QueueAssumption
    <2>4. QED  BY <1>2, <2>2, <2>3 DEF OrbInv, PlainStates, Unbuilt
  <1>5. WorkInv  BY <1>1 DEF Init, WorkInv, Executing
  <1>6. QED  BY <1>4, <1>5

-----------------------------------------------------------------------------
(* The step of a lone runner.                                               *)

\* Outside the dispatch round there is no task.
LEMMA NoTask ==
    ASSUME Base', \A r \in Runners : pc'[r] # "join"  PROVE  WorkInv'
  BY DEF Base, ClaimsInv, TasksOnlyInJoin, WorkInv, Executing

\* A runner with tasks has ended its tick.
LEMMA TaskMeansNoPlan ==
    ASSUME Base, PlanInv, NEW r \in Runners, NEW o \in Orbs, attempt[r][o] # "none"
    PROVE  plan[r] = {}
  <1>1. pc[r] = "join"  BY BaseFacts
  <1>2. QED  BY <1>1, NoPlan DEF Stages

\* And so has one that ends it, starts anew or gives up: it plans no write.
LEMMA Unplanned == ASSUME Alone, NEW r \in Runners, plan'[r] = {} PROVE PlanInv'
  BY PlanOfOne

LEMMA TickAlone ==
    ASSUME Base, Base', AloneInv, NEW r \in Runners, Tick(r)  PROVE  AloneInv'
  <1>1. CASE BeginTick(r)
    <2>1. UNCHANGED <<store, history, accepted>>  BY <1>1 DEF BeginTick, KeepStore
    <2>2. OrbsInv' /\ PlanInv'  BY <1>1, <2>1, OrbsFrame, BeginTickAlone DEF AloneInv
    <2>3. pc'[r] # "join"  BY <1>1, BaseFacts DEF BeginTick
    <2>4. WorkInv'  BY <2>3, OneRunner, NoTask DEF AloneInv
    <2>5. QED  BY <2>2, <2>4 DEF AloneInv, Alone
  <1>2. CASE NextStage(r)
    <2>1. UNCHANGED <<store, history, accepted>>  BY <1>2 DEF NextStage, KeepStore
    <2>2. OrbsInv' /\ PlanInv'  BY <1>2, <2>1, OrbsFrame, NextStageAlone DEF AloneInv
    <2>3. pc[r] \in Stages /\ pc'[r] = StageAfter[pc[r]]  BY <1>2, BaseFacts DEF NextStage
    <2>4. pc'[r] # "join"  BY <2>3 DEF StageAfter, Stages
    <2>5. WorkInv'  BY <2>4, OneRunner, NoTask DEF AloneInv
    <2>6. QED  BY <2>2, <2>5 DEF AloneInv, Alone
  <1>3. CASE TickFails(r)
    <2>1. UNCHANGED <<store, history, accepted, attempt, copy>> /\ plan'[r] = {}
      BY <1>3, BaseFacts DEF TickFails, EndTick, KeepStore, dispatchVars
    <2>2. QED  BY <2>1, CalmStep, Unplanned DEF AloneInv, Alone
  <1>4. CASE \E i \in plan[r] : TickWrite(r, i)
    <2>1. PICK i \in plan[r] : TickWrite(r, i)  BY <1>4
    <2>2. OrbsInv' /\ PlanInv'  BY <2>1, TickWriteAlone DEF AloneInv
    <2>3. pc'[r] = pc[r] /\ pc[r] \in Stages
      BY <2>1 DEF TickWrite, AloneInv, PlanInv, ItemInv
    <2>4. WorkInv'  BY <2>3, OneRunner, NoTask DEF AloneInv, Stages
    <2>5. QED  BY <2>2, <2>4 DEF AloneInv, Alone
  <1>5. QED  BY <1>1, <1>2, <1>3, <1>4 DEF Tick

LEMMA DispatchAlone ==
    ASSUME Base, AloneInv, NEW r \in Runners, Dispatch(r)  PROVE  AloneInv'
  <1>1. OrbsInv' /\ WorkInv'  BY DispatchKeepsTasks DEF AloneInv, Alone
  <1>2. UNCHANGED plan
    BY DEF Dispatch, BeginDispatch, Joined, Abandon, Acquire, Refuse, Admit, ReadChildren, Materialize, Succeed,
           Finished, Release, runnerVars
  <1>3. pc[r] \in {"dispatch", "join"} \/ \E o \in Orbs : attempt[r][o] # "none"
    BY DEF Dispatch, BeginDispatch, Joined, Abandon, Acquire, Refuse, Admit, ReadChildren, Materialize, Succeed, Release
  <1>4. plan[r] = {}  BY <1>3, NoPlan, TaskMeansNoPlan DEF AloneInv, Stages
  <1>5. PlanInv'  BY <1>2, <1>4, Unplanned DEF AloneInv
  <1>6. QED  BY <1>1, <1>5 DEF AloneInv, Alone

LEMMA DisturbAlone ==
    ASSUME Base, AloneInv, NEW r \in Runners, Disturb(r)  PROVE  AloneInv'
  <1>1. OrbsInv' /\ WorkInv' /\ Grows  BY DisturbKeepsTasks DEF AloneInv
  <1>2. CASE Stop(r)
    <2>1. PlanInv'  BY <1>2, PlanStays DEF Stop, KeepStore, AloneInv
    <2>2. QED  BY <1>1, <2>1 DEF AloneInv, Alone
  <1>3. CASE Start(r) \/ FatalError(r) \/ \E o \in Orbs : SetBack(r, o) \/ SpawnAborts(r, o) \/ DispatchError(r, o)
    <2>1. UNCHANGED plan
      BY <1>3 DEF Start, FatalError, SetBack, Finished, SpawnAborts, DispatchError, runnerVars
    <2>2. pc[r] \in {"down", "dispatch"} \/ \E o \in Orbs : attempt[r][o] # "none"
      BY <1>3 DEF Start, FatalError, SetBack, SpawnAborts, DispatchError, Holds, Holding
    <2>3. plan[r] = {}  BY <2>2, NoPlan, TaskMeansNoPlan DEF AloneInv, Stages
    <2>4. PlanInv'  BY <2>1, <2>3, Unplanned DEF AloneInv
    <2>5. QED  BY <1>1, <2>4 DEF AloneInv, Alone
  <1>4. CASE Crash(r) \/ TickBreaks(r)
    <2>1. plan'[r] = {}  BY <1>4, BaseFacts DEF Crash, TickBreaks, EndTick
    <2>2. QED  BY <1>1, <2>1, Unplanned DEF AloneInv, Alone
  <1>5. CASE \E i \in plan[r] : HookAborts(r, i)
    <2>1. PICK i \in plan[r] : HookAborts(r, i)  BY <1>5
    <2>2. UNCHANGED <<store, accepted, pc>> /\ plan'[r] = plan[r] \ {i}
      BY <2>1, BaseFacts DEF HookAborts, KeepStore
    <2>3. \A j \in plan[r] : ItemInv(r, j)'
      BY <2>2 DEF AloneInv, PlanInv, ItemInv, ChildrenDone, Whole
    <2>4. \A j, k \in plan'[r] : Distinct(j, k)  BY <2>2 DEF AloneInv, PlanInv
    <2>5. PlanInv'  BY <2>2, <2>3, <2>4, PlanOfOne DEF AloneInv
    <2>6. QED  BY <1>1, <2>5 DEF AloneInv, Alone
  <1>6. QED  BY <1>2, <1>3, <1>4, <1>5 DEF Disturb

LEMMA OperatorAlone ==
    ASSUME Base, AloneInv, NEW o \in Orbs, Operator(o)  PROVE  AloneInv'
  <1>1. /\ OrbsInv' /\ WorkInv' /\ Grows
        /\ \A x \in Orbs : store[x].st \notin {"review", "failed"} =>
              store'[x] = store[x] /\ accepted'[x] = accepted[x]
    BY OperatorKeepsTasks DEF AloneInv, Alone
  <1>2. UNCHANGED <<plan, pc>>
    BY DEF Operator, Approve, Reject, Revise, Reset, EditStatus, Delete, OperatorPut, ArchiveClaim,
           runnerVars
  <1>3. \A r \in Runners : \A i \in plan[r] : i.orb \in Orbs  BY BaseFacts DEF Item
  <1>4. \A r \in Runners : \A i \in plan[r] : store[i.orb].st \notin {"review", "failed"}
    BY DEF AloneInv, PlanInv, ItemInv
  <1>5. PlanInv'  BY <1>1, <1>2, <1>3, <1>4, PlanFrame DEF AloneInv
  <1>6. QED  BY <1>1, <1>5 DEF AloneInv, Alone

LEMMA AloneStep ==
    ASSUME Base, Base', AloneInv, [Next]_vars  PROVE  AloneInv'
  <1>1. CASE \E r \in Runners : Tick(r)  BY <1>1, TickAlone
  <1>2. CASE \E r \in Runners : Dispatch(r)  BY <1>2, DispatchAlone
  <1>3. CASE \E r \in Runners : Disturb(r)  BY <1>3, DisturbAlone
  <1>4. CASE \E o \in Orbs : Operator(o)  BY <1>4, OperatorAlone
  <1>5. CASE \E r \in Runners : Exit(r)
    <2>1. PICK r \in Runners : Exit(r)  BY <1>5
    <2>2. UNCHANGED <<store, history, accepted, plan, attempt, copy>> /\ pc[r] = "idle"
      BY <2>1 DEF Exit, KeepStore, dispatchVars
    <2>3. plan'[r] = {}  BY <2>2, NoPlan DEF AloneInv, Stages
    <2>4. QED  BY <2>2, <2>3, CalmStep, Unplanned DEF AloneInv, Alone
  <1>6. CASE (\E o \in Orbs : OrphanExits(o)) \/ UNCHANGED vars
    <2>1. UNCHANGED <<store, history, accepted, plan, pc, attempt, copy>>
      BY <1>6 DEF OrphanExits, KeepStore, vars, runnerVars, dispatchVars
    <2>2. QED  BY <2>1, CalmStep, PlanStays DEF AloneInv, Alone
  <1>7. QED  BY <1>1, <1>2, <1>3, <1>4, <1>5, <1>6 DEF Next

\* With one runner and no edit of a status behind it: a task starts from what
\* holds then, and no write of a tick or an operator takes that from it.
THEOREM AloneIsInvariant ==
    ASSUME Alone  PROVE  Spec => []AloneInv
  <1>1. Init => AloneInv
    <2>1. Init => PlanInv  BY DEF Init, PlanInv
    <2>2. QED  BY <2>1, InitKeepsTasks DEF AloneInv
  <1>2. Base /\ Base' /\ AloneInv /\ [Next]_vars => AloneInv'  BY AloneStep
  <1>3. Spec => []Base  BY BaseIsInvariant
  <1>4. QED  BY <1>1, <1>2, <1>3, PTL DEF Spec

\* An Execute result that was stored is not computed again unless an operator
\* asked for it: a task works only on a record whose result was not accepted.
THEOREM AcceptedWorkStands ==
    ASSUME Alone  PROVE  Spec => []AcceptedWorkNotRepeated
  <1>1. Base /\ AloneInv => AcceptedWorkNotRepeated
    BY TaskFacts DEF AcceptedWorkNotRepeated, Executing, AtWork, AloneInv
  <1>2. Spec => []Base  BY BaseIsInvariant
  <1>3. QED  BY <1>1, <1>2, AloneIsInvariant, PTL

\* What an orb depends on is Done for as long as a worker implements it, although
\* execution_dependencies_done was asked once, before the worker started.
THEOREM DependenciesStayDone ==
    ASSUME Alone  PROVE  Spec => []DependenciesHoldWhileExecuting
  <1>1. AloneInv => DependenciesHoldWhileExecuting
    BY DEF AloneInv, WorkInv, DependenciesHoldWhileExecuting, ExecutionDependenciesDone
  <1>2. QED  BY <1>1, AloneIsInvariant, PTL

\* A parent that has left Decomposing has its whole child graph, and one that is
\* Done has every child Done, whichever path took it there.
THEOREM ParentsFollowChildren ==
    ASSUME Alone  PROVE  Spec => []ParentFollowsChildren
  <1>1. AloneInv => ParentFollowsChildren
    BY ChildFacts DEF AloneInv, OrbsInv, OrbInv, ParentFollowsChildren, Unbuilt, Whole, ChildrenDone
  <1>2. QED  BY <1>1, AloneIsInvariant, PTL

\* The marker of a failed phase attempt and the stored history agree, so that
\* retry_phase_from_history accepts the operator's reset.
THEOREM FailuresAreResettable ==
    ASSUME Alone  PROVE  Spec => []FailedAttemptIsResettable
  <1>1. AloneInv => FailedAttemptIsResettable
    BY ChildFacts DEF AloneInv, OrbsInv, OrbInv, FailedAttemptIsResettable
  <1>2. QED  BY <1>1, AloneIsInvariant, PTL
-----------------------------------------------------------------------------
(* What a step of a runner, or of an operator, may overwrite.               *)

\* Who changed the record of orb x, and from which state.
WrittenBy(x) ==
    \/ \E r \in Runners : \E i \in plan[r] : TickWrite(r, i) /\ i.orb = x
    \/ \E r \in Runners : attempt[r][x] \in AtWork /\ \E st : st # "reevaluating" /\ Finished(r, x, st)
    \/ store[x].st = "absent" /\ store'[x].st = "pending"
    \/ store[x].st = "review" /\ store'[x].st # "reevaluating"
    \/ store[x].st = "failed" /\ store'[x].st # "done" /\ moves' = moves + 1

\* One record is written.
LEMMA OneWritten ==
    ASSUME Base, NEW o \in Orbs, NEW rec, Put(o, rec), NEW x \in Orbs, store'[x] # store[x]
    PROVE  x = o
  BY PutPointwise

LEMMA WhoWrites ==
    ASSUME Base, OrbsInv, WorkInv, Edits = {}, [Next]_vars, NEW x \in Orbs, store'[x] # store[x]
    PROVE  WrittenBy(x)
  <1>1. CASE \E r \in Runners : \E i \in plan[r] : TickWrite(r, i)
    <2>1. PICK r \in Runners : \E i \in plan[r] : TickWrite(r, i)  BY <1>1
    <2>2. PICK i \in plan[r] : TickWrite(r, i)  BY <2>1
    <2>3. i.orb \in Orbs /\ Put(i.orb, TickRecord(i))  BY <2>2, BaseFacts DEF Item, TickWrite
    <2>4. QED  BY <2>2, <2>3, OneWritten DEF WrittenBy
  <1>2. CASE \E r \in Runners, o \in Orbs : Succeed(r, o) \/ SetBack(r, o)
    <2>1. PICK r \in Runners, o \in Orbs : Succeed(r, o) \/ SetBack(r, o)  BY <1>2
    <2>2. PICK st : st # "reevaluating" /\ Finished(r, o, st)
      <3>1. copy[r][o].st \in Targets  BY <2>1, BaseFacts DEF Succeed, SetBack
      <3>2. "reevaluating" \notin NextOnSuccess(copy[r][o].st) \cup NextOnSetback(copy[r][o].st)
        BY <3>1 DEF NextOnSuccess, NextOnSetback, Targets, WorkPhases
      <3>3. QED  BY <2>1, <3>2 DEF Succeed, SetBack
    <2>3. x = o  BY <2>2, OneWritten DEF Finished
    <2>4. attempt[r][o] \in AtWork  BY <2>1 DEF Succeed, SetBack, AtWork
    <2>5. QED  BY <2>2, <2>3, <2>4 DEF WrittenBy
  <1>3. CASE \E r \in Runners, o \in Orbs : SpawnAborts(r, o)
    <2>1. PICK r \in Runners, o \in Orbs : SpawnAborts(r, o)  BY <1>3
    <2>2. Put(o, copy[r][o]) /\ attempt[r][o] \in AtWork  BY <2>1 DEF SpawnAborts, AtWork
    <2>3. QED  BY <2>2, TaskFacts, PutPointwise
  <1>4. CASE \E r \in Runners, o \in Orbs : Materialize(r, o)
    <2>1. PICK c \in Orbs : store[c].st = "absent" /\ Put(c, Fresh("pending"))
      BY <1>4, AppendedChild DEF Base
    <2>2. x = c  BY <2>1, OneWritten
    <2>3. store'[c].st = "pending"  BY <2>1, PutPointwise DEF Fresh
    <2>4. QED  BY <2>1, <2>2, <2>3 DEF WrittenBy
  <1>5. CASE \E o \in Orbs : Approve(o) \/ Reject(o) \/ Revise(o)
    <2>1. PICK o \in Orbs : Approve(o) \/ Reject(o) \/ Revise(o)  BY <1>5
    <2>2. store[o].st = "review" /\ \E rec : Put(o, rec) /\ rec.st # "reevaluating"
      <3>1. store[o] \in Record  BY BaseFacts
      <3>2. \A st : [store[o] EXCEPT !.label = FALSE, !.st = st].st = st /\ Fresh(st).st = st
        BY <3>1 DEF Record, Fresh
      <3>3. QED  BY <2>1, <3>2 DEF Approve, Reject, Revise, OperatorPut
    <2>3. PICK rec : Put(o, rec) /\ rec.st # "reevaluating"  BY <2>2
    <2>4. x = o /\ store'[o] = rec  BY <2>3, OneWritten, PutPointwise
    <2>5. QED  BY <2>2, <2>3, <2>4 DEF WrittenBy
  <1>6. CASE \E o \in Orbs : Reset(o)
    <2>1. PICK o \in Orbs : Reset(o)  BY <1>6
    <2>2. PICK p \in RetryPhase(o) : Put(o, Fresh(p))  BY <2>1 DEF Reset, OperatorPut
    <2>3. store[o].st = "failed" /\ moves' = moves + 1
      BY <2>1 DEF Reset, OperatorPut, Move
    <2>4. x = o  BY <2>2, OneWritten
    <2>5. p # "done"  BY <2>2 DEF RetryPhase, WorkPhases
    <2>6. store'[o].st = p  BY <2>2, PutPointwise DEF Fresh
    <2>7. QED  BY <2>3, <2>4, <2>5, <2>6 DEF WrittenBy
  <1>7. \A r \in Runners : Tick(r) => UNCHANGED store \/ \E i \in plan[r] : TickWrite(r, i)
    BY DEF Tick, BeginTick, NextStage, TickFails, EndTick, KeepStore
  <1>8. \A r \in Runners : Dispatch(r) => UNCHANGED store
            \/ \E o \in Orbs : Succeed(r, o) \/ Materialize(r, o)
    BY DEF Dispatch, BeginDispatch, Joined, Abandon, Acquire, Refuse, Admit, ReadChildren, Release, KeepStore
  <1>9. \A r \in Runners : Disturb(r) => UNCHANGED store
            \/ \E o \in Orbs : SetBack(r, o) \/ SpawnAborts(r, o)
    BY DEF Disturb, Stop, Start, Crash, FatalError, TickBreaks, EndTick, HookAborts,
           DispatchError, KeepStore
  <1>10. \A o \in Orbs : Operator(o) => UNCHANGED store
             \/ Approve(o) \/ Reject(o) \/ Revise(o) \/ Reset(o)
    BY DEF Operator, ArchiveClaim, KeepStore, EditStatus, Delete
  <1>11. (\E r \in Runners : Exit(r)) \/ (\E o \in Orbs : OrphanExits(o)) \/ UNCHANGED vars
             => UNCHANGED store
    BY DEF Exit, OrphanExits, KeepStore, vars
  <1>12. QED
    BY <1>1, <1>2, <1>3, <1>4, <1>5, <1>6, <1>7, <1>8, <1>9, <1>10, <1>11 DEF Next

\* A terminal orb changes its state; a parent without final work aside, only an
\* operator's reset does that.
Reopened(o) == store[o].st \in Terminal /\ store'[o].st # store[o].st
OnlyResetsReopen ==
    \A o \in Orbs : Reopened(o) /\ (o \in Phased => o \in FinalWork) =>
        store[o].st = "failed" /\ moves' = moves + 1

LEMMA OnlyOpenWritten ==
    ASSUME Base, AloneInv, [Next]_vars  PROVE  OnlyResetsReopen
  <1>1. SUFFICES ASSUME NEW o \in Orbs, Reopened(o), o \in Phased => o \in FinalWork
                 PROVE  store[o].st = "failed" /\ moves' = moves + 1
    BY DEF OnlyResetsReopen
  <1>2. WrittenBy(o)  BY <1>1, WhoWrites DEF Reopened, AloneInv, Alone
  <1>3. ASSUME NEW r \in Runners, NEW i \in plan[r], i.orb = o  PROVE FALSE
    <2>1. ItemInv(r, i)  BY DEF AloneInv, PlanInv
    <2>2. QED  BY <1>1, <1>3, <2>1 DEF Reopened, ItemInv, Terminal
  <1>4. ASSUME NEW r \in Runners, attempt[r][o] \in AtWork  PROVE FALSE
    BY <1>1, <1>4, TaskFacts DEF Reopened, Targets, WorkPhases, Terminal, AloneInv
  <1>5. store[o].st \notin {"absent", "review"}  BY <1>1 DEF Reopened, Terminal
  <1>6. QED  BY <1>2, <1>3, <1>4, <1>5 DEF WrittenBy

\* With one runner, and where every phase parent has work of its own to do: Done
\* and Cancelled are final, and Failed ends only by an operator's reset.
THEOREM TerminalStaysTerminal ==
    ASSUME Alone, FinalWork = Phased  PROVE  Spec => TerminalIsFinal
  <1>1. Base /\ AloneInv /\ [Next]_vars =>
            [\A o \in Orbs : store[o].st \in Terminal /\ store'[o].st # store[o].st =>
                store[o].st = "failed" /\ moves' = moves + 1]_vars
    BY OnlyOpenWritten DEF OnlyResetsReopen, Reopened
  <1>2. Spec => []Base  BY BaseIsInvariant
  <1>3. Spec => []AloneInv  BY AloneIsInvariant
  <1>4. QED  BY <1>1, <1>2, <1>3, PTL DEF Spec, TerminalIsFinal
-----------------------------------------------------------------------------
(* Ancestry.  The recursive definition has a solution: the least set that      *)
(* holds the parent and the parent of each of its orbs.                      *)

Upward(S) == \A x \in S : Parent[x] # NoOrb => Parent[x] \in S
Holders(o) == {S \in SUBSET Orbs : Upward(S) /\ Parent[o] \in S}
Line == [o \in Orbs \cup {NoOrb} |->
            IF o = NoOrb \/ Parent[o] = NoOrb THEN {}
            ELSE {x \in Orbs : \A S \in Holders(o) : x \in S}]

LEMMA LineFollows ==
    ASSUME NEW o \in Orbs, Parent[o] # NoOrb
    PROVE  Line[o] = {Parent[o]} \cup Line[Parent[o]]
  <1> DEFINE p == Parent[o]
  <1>1. p \in Orbs  BY QueueAssumption DEF QueueAssumption
  <1>2. Line[o] = {x \in Orbs : \A S \in Holders(o) : x \in S}
    BY QueueAssumption DEF Line, QueueAssumption
  <1>3. CASE Parent[p] = NoOrb
    <2>1. Line[p] = {}  BY <1>1, <1>3 DEF Line
    <2>2. {p} \in Holders(o)  BY <1>1, <1>3 DEF Holders, Upward
    <2>3. \A S \in Holders(o) : p \in S  BY DEF Holders
    <2>4. Line[o] = {p}  BY <1>1, <1>2, <2>2, <2>3
    <2>5. QED  BY <2>1, <2>4
  <1>4. CASE Parent[p] # NoOrb
    <2>1. Line[p] = {x \in Orbs : \A S \in Holders(p) : x \in S}
      BY <1>1, <1>4, QueueAssumption DEF Line, QueueAssumption
    <2>2. \A S \in Holders(o) : p \in S /\ S \in Holders(p)
      BY <1>1, <1>4 DEF Holders, Upward
    <2>3. \A S \in Holders(p) : S \cup {p} \in Holders(o)
      BY <1>1, <1>4 DEF Holders, Upward
    <2>4. ASSUME NEW x \in Line[o], x # p  PROVE x \in Line[p]
      <3>1. SUFFICES ASSUME NEW S \in Holders(p) PROVE x \in S  BY <1>2, <2>1
      <3>2. x \in S \cup {p}  BY <1>2, <2>3
      <3>3. QED  BY <2>4, <3>2
    <2>5. {p} \cup Line[p] \subseteq Line[o]  BY <1>1, <1>2, <2>1, <2>2
    <2>6. QED  BY <2>4, <2>5
  <1>5. QED  BY <1>3, <1>4

\* The equation that defines Ancestors.
LEMMA AncestorsFollow ==
    \A o \in Orbs : Ancestors[o] = IF Parent[o] = NoOrb THEN {}
                                   ELSE {Parent[o]} \cup Ancestors[Parent[o]]
  <1> DEFINE D == Orbs \cup {NoOrb}
             Def(g) == g = [o \in D |-> IF o = NoOrb \/ Parent[o] = NoOrb THEN {}
                                        ELSE {Parent[o]} \cup g[Parent[o]]]
  <1>1. Def(Line)
    <2>1. \A o \in D : Line[o] = IF o = NoOrb \/ Parent[o] = NoOrb THEN {}
                                 ELSE {Parent[o]} \cup Line[Parent[o]]
      <3>1. \A o \in D : o = NoOrb \/ Parent[o] = NoOrb => Line[o] = {}  BY DEF Line
      <3>2. \A o \in D : ~(o = NoOrb \/ Parent[o] = NoOrb)
                => Line[o] = {Parent[o]} \cup Line[Parent[o]]
        BY LineFollows
      <3>3. QED  BY <3>1, <3>2
    <2>2. Line = [o \in D |-> Line[o]]  BY DEF Line
    <2> DEFINE F == [o \in D |-> IF o = NoOrb \/ Parent[o] = NoOrb THEN {}
                                ELSE {Parent[o]} \cup Line[Parent[o]]]
    <2>3. \A o \in D : Line[o] = F[o]  BY <2>1
    <2>4. Line = F  BY <2>2, <2>3
    <2>5. QED  BY <2>4
  <1>2. Def(Ancestors)
    <2>1. Ancestors = CHOOSE g : Def(g)  BY DEF Ancestors
    <2> HIDE DEF Def
    <2>2. QED  BY <1>1, <2>1
  <1>3. QED  BY <1>2, QueueAssumption DEF QueueAssumption

\* What holds of a parent and passes from parent to parent holds of all ancestors.
LEMMA AncestorsStayIn ==
    ASSUME NEW B \in SUBSET Orbs, NEW N, NEW o \in B,
           \A x \in B : Parent[x] # NoOrb => Parent[x] \in B /\ Parent[x] \in N
    PROVE  Ancestors[o] \subseteq N
  <1> DEFINE Bad == {x \in B : ~(Ancestors[x] \subseteq N)}
  <1>1. SUFFICES ASSUME Bad # {} PROVE FALSE  OBVIOUS
  <1>2. Bad \in (SUBSET Orbs) \ {{}}  BY <1>1
  <1>3. PICK x \in Bad : Parent[x] \notin Bad  BY <1>2, QueueAssumption DEF QueueAssumption
  <1>4. x \in Orbs /\ x \in B /\ ~(Ancestors[x] \subseteq N)  OBVIOUS
  <1>5. Parent[x] # NoOrb  BY <1>4, AncestorsFollow
  <1>6. Ancestors[Parent[x]] \subseteq N  BY <1>3, <1>4, <1>5
  <1>7. QED  BY <1>4, <1>5, <1>6, AncestorsFollow

LEMMA AncestorsAreOrbs == ASSUME NEW o \in Orbs PROVE Ancestors[o] \subseteq Orbs
  BY AncestorsStayIn, QueueAssumption DEF QueueAssumption
-----------------------------------------------------------------------------
(* The ancestors of an orb at work.  An ancestor that was itself executing     *)
(* would have its children Done, theirs Done in turn, and so the orb.        *)

\* The last stage of a tick may write over a parent that the stage before it set
\* to Done.  Its own parent is then not Done, and not planned to be.
LateItem(r, i) ==
    /\ store[i.orb].st = "done" => i.stage = "waiting" /\ pc[r] \in {"roots", "waiting"}
    /\ i.stage = "waiting" /\ Parent[i.orb] # NoOrb =>
          /\ store[Parent[i.orb]].st # "done"
          /\ \A j \in plan[r] : j.orb = Parent[i.orb] => j.st # "done"

AncestorsInv ==
    /\ \A o \in Orbs : store[o].st = "done" => ChildrenDone(o)
    /\ \A r \in Runners : \A i \in plan[r] :
          /\ i.orb \notin Phased /\ i.st = "done" => ChildrenDone(i.orb)
          /\ LateItem(r, i)
    /\ AncestorsReleasedWhileExecuting

PlannedDone(o) == \E r \in Runners : \E j \in plan[r] : j.orb = o /\ j.st = "done"

\* The Done children of an orb that is Done, or about to be, stay Done.
LEMMA ChildrenStayDone ==
    ASSUME Base, AloneInv, AncestorsInv, [Next]_vars, NEW o \in Orbs, ChildrenDone(o),
           store[o].st = "done" \/ PlannedDone(o)
    PROVE  ChildrenDone(o)'
  <1>1. SUFFICES ASSUME NEW c \in Children(o), store'[c].st # "done" PROVE FALSE
    BY DEF ChildrenDone
  <1>2. c \in Orbs /\ Parent[c] = o /\ Parent[c] # NoOrb
    BY QueueAssumption DEF QueueAssumption, Children
  <1>3. store[c].st = "done"  BY DEF ChildrenDone
  <1>4. WrittenBy(c)  BY <1>1, <1>2, <1>3, WhoWrites DEF AloneInv, Alone
  <1>5. ASSUME NEW r \in Runners, NEW i \in plan[r], i.orb = c  PROVE FALSE
    <2>1. LateItem(r, i)  BY DEF AncestorsInv
    <2>2. /\ store[o].st # "done"
          /\ \A j \in plan[r] : j.orb = o => j.st # "done"
      BY <1>2, <1>3, <1>5, <2>1 DEF LateItem
    <2>3. QED  BY <2>2, OneRunner DEF AloneInv, PlannedDone
  <1>6. ASSUME NEW r \in Runners, attempt[r][c] \in AtWork  PROVE FALSE
    BY <1>2, <1>3, <1>6, TaskFacts DEF Targets, WorkPhases, AloneInv
  <1>7. QED  BY <1>3, <1>4, <1>5, <1>6 DEF WrittenBy

\* A task is planned to be Done only by the stage that has seen its children.
LEMMA WhoPlans ==
    ASSUME Base, AloneInv, [Next]_vars, NEW r \in Runners, NEW i \in plan'[r],
           i.orb \notin Phased, i.st = "done"
    PROVE  i \in plan[r] \/ (i \in CompleteRoots(store) /\ store' = store)
  <1>1. \A q \in Runners : q = r  BY OneRunner DEF AloneInv
  <1>2. SUFFICES ASSUME i \notin plan[r] PROVE i \in CompleteRoots(store) /\ store' = store
    OBVIOUS
  <1>3. CASE Tick(r)
    <2>1. CASE BeginTick(r)
      <3>1. i \in StartPipelines(store) \cup ExecuteReady(store) \cup ReevaluateWaiting(store)
        BY <2>1, BaseFacts DEF BeginTick
      <3>2. QED  BY <3>1, FirstItems DEF AloneInv
    <2>2. CASE NextStage(r)
      <3>1. plan'[r] = plan[r] \cup IF pc[r] = "ready" THEN CompleteRoots(store) ELSE {}
        BY <2>2, BaseFacts DEF NextStage
      <3>2. QED  BY <1>2, <2>2, <3>1 DEF NextStage, KeepStore
    <2>3. CASE TickFails(r)
      BY <2>3, BaseFacts DEF TickFails, EndTick
    <2>4. CASE \E j \in plan[r] : TickWrite(r, j)
      <3>1. PICK j \in plan[r] : TickWrite(r, j)  BY <2>4
      <3>2. ItemInv(r, j) /\ j \in Item  BY <3>1, BaseFacts DEF AloneInv, PlanInv
      <3>3. plan'[r] = (plan[r] \ {j}) \cup IF j.stage = "roots" /\ j.st = "executing_children"
                                            THEN {[j EXCEPT !.st = AfterChildren(j.orb)]} ELSE {}
        BY <3>1, BaseFacts DEF TickWrite
      <3>4. j.st = "executing_children" /\ i = [j EXCEPT !.st = AfterChildren(j.orb)]
        BY <1>2, <3>3
      <3>5. i.orb = j.orb  BY <3>2, <3>4 DEF Item
      <3>6. QED  BY <3>2, <3>4, <3>5 DEF ItemInv
    <2>5. QED  BY <1>3, <2>1, <2>2, <2>3, <2>4 DEF Tick
  <1>4. CASE Dispatch(r)
    BY <1>2, <1>4 DEF Dispatch, BeginDispatch, Joined, Abandon, Acquire, Refuse, Admit, ReadChildren, Materialize,
                     Succeed, Finished, Release, runnerVars
  <1>5. CASE Disturb(r)
    <2>1. plan'[r] = {} \/ plan'[r] \subseteq plan[r]
      BY <1>5, BaseFacts DEF Disturb, Stop, Start, Crash, FatalError, TickBreaks, EndTick, HookAborts,
                     SetBack, Finished, SpawnAborts, DispatchError, runnerVars
    <2>2. QED  BY <1>2, <2>1
  <1>6. CASE (\E o \in Orbs : Operator(o) \/ OrphanExits(o)) \/ Exit(r) \/ UNCHANGED vars
    BY <1>2, <1>6 DEF Operator, Approve, Reject, Revise, Reset, EditStatus, Delete, OperatorPut,
                     ArchiveClaim, OrphanExits, Exit, vars, runnerVars
  <1>7. QED  BY <1>1, <1>3, <1>4, <1>5, <1>6 DEF Next

LEMMA TaskRootsDone ==
    ASSUME Base, OrbsInv, NEW i \in CompleteRoots(store), i.orb \notin Phased
    PROVE  ChildrenDone(i.orb)
  <1>1. i.orb \in RootsDone(store)  BY DEF CompleteRoots, Do
  <1>2. i.orb \in Orbs /\ AllChildrenDone(store, i.orb)  BY <1>1 DEF RootsDone
  <1>3. VisibleChildren(store, i.orb) = Children(i.orb)  BY <1>2, EveryChildShows
  <1>4. QED  BY <1>2, <1>3 DEF AllChildrenDone, ChildrenDone

\* A task that becomes Done has no child, or only Done ones.
LEMMA TaskDone ==
    ASSUME Base, AloneInv, AncestorsInv, [Next]_vars, NEW o \in Orbs, o \notin Phased,
           store[o].st # "done", store'[o].st = "done"
    PROVE  ChildrenDone(o)'
  <1>1. WrittenBy(o)  BY WhoWrites DEF AloneInv, Alone
  <1>2. store[o].st # "review"  BY DEF AloneInv, OrbsInv, OrbInv, PlainStates
  <1>3. ASSUME NEW r \in Runners, NEW i \in plan[r], TickWrite(r, i), i.orb = o
        PROVE  ChildrenDone(o)'
    <2>1. Put(o, TickRecord(i)) /\ i.st # "error"  BY <1>3 DEF TickWrite
    <2>2. TickRecord(i).st = i.st  BY <1>3, <2>1, ItemRecord DEF AloneInv
    <2>3. i.st = "done"  BY <2>1, <2>2, PutPointwise
    <2>4. ChildrenDone(o) /\ PlannedDone(o)  BY <1>3, <2>3 DEF AncestorsInv, PlannedDone
    <2>5. QED  BY <2>4, ChildrenStayDone
  <1>4. ASSUME NEW r \in Runners, attempt[r][o] \in AtWork  PROVE ChildrenDone(o)'
    <2>1. /\ store[o] = copy[r][o] /\ store[o].st = "active"
          /\ attempt[r][o] = "materializing" => store[o].st = "decomposing"
      BY <1>4, TaskFacts DEF AloneInv
    <2>2. Executing(r, o)  BY <1>4, <2>1 DEF Executing, AtWork, Executes
    <2>3. QED  BY <2>2 DEF AloneInv, WorkInv, ChildrenDone
  <1>5. QED  BY <1>1, <1>2, <1>3, <1>4 DEF WrittenBy

\* A worker starts to implement an orb only by admission.
LEMMA WhoExecutes ==
    ASSUME Base, AloneInv, [Next]_vars, NEW r \in Runners, NEW o \in Orbs, Executing(r, o)'
    PROVE  Executing(r, o) \/ Admit(r, o)
  <1>1. \A q \in Runners : q = r  BY OneRunner DEF AloneInv
  <1>2. attempt'[r][o] = "working"  BY DEF Executing
  <1>3. SUFFICES ASSUME ~Admit(r, o)
                 PROVE  attempt[r][o] = "working" /\ copy'[r][o] = copy[r][o]
    BY DEF Executing
  <1>4. CASE \E x \in Orbs : Leave(r, x)
    <2>1. attempt'[r][o] = attempt[r][o] /\ copy'[r][o] = copy[r][o]
      BY <1>2, <1>4, LeaveStep DEF AtWork
    <2>2. QED  BY <1>2, <2>1
  <1>5. CASE UNCHANGED copy /\ \E x \in Orbs, a \in Attempts : At(r, x, a) /\ a # "working"
    BY <1>2, <1>5, AtStep
  <1>6. CASE UNCHANGED <<attempt, copy>>  BY <1>2, <1>6
  <1>7. CASE DropTasks(r)  BY <1>2, <1>7, DropStep DEF AtWork
  <1>8. CASE BeginDispatch(r)
    <2>1. attempt'[r][o] \in {"queued", "none"}  BY <1>8, BaseFacts DEF BeginDispatch
    <2>2. QED  BY <1>2, <2>1
  <1>9. CASE \E x \in Orbs : Admit(r, x)
    <2>1. PICK x \in Orbs : Admit(r, x)  BY <1>9
    <2>2. x # o /\ At(r, x, "working") /\ copy' = [copy EXCEPT ![r][x] = store[x]]
      BY <1>3, <2>1 DEF Admit
    <2>3. attempt'[r][o] = attempt[r][o]  BY <2>2, AtStep, AttemptNames DEF Holding
    <2>4. copy'[r][o] = copy[r][o]  BY <2>2, BaseFacts
    <2>5. QED  BY <1>2, <2>3, <2>4
  <1>10. "claimed" \in Attempts /\ "written" \in Attempts /\ "materializing" \in Attempts
    BY DEF Attempts
  <1>11. CASE Tick(r) \/ Exit(r)
    BY <1>6, <1>11 DEF Tick, BeginTick, NextStage, TickFails, EndTick, TickWrite, Exit, dispatchVars
  <1>12. CASE Dispatch(r)
    BY <1>4, <1>5, <1>6, <1>8, <1>9, <1>10, <1>12 DEF Dispatch, Joined, Abandon, Acquire, Refuse,
       ReadChildren, Materialize, Succeed, Finished, Release, dispatchVars
  <1>13. CASE Disturb(r)
    BY <1>4, <1>5, <1>6, <1>7, <1>10, <1>13 DEF Disturb, Stop, Start, Crash, FatalError, TickBreaks,
       EndTick, HookAborts, SetBack, Finished, SpawnAborts, DispatchError, dispatchVars
  <1>14. CASE (\E x \in Orbs : Operator(x) \/ OrphanExits(x)) \/ UNCHANGED vars
    BY <1>6, <1>14 DEF Operator, Approve, Reject, Revise, Reset, EditStatus, Delete, OperatorPut,
                     ArchiveClaim, OrphanExits, vars, dispatchVars
  <1>15. QED  BY <1>1, <1>11, <1>12, <1>13, <1>14 DEF Next

\* Above an orb that is not Done, no orb has all its children Done.
LEMMA UndoneAbove ==
    ASSUME Base, AloneInv, AncestorsInv, NEW o \in Orbs, store[o].st # "done",
           NEW p \in Ancestors[o]
    PROVE  p \in Orbs /\ ~ChildrenDone(p)
  <1> DEFINE B == {x \in Orbs : store[x].st # "done"}  N == {x \in Orbs : ~ChildrenDone(x)}
  <1>1. ASSUME NEW x \in B, Parent[x] # NoOrb  PROVE Parent[x] \in B /\ Parent[x] \in N
    <2>1. Parent[x] \in Orbs /\ x \in Children(Parent[x])
      BY <1>1, QueueAssumption DEF QueueAssumption, Children
    <2>2. ~ChildrenDone(Parent[x])  BY <2>1 DEF ChildrenDone
    <2>3. QED  BY <2>1, <2>2 DEF AncestorsInv
  <1>2. B \in SUBSET Orbs /\ o \in B  OBVIOUS
  <1> HIDE DEF B, N
  <1>3. Ancestors[o] \subseteq N  BY <1>1, <1>2, AncestorsStayIn
  <1>4. QED  BY <1>3 DEF N

\* While an orb is implemented, no task works on one of its ancestors.
LEMMA AncestorsRest ==
    ASSUME Base, AloneInv, AncestorsInv, NEW r \in Runners, NEW o \in Orbs, Executing(r, o),
           NEW p \in Ancestors[o], NEW q \in Runners
    PROVE  p \in Orbs /\ attempt[q][p] \notin AtWork
  <1>1. store[o].st # "done"
    BY TaskFacts DEF Executing, AtWork, Targets, WorkPhases, AloneInv
  <1>2. p \in Orbs /\ ~ChildrenDone(p)  BY <1>1, UndoneAbove
  <1>3. ASSUME attempt[q][p] \in AtWork  PROVE FALSE
    <2>1. /\ store[p] = copy[q][p] /\ store[p].st \in Targets
          /\ attempt[q][p] = "materializing" => store[p].st = "decomposing"
      BY <1>2, <1>3, TaskFacts DEF AloneInv
    <2>2. store[p].st \notin {"speccing", "decomposing", "refining", "reevaluating"}
      BY DEF AncestorsInv, AncestorsReleasedWhileExecuting
    <2>3. Executing(q, p)
      BY <1>3, <2>1, <2>2 DEF Executing, Executes, AtWork, Targets, WorkPhases
    <2>4. ChildrenDone(p)  BY <1>2, <2>3 DEF AloneInv, WorkInv, ChildrenDone
    <2>5. QED  BY <1>2, <2>4
  <1>4. QED  BY <1>2, <1>3

LEMMA BeginTickLate ==
    ASSUME Base, AloneInv, AncestorsInv, NEW r \in Runners, BeginTick(r), NEW i \in plan'[r]
    PROVE  LateItem(r, i)'
  <1> DEFINE items == StartPipelines(store) \cup ExecuteReady(store) \cup ReevaluateWaiting(store)
  <1>1. plan'[r] = items /\ store' = store
    BY BaseFacts DEF BeginTick, KeepStore
  <1> HIDE DEF items
  <1>2. i \in items  BY <1>1
  <1>3. /\ i.orb \in Orbs /\ store[i.orb].st \in {"pending", "waiting"}
        /\ i.stage = "waiting" => i.orb \in Phased
    BY <1>2, FirstItems DEF AloneInv, items
  <1>4. ASSUME i.stage = "waiting", Parent[i.orb] # NoOrb
        PROVE  /\ store[Parent[i.orb]].st # "done"
               /\ \A j \in plan'[r] : j.orb = Parent[i.orb] => j.st # "done"
    <2>1. Parent[i.orb] \in Orbs /\ i.orb \in Children(Parent[i.orb])
      BY <1>3, <1>4, QueueAssumption DEF QueueAssumption, Children
    <2>2. store[Parent[i.orb]].st # "done"
      BY <1>3, <2>1 DEF AncestorsInv, ChildrenDone
    <2>3. \A j \in items : j.st # "done"  BY FirstItems DEF AloneInv, items
    <2>4. QED  BY <1>1, <2>2, <2>3
  <1>5. QED  BY <1>1, <1>3, <1>4 DEF LateItem

LEMMA NextStageLate ==
    ASSUME Base, AloneInv, AncestorsInv, NEW r \in Runners, NextStage(r), NEW i \in plan'[r]
    PROVE  LateItem(r, i)'
  <1>1. /\ pc[r] \in Stages /\ pc'[r] = StageAfter[pc[r]] /\ store' = store
        /\ plan'[r] = plan[r] \cup (IF pc[r] = "ready" THEN CompleteRoots(store) ELSE {})
        /\ \A j \in plan[r] : j.stage # pc[r]
    BY BaseFacts DEF NextStage, KeepStore
  <1>2. ASSUME NEW j \in CompleteRoots(store)
        PROVE  j.orb \in Orbs /\ j.stage = "roots" /\ store[j.orb].st # "done"
    BY <1>2, RootItems DEF AloneInv
  <1>3. \A j \in plan[r] : LateItem(r, j) /\ ItemInv(r, j)  BY DEF AncestorsInv, AloneInv, PlanInv
  <1>4. store'[i.orb].st = "done" => i.stage = "waiting" /\ pc'[r] \in {"roots", "waiting"}
    <2>1. SUFFICES ASSUME store'[i.orb].st = "done"
                   PROVE  i.stage = "waiting" /\ pc'[r] \in {"roots", "waiting"}
      OBVIOUS
    <2>2. i \in plan[r]  BY <1>1, <1>2, <2>1
    <2>3. i.stage = "waiting" /\ pc[r] \in {"roots", "waiting"} /\ pc[r] # "waiting"
      BY <1>1, <1>3, <2>1, <2>2 DEF LateItem
    <2>4. QED  BY <1>1, <2>3 DEF StageAfter
  <1>5. ASSUME i.stage = "waiting", Parent[i.orb] # NoOrb
        PROVE  /\ store'[Parent[i.orb]].st # "done"
               /\ \A j \in plan'[r] : j.orb = Parent[i.orb] => j.st # "done"
    <2>1. i \in plan[r]  BY <1>1, <1>2, <1>5
    <2>2. i.orb \in Phased /\ LateItem(r, i)  BY <1>3, <1>5, <2>1 DEF ItemInv
    <2>3. Parent[i.orb] \notin Phased /\ i.orb \in Children(Parent[i.orb])
      BY <1>5, <2>2, ChildFacts DEF Children
    <2>4. ASSUME pc[r] = "ready", NEW j \in CompleteRoots(store), j.orb = Parent[i.orb]  PROVE FALSE
      <3>1. ChildrenDone(j.orb)  BY <2>3, <2>4, TaskRootsDone DEF AloneInv
      <3>2. store[i.orb].st = "done"  BY <2>3, <2>4, <3>1 DEF ChildrenDone
      <3>3. QED  BY <2>2, <2>4, <3>2 DEF LateItem
    <2>5. QED  BY <1>1, <1>5, <2>1, <2>2, <2>4 DEF LateItem
  <1>6. QED  BY <1>4, <1>5 DEF LateItem

LEMMA TickWriteLate ==
    ASSUME Base, AloneInv, AncestorsInv, NEW r \in Runners, NEW i \in plan[r], TickWrite(r, i),
           NEW j \in plan'[r]
    PROVE  LateItem(r, j)'
  <1> DEFINE o == i.orb  follow == [i EXCEPT !.st = AfterChildren(o)]
  <1>1. i.stage = pc[r] /\ i.st # "error" /\ Put(o, TickRecord(i)) /\ pc' = pc
    BY DEF TickWrite
  <1>2. o \in Orbs /\ i \in Item /\ TickRecord(i).st = i.st
    BY <1>1, ItemRecord DEF AloneInv
  <1>3. \A k \in plan[r] : /\ LateItem(r, k) /\ ItemInv(r, k) /\ k.orb \in Orbs
                           /\ Distinct(i, k)
    BY BaseFacts DEF AncestorsInv, AloneInv, PlanInv, Item
  <1>4. \A x \in Orbs : store'[x].st = IF x = o THEN i.st ELSE store[x].st
    BY <1>1, <1>2, PutPointwise
  <1>5. plan'[r] = (plan[r] \ {i}) \cup
            (IF i.stage = "roots" /\ i.st = "executing_children" THEN {follow} ELSE {})
    BY BaseFacts DEF TickWrite
  <1>6. follow.orb = o /\ follow.stage = i.stage  BY <1>2 DEF Item
  <1> HIDE DEF follow
  <1>7. CASE j \in plan[r] /\ j # i
    <2>1. store'[j.orb].st = "done" => j.stage = "waiting" /\ pc'[r] \in {"roots", "waiting"}
      <3>1. CASE j.orb # o  BY <1>1, <1>3, <1>4, <1>7, <3>1 DEF LateItem
      <3>2. CASE j.orb = o
        <4>1. {i.stage, j.stage} = {"roots", "waiting"}
          BY <1>3, <1>7, <3>2 DEF Distinct
        <4>2. i.stage = "waiting" => j.stage = "waiting"
          BY <1>1, <1>3, <1>7 DEF ItemInv, Left
        <4>3. QED  BY <1>1, <4>1, <4>2
      <3>3. QED  BY <3>1, <3>2
    <2>2. ASSUME j.stage = "waiting", Parent[j.orb] # NoOrb
          PROVE  /\ store'[Parent[j.orb]].st # "done"
                 /\ \A k \in plan'[r] : k.orb = Parent[j.orb] => k.st # "done"
      <3>1. j.orb \in Phased /\ j.orb \in Orbs /\ LateItem(r, j)  BY <1>3, <1>7, <2>2 DEF ItemInv
      <3>2. Parent[j.orb] \notin Phased /\ Parent[j.orb] \in Orbs
        BY <2>2, <3>1, ChildFacts, QueueAssumption DEF QueueAssumption, Children
      <3>3. /\ store[Parent[j.orb]].st # "done"
            /\ \A k \in plan[r] : k.orb = Parent[j.orb] => k.st # "done"
        BY <2>2, <3>1 DEF LateItem
      <3>4. i.st = "executing_children" => o \in Phased  BY <1>3 DEF ItemInv
      <3>5. QED  BY <1>4, <1>5, <1>6, <3>2, <3>3, <3>4
    <2>3. QED  BY <2>1, <2>2 DEF LateItem
  <1>8. CASE j = follow /\ i.stage = "roots" /\ i.st = "executing_children"
    <2>1. store'[j.orb].st # "done" /\ j.stage # "waiting"  BY <1>2, <1>4, <1>6, <1>8
    <2>2. QED  BY <2>1 DEF LateItem
  <1>9. QED  BY <1>5, <1>7, <1>8

\* Any other step plans nothing, and does not set an orb to Done that is planned,
\* or a task.
LEMMA OthersLate ==
    ASSUME Base, AloneInv, AncestorsInv, [Next]_vars, NEW r \in Runners,
           ~BeginTick(r), ~NextStage(r), \A i \in plan[r] : ~TickWrite(r, i), NEW i \in plan'[r]
    PROVE  LateItem(r, i)'
  <1>1. \A q \in Runners : q = r  BY OneRunner DEF AloneInv
  <1>2. plan'[r] = {} \/ (plan'[r] \subseteq plan[r] /\ (plan'[r] # {} => pc'[r] = pc[r] \/ plan[r] = {}))
    <2>1. CASE Tick(r)
      <3>1. EndTick(r)  BY <2>1 DEF Tick, TickFails
      <3>2. QED  BY <3>1, BaseFacts DEF EndTick
    <2>2. CASE Dispatch(r)
      <3>1. UNCHANGED plan
        BY <2>2 DEF Dispatch, BeginDispatch, Joined, Abandon, Acquire, Refuse, Admit, ReadChildren, Materialize,
                    Succeed, Finished, Release, runnerVars
      <3>2. pc[r] \notin Stages
        <4>1. pc[r] \in {"dispatch", "join"} \/ \E o \in Orbs : attempt[r][o] # "none"
          BY <2>2 DEF Dispatch, BeginDispatch, Joined, Abandon, Acquire, Refuse, Admit, ReadChildren, Materialize,
                    Succeed, Release
        <4>2. QED  BY <4>1, BaseFacts DEF Stages
      <3>3. QED  BY <3>1, <3>2, NoPlan DEF AloneInv
    <2>3. CASE Disturb(r)
      <3>1. CASE Stop(r) \/ \E j \in plan[r] : HookAborts(r, j)
        BY <3>1, BaseFacts DEF Stop, HookAborts
      <3>2. CASE Crash(r) \/ TickBreaks(r)
        BY <3>2, BaseFacts DEF Crash, TickBreaks, EndTick
      <3>3. CASE \E o \in Orbs : SetBack(r, o) \/ SpawnAborts(r, o) \/ DispatchError(r, o)
        BY <3>3 DEF SetBack, Finished, SpawnAborts, DispatchError, runnerVars
      <3>4. CASE Start(r) \/ FatalError(r)
        <4>1. UNCHANGED plan  BY <3>4 DEF Start, FatalError
        <4>2. pc[r] \notin Stages
          <5>1. pc[r] \in {"down", "dispatch"} \/ \E o \in Orbs : attempt[r][o] # "none"
            BY <3>4 DEF Start, FatalError
          <5>2. QED  BY <5>1, BaseFacts DEF Stages
        <4>3. QED  BY <4>1, <4>2, NoPlan DEF AloneInv
      <3>5. QED  BY <2>3, <3>1, <3>2, <3>3, <3>4 DEF Disturb
    <2>4. CASE Exit(r)
      <3>1. UNCHANGED plan /\ pc[r] \notin Stages  BY <2>4 DEF Exit, Stages
      <3>2. QED  BY <3>1, NoPlan DEF AloneInv
    <2>5. CASE (\E o \in Orbs : Operator(o) \/ OrphanExits(o)) \/ UNCHANGED vars
      BY <2>5 DEF Operator, Approve, Reject, Revise, Reset, EditStatus, Delete, OperatorPut,
                     ArchiveClaim, OrphanExits, vars, runnerVars
    <2>6. QED  BY <1>1, <2>1, <2>2, <2>3, <2>4, <2>5 DEF Next
  <1>3. i \in plan[r] /\ pc'[r] = pc[r] /\ plan'[r] \subseteq plan[r]  BY <1>2
  <1>4. ItemInv(r, i) /\ LateItem(r, i) /\ i.orb \in Orbs
    BY <1>3, BaseFacts DEF AloneInv, PlanInv, AncestorsInv, Item
  <1>5. \A o \in Orbs : attempt[r][o] \notin AtWork
    BY <1>3, TaskMeansNoPlan DEF AloneInv, AtWork
  <1>6. ASSUME NEW x \in Orbs, store'[x] # store[x]
        PROVE  store[x].st \in {"absent", "review", "failed"} /\ (x \notin Phased => store'[x].st # "done")
    <2>1. WrittenBy(x)  BY <1>6, WhoWrites DEF AloneInv, Alone
    <2>2. x \notin Phased => store[x].st # "review"
      BY DEF AloneInv, OrbsInv, OrbInv, PlainStates
    <2>3. QED  BY <1>1, <1>5, <2>1, <2>2 DEF WrittenBy
  <1>7. store'[i.orb] = store[i.orb]  BY <1>4, <1>6 DEF ItemInv
  <1>8. ASSUME i.stage = "waiting", Parent[i.orb] # NoOrb
        PROVE  store'[Parent[i.orb]].st # "done"
    <2>1. i.orb \in Phased  BY <1>4, <1>8 DEF ItemInv
    <2>2. Parent[i.orb] \notin Phased /\ Parent[i.orb] \in Orbs
      BY <1>4, <1>8, <2>1, ChildFacts, QueueAssumption DEF QueueAssumption, Children
    <2>3. QED  BY <1>4, <1>6, <1>8, <2>2 DEF LateItem
  <1>9. QED  BY <1>3, <1>4, <1>7, <1>8 DEF LateItem

LEMMA AncestorsStep ==
    ASSUME Base, Base', AloneInv, AncestorsInv, [Next]_vars  PROVE  AncestorsInv'
  <1>1. AloneInv'  BY AloneStep
  <1>2. ASSUME NEW o \in Orbs, store'[o].st = "done"  PROVE ChildrenDone(o)'
    <2>1. CASE o \in Phased  BY <1>1, <1>2, <2>1 DEF AloneInv, OrbsInv, OrbInv
    <2>2. CASE o \notin Phased
      <3>1. CASE store[o].st = "done"
        BY <3>1, ChildrenStayDone DEF AncestorsInv
      <3>2. CASE store[o].st # "done"  BY <1>2, <2>2, <3>2, TaskDone
      <3>3. QED  BY <3>1, <3>2
    <2>3. QED  BY <2>1, <2>2
  <1>3. ASSUME NEW r \in Runners, NEW i \in plan'[r]
        PROVE  (i.orb \notin Phased /\ i.st = "done" => ChildrenDone(i.orb)') /\ LateItem(r, i)'
    <2>1. i.orb \in Orbs
      <3>1. \A q \in Runners : \A j \in plan'[q] : j.orb \in Orbs
        BY DEF Base, MarkerInv, PlanOK, Item
      <3>2. QED  BY <3>1
    <2>2. ASSUME i.orb \notin Phased, i.st = "done"  PROVE ChildrenDone(i.orb)'
      <3>1. CASE i \in plan[r]
        <4>1. ChildrenDone(i.orb) /\ PlannedDone(i.orb)
          BY <2>2, <3>1 DEF AncestorsInv, PlannedDone
        <4>2. QED  BY <2>1, <4>1, ChildrenStayDone
      <3>2. CASE i \in CompleteRoots(store) /\ store' = store
        <4>1. ChildrenDone(i.orb)  BY <2>2, <3>2, TaskRootsDone DEF AloneInv
        <4>2. QED  BY <3>2, <4>1 DEF ChildrenDone
      <3>3. QED  BY <2>2, <3>1, <3>2, WhoPlans
    <2>3. LateItem(r, i)'  BY BeginTickLate, NextStageLate, TickWriteLate, OthersLate
    <2>4. QED  BY <2>2, <2>3
  <1>4. ASSUME NEW r \in Runners, NEW o \in Orbs, Executing(r, o)', NEW p \in Ancestors[o]
        PROVE  store'[p].st \notin {"absent", "tombstone", "failed", "cancelled", "speccing",
                                    "decomposing", "refining", "review", "reevaluating"}
    <2>1. p \in Orbs  BY AncestorsAreOrbs
    <2>2. CASE Admit(r, o)
      <3>1. store' = store /\ Eligible(store, o, copy[r][o].st)  BY <2>2 DEF Admit, KeepStore
      <3>2. Releases(store, p)  BY <3>1 DEF Eligible, BlockedByParentReview
      <3>3. OrbInv(p)  BY <2>1 DEF AloneInv, OrbsInv
      <3>4. QED
        BY <3>1, <3>2, <3>3 DEF Releases, ReleasedPhases, Visible, Hidden, OrbInv, PlainStates
    <2>3. CASE Executing(r, o)
      <3>1. store[p].st \notin {"absent", "tombstone", "failed", "cancelled", "speccing",
                                "decomposing", "refining", "review", "reevaluating"}
        BY <2>3 DEF AncestorsInv, AncestorsReleasedWhileExecuting
      <3>2. \A q \in Runners : attempt[q][p] \notin AtWork  BY <2>3, AncestorsRest
      <3>3. \A q \in Runners : plan[q] = {}
        BY <2>3, OneRunner, TaskMeansNoPlan DEF AloneInv, Executing
      <3>4. ~WrittenBy(p)  BY <3>1, <3>2, <3>3 DEF WrittenBy
      <3>5. store'[p] = store[p]  BY <2>1, <3>4, WhoWrites DEF AloneInv, Alone
      <3>6. QED  BY <3>1, <3>5
    <2>4. QED  BY <1>4, <2>2, <2>3, WhoExecutes
  <1>5. AncestorsReleasedWhileExecuting'  BY <1>4 DEF AncestorsReleasedWhileExecuting
  <1>6. QED  BY <1>2, <1>3, <1>5 DEF AncestorsInv

\* With one runner: while a worker implements an orb, no ancestor, however far up, is planned,
\* reviewed, re-evaluated, failed or cancelled, although the ancestors were only
\* read once, before the worker started.
THEOREM AncestorsStayReleased ==
    ASSUME Alone  PROVE  Spec => []AncestorsReleasedWhileExecuting
  <1>1. Init => AncestorsInv
    <2>1. SUFFICES ASSUME Init PROVE AncestorsInv  OBVIOUS
    <2>2. \A o \in Orbs : store[o].st # "done"
      <3>1. \A o \in Orbs : store[o] = Fresh(IF o \in Planned THEN "absent" ELSE "pending")
        BY <2>1 DEF Init
      <3>2. \A st : Fresh(st).st = st  BY DEF Fresh
      <3>3. QED  BY <3>1, <3>2
    <2>3. \A r \in Runners, o \in Orbs : ~Executing(r, o)  BY <2>1 DEF Init, Executing
    <2>4. \A r \in Runners : plan[r] = {}  BY <2>1 DEF Init
    <2>5. QED  BY <2>2, <2>3, <2>4 DEF AncestorsInv, AncestorsReleasedWhileExecuting
  <1>2. Base /\ Base' /\ AloneInv /\ AncestorsInv /\ [Next]_vars => AncestorsInv'
    BY AncestorsStep
  <1>3. AncestorsInv => AncestorsReleasedWhileExecuting  BY DEF AncestorsInv
  <1>4. Spec => []Base  BY BaseIsInvariant
  <1>5. Spec => []AloneInv  BY AloneIsInvariant
  <1>6. QED  BY <1>1, <1>2, <1>3, <1>4, <1>5, PTL DEF Spec

-----------------------------------------------------------------------------

\* As long as nothing fails, whoever has a claim is there to release it.
ClaimsAreHeld == faults = 0 => \A o \in claims : \E r \in Runners : Holds(r, o)

\* A task that goes on with its claim, or leaves and gives it up, leaves the others held.
LEMMA TaskStepKeepsHeld ==
    ASSUME Base, ClaimsAreHeld, UNCHANGED faults,
           NEW r \in Runners, NEW o \in Orbs, NEW a \in Attempts, At(r, o, a),
           \/ a \in Holding /\ claims' \in {claims, claims \cup {o}}
           \/ claims' = claims \ {o}
           \/ ~Holds(r, o) /\ claims' = claims
    PROVE  ClaimsAreHeld'
  <1>1. \A q \in Runners, x \in Orbs :
           attempt'[q][x] = IF q = r /\ x = o THEN a ELSE attempt[q][x]
    BY AtPointwise DEF Base, ClaimsInv
  <1>2. \A q \in Runners, x \in Orbs : Holds(q, x) /\ x # o => Holds(q, x)'
    BY <1>1 DEF Holds
  <1>3. a \in Holding => Holds(r, o)'  BY <1>1 DEF Holds
  <1>4. ~Holds(r, o) => \A q \in Runners : Holds(q, o) => Holds(q, o)'  BY <1>1 DEF Holds
  <1>5. SUFFICES ASSUME faults' = 0, NEW x \in claims'
                 PROVE  \E q \in Runners : Holds(q, x)'
    BY DEF ClaimsAreHeld
  <1>6. CASE x = o  BY <1>3, <1>4, <1>5, <1>6 DEF ClaimsAreHeld
  <1>7. CASE x # o
    <2>1. PICK q \in Runners : Holds(q, x)  BY <1>5, <1>7 DEF ClaimsAreHeld
    <2>2. x \in Orbs  BY <1>7 DEF Base, MarkerInv, FilesOK
    <2>3. QED  BY <1>2, <1>7, <2>1, <2>2
  <1>8. QED  BY <1>6, <1>7

LEMMA FaultKeepsHeld == ASSUME Base, Fault PROVE ClaimsAreHeld'
  BY QueueAssumption DEF QueueAssumption, Base, MarkerInv, Counters, Fault, ClaimsAreHeld

LEMMA QuietKeepsHeld ==
    ASSUME ClaimsAreHeld, UNCHANGED <<attempt, faults>>, claims' \subseteq claims
    PROVE  ClaimsAreHeld'
  BY DEF ClaimsAreHeld, Holds

LEMMA StepKeepsHeld == ASSUME Base, ClaimsAreHeld, [Next]_vars PROVE ClaimsAreHeld'
  <1> USE DEF budget
  <1>1. ASSUME NEW r \in Runners, Tick(r) PROVE ClaimsAreHeld'
    BY <1>1, QuietKeepsHeld DEF Tick, BeginTick, NextStage, TickFails, EndTick, TickWrite, dispatchVars
  <1>2. ASSUME NEW r \in Runners, Dispatch(r) PROVE ClaimsAreHeld'
    <2>1. CASE BeginDispatch(r)
      <3>1. pc[r] = "dispatch" /\ UNCHANGED <<claims, faults>>  BY <2>1 DEF BeginDispatch
      <3>2. \A o \in Orbs : ~Holds(r, o)  BY <3>1, BaseFacts DEF Holds, Holding
      <3>3. \A q \in Runners : q # r => attempt'[q] = attempt[q]
        BY <2>1, BaseFacts DEF BeginDispatch
      <3>4. \A q \in Runners, o \in Orbs : Holds(q, o) => Holds(q, o)'  BY <3>2, <3>3 DEF Holds
      <3>5. claims \subseteq Orbs  BY DEF Base, MarkerInv, FilesOK
      <3>6. QED  BY <3>1, <3>4, <3>5 DEF ClaimsAreHeld
    <2>2. CASE Joined(r)  BY <2>2, QuietKeepsHeld DEF Joined, dispatchVars
    <2>3. ASSUME NEW o \in Orbs, Abandon(r, o) \/ Acquire(r, o) PROVE ClaimsAreHeld'
      <3>1. ~Holds(r, o) /\ UNCHANGED faults  BY <2>3 DEF Abandon, Acquire, Holds, Holding
      <3>2. \/ At(r, o, "none") /\ claims' = claims
            \/ At(r, o, "claimed") /\ claims' = claims \cup {o}
        BY <2>3 DEF Abandon, Acquire, Leave
      <3>3. QED  BY <3>1, <3>2, TaskStepKeepsHeld, AttemptNames DEF Holding
    <2>4. ASSUME NEW o \in Orbs, Refuse(r, o) \/ Release(r, o) PROVE ClaimsAreHeld'
      BY <2>4, TaskStepKeepsHeld, AttemptNames DEF Refuse, Release, Leave
    <2>5. ASSUME NEW o \in Orbs, Admit(r, o) \/ ReadChildren(r, o) \/ Succeed(r, o)
          PROVE  ClaimsAreHeld'
      <3>1. \E a \in {"working", "materializing", "written"} :
                At(r, o, a) /\ UNCHANGED <<claims, faults>>
        BY <2>5 DEF Admit, ReadChildren, Succeed, Finished
      <3>2. QED  BY <3>1, TaskStepKeepsHeld, AttemptNames DEF Holding
    <2>6. CASE \E o \in Orbs : Materialize(r, o)
      BY <2>6, QuietKeepsHeld DEF Materialize
    <2>7. QED  BY <1>2, <2>1, <2>2, <2>3, <2>4, <2>5, <2>6 DEF Dispatch
  <1>3. ASSUME NEW r \in Runners, Disturb(r) PROVE ClaimsAreHeld'
    <2>1. CASE Stop(r) \/ Start(r) \/ \E i \in plan[r] : HookAborts(r, i)
      BY <2>1, QuietKeepsHeld DEF Stop, Start, HookAborts, Move, Setback, dispatchVars
    <2>2. CASE Crash(r) \/ FatalError(r) \/ TickBreaks(r) \/ \E o \in Orbs : DispatchError(r, o)
      BY <2>2, FaultKeepsHeld DEF Crash, FatalError, TickBreaks, DispatchError
    <2>3. ASSUME NEW o \in Orbs, SetBack(r, o) \/ SpawnAborts(r, o) PROVE ClaimsAreHeld'
      <3>1. At(r, o, "written") /\ UNCHANGED <<claims, faults>>
        BY <2>3 DEF SetBack, SpawnAborts, Finished, Setback
      <3>2. QED  BY <3>1, TaskStepKeepsHeld, AttemptNames DEF Holding
    <2>4. QED  BY <1>3, <2>1, <2>2, <2>3 DEF Disturb
  <1>4. ASSUME NEW o \in Orbs, Operator(o) PROVE ClaimsAreHeld'
    BY <1>4, QuietKeepsHeld
       DEF Operator, Approve, Reject, Revise, Reset, EditStatus, Delete, OperatorPut, ArchiveClaim,
           Move, dispatchVars
  <1>5. CASE \/ \E r \in Runners : Exit(r)
             \/ \E o \in Orbs : OrphanExits(o)
             \/ UNCHANGED vars
    BY <1>5, QuietKeepsHeld DEF Exit, OrphanExits, vars, dispatchVars
  <1>6. QED  BY <1>1, <1>2, <1>3, <1>4, <1>5 DEF Next

\* For any number of runners, operators and setbacks: an orb is quarantined only by a
\* crash or an error.  Without one, every claim file has a task that will archive it, so
\* a refused, failed, rejected or aborted attempt never keeps its orb from the next round.
THEOREM ClaimsAreNotLeaked == Spec => []ClaimsAreHeld
  <1>1. Init => ClaimsAreHeld  BY DEF Init, ClaimsAreHeld
  <1>2. Base /\ ClaimsAreHeld /\ [Next]_vars => ClaimsAreHeld'  BY StepKeepsHeld
  <1>3. QED  BY <1>1, <1>2, BaseIsInvariant, PTL DEF Spec

-----------------------------------------------------------------------------

\* An orb may be in a state, or be put there, only if its children exist where the
\* state says that they do.
Backed(o, st) == o \in Phased /\ st \notin Unbuilt => Whole(o)

\* So it is of everything that a write can come from: the store, the evidence of a
\* reset, the snapshots of a tick and the copies of the tasks.
StoreBacked == \A o \in Orbs : Backed(o, store[o].st) /\ Backed(o, history[o])
PlanBacked == \A r \in Runners : \A i \in plan[r] : i.st # "absent" /\ Backed(i.orb, i.st)
TasksBacked == \A r \in Runners, o \in Orbs : attempt[r][o] # "none" => Backed(o, copy[r][o].st)
GraphInv == StoreBacked /\ PlanBacked /\ TasksBacked

\* A phase orb that is past Decomposing has a record of every child of its plan.
GraphStaysWhole == \A o \in Phased : store[o].st \notin Unbuilt => Whole(o)

\* No record is ever taken back: a deleted orb leaves a tombstone.
OrbsStay == \A o \in Orbs : store[o].st # "absent" => store'[o].st # "absent"

LEMMA WholeStays == ASSUME OrbsStay, NEW o \in Phased, Whole(o) PROVE Whole(o)'
  BY ChildFacts DEF OrbsStay, Whole

LEMMA StoreKept ==
    ASSUME StoreBacked, KeepStore PROVE OrbsStay /\ StoreBacked'
  BY DEF KeepStore, OrbsStay, StoreBacked, Backed, Whole

LEMMA PlanKept ==
    ASSUME PlanBacked, OrbsStay, \A r \in Runners : plan'[r] \subseteq plan[r] PROVE PlanBacked'
  BY WholeStays DEF PlanBacked, Backed

LEMMA TasksKept ==
    ASSUME TasksBacked, OrbsStay,
           \A r \in Runners, o \in Orbs : attempt'[r][o] # "none" =>
               attempt[r][o] # "none" /\ copy'[r][o] = copy[r][o]
    PROVE  TasksBacked'
  BY WholeStays DEF TasksBacked, Backed

\* One record is written, that is backed.
LEMMA WriteBacked ==
    ASSUME Base, StoreBacked, NEW o \in Orbs, NEW rec, Put(o, rec), rec.st # "absent",
           Backed(o, rec.st)
    PROVE  OrbsStay /\ StoreBacked'
  <1>1. /\ \A x \in Orbs : store'[x] = IF x = o THEN rec ELSE store[x]
        /\ \A x \in Orbs : history'[x] =
              IF x = o /\ o \in Phased /\ rec.st # "failed" THEN rec.st ELSE history[x]
    BY PutPointwise
  <1>2. OrbsStay  BY <1>1 DEF OrbsStay
  <1>3. \A x \in Phased : Whole(x) => Whole(x)'  BY <1>2, WholeStays
  <1>4. QED  BY <1>1, <1>2, <1>3 DEF StoreBacked, Backed

\* What a tick plans is backed by the store it reads.
LEMMA ItemsBacked ==
    ASSUME StoreBacked,
           NEW i \in StartPipelines(store) \cup ExecuteReady(store)
                        \cup ReevaluateWaiting(store) \cup CompleteRoots(store)
    PROVE  i.st # "absent" /\ Backed(i.orb, i.st)
  <1>1. \A g, o, st : Do(g, store, o, st).st = st /\ Do(g, store, o, st).orb = o  BY DEF Do
  <1>2. \A o \in Phased : store[o].st \in {"waiting", "executing_children"} => Whole(o)
    BY ChildFacts DEF StoreBacked, Backed, Unbuilt
  <1>3. CASE i \in StartPipelines(store)
    BY <1>1, <1>3 DEF StartPipelines, Backed, Unbuilt
  <1>4. CASE i \in ExecuteReady(store)
    BY <1>1, <1>2, <1>4 DEF ExecuteReady, Backed
  <1>5. CASE i \in ReevaluateWaiting(store)
    BY <1>1, <1>2, <1>5 DEF ReevaluateWaiting, Backed
  <1>6. CASE i \in CompleteRoots(store)
    BY <1>1, <1>2, <1>6 DEF CompleteRoots, AfterChildren, Backed
  <1>7. QED  BY <1>3, <1>4, <1>5, <1>6

LEMMA TickKeepsGraph ==
    ASSUME Base, GraphInv, NEW r \in Runners, Tick(r) PROVE OrbsStay /\ GraphInv'
  <1> USE DEF GraphInv
  <1>1. UNCHANGED <<attempt, copy>>
    BY DEF Tick, BeginTick, NextStage, TickFails, EndTick, TickWrite, dispatchVars
  <1>2. CASE BeginTick(r) \/ NextStage(r)
    <2>1. OrbsStay /\ StoreBacked'  BY <1>2, StoreKept DEF BeginTick, NextStage
    <2>2. \A i \in plan'[r] : i \in plan[r] \/ (i.st # "absent" /\ Backed(i.orb, i.st))
      BY <1>2, BaseFacts, ItemsBacked DEF BeginTick, NextStage
    <2>3. \A q \in Runners : q # r => plan'[q] = plan[q]
      BY <1>2, BaseFacts DEF BeginTick, NextStage
    <2>4. PlanBacked'  BY <2>1, <2>2, <2>3, WholeStays DEF PlanBacked, Backed
    <2>5. QED  BY <1>1, <2>1, <2>4, TasksKept
  <1>3. CASE TickFails(r)
    <2>1. OrbsStay /\ StoreBacked'  BY <1>3, StoreKept DEF TickFails, EndTick
    <2>2. PlanBacked'  BY <1>3, <2>1, BaseFacts, PlanKept DEF TickFails, EndTick
    <2>3. QED  BY <1>1, <2>1, <2>2, TasksKept
  <1>4. ASSUME NEW i \in plan[r], TickWrite(r, i) PROVE OrbsStay /\ GraphInv'
    <2>1. /\ i \in Item /\ i.orb \in Orbs /\ i.from \in Record
          /\ i.st # "absent" /\ Backed(i.orb, i.st)
      BY BaseFacts DEF Item, PlanBacked
    <2>2. TickRecord(i).st = i.st  BY <2>1 DEF TickRecord, Record
    <2>3. OrbsStay /\ StoreBacked'  BY <1>4, <2>1, <2>2, WriteBacked DEF TickWrite
    <2> DEFINE follow == [i EXCEPT !.st = AfterChildren(i.orb)]
    <2>4. follow.orb = i.orb /\ follow.st \in {"executing", "done"}
      BY <2>1 DEF Item, AfterChildren
    <2>5. \A j \in plan'[r] : j \in plan[r] \/ (j = follow /\ i.st = "executing_children")
      BY <1>4, BaseFacts DEF TickWrite
    <2>6. \A q \in Runners : q # r => plan'[q] = plan[q]  BY <1>4, BaseFacts DEF TickWrite
    <2>7. i.st = "executing_children" => Backed(i.orb, follow.st)
      BY <2>1, <2>4 DEF Backed, Unbuilt
    <2> HIDE DEF follow
    <2>8. PlanBacked'
      <3>1. ASSUME NEW j \in plan'[r] PROVE j.st # "absent" /\ Backed(j.orb, j.st)
        BY <2>4, <2>5, <2>7 DEF PlanBacked
      <3>2. QED  BY <2>3, <2>6, <3>1, WholeStays DEF PlanBacked, Backed
    <2>9. QED  BY <1>1, <2>3, <2>8, TasksKept
  <1>5. QED  BY <1>2, <1>3, <1>4 DEF Tick

\* What an episode of an orb leaves behind is backed, if what it was given is and a
\* decomposition has made every child.
LEMMA OutcomeBacked ==
    ASSUME NEW o \in Orbs, NEW rec \in Record, rec.st \in Targets, Backed(o, rec.st),
           o \in Phased /\ rec.st = "decomposing" => Whole(o),
           NEW st \in NextOnSuccess(rec.st) \cup NextOnSetback(rec.st)
    PROVE  After(rec, st).st # "absent" /\ Backed(o, After(rec, st).st)
  <1>1. After(rec, st).st = st  BY DEF After
  <1>2. st # "absent"
    BY DEF NextOnSuccess, NextOnSetback, Targets, WorkPhases
  <1>3. ASSUME o \in Phased, st \notin Unbuilt PROVE Whole(o)
    <2>1. CASE rec.st = "decomposing"
      BY <1>3, <2>1
    <2>2. CASE rec.st = "speccing"
      BY <1>3, <2>2 DEF NextOnSuccess, NextOnSetback, Unbuilt
    <2>3. CASE rec.st \notin {"speccing", "decomposing"}
      BY <1>3, <2>3 DEF Backed, Unbuilt, Targets, WorkPhases
    <2>4. QED  BY <2>1, <2>2, <2>3
  <1>4. QED  BY <1>1, <1>2, <1>3 DEF Backed

LEMMA EpisodeKeepsGraph ==
    ASSUME Base, GraphInv, NEW r \in Runners, NEW o \in Orbs,
           Succeed(r, o) \/ SetBack(r, o) \/ SpawnAborts(r, o)
    PROVE  OrbsStay /\ GraphInv'
  <1> DEFINE rec == copy[r][o]
  <1>1. /\ attempt[r][o] # "none" /\ At(r, o, "written") /\ UNCHANGED <<copy, plan>>
        /\ rec \in Record /\ rec.st \in Targets /\ Backed(o, rec.st)
    BY BaseFacts DEF Succeed, SetBack, SpawnAborts, Finished, runnerVars, GraphInv, TasksBacked
  <1>2. \E out : Put(o, out) /\ out.st # "absent" /\ Backed(o, out.st)
    <2>1. CASE Succeed(r, o)
      <3>1. PICK st \in NextOnSuccess(rec.st) : Finished(r, o, st)  BY <2>1 DEF Succeed
      <3>2. o \in Phased /\ rec.st = "decomposing" => Whole(o)  BY <2>1, DecomposedIsWhole
      <3>3. QED  BY <1>1, <3>1, <3>2, OutcomeBacked DEF Finished
    <2>2. CASE SetBack(r, o)
      <3>1. PICK st \in NextOnSetback(rec.st) : Finished(r, o, st)  BY <2>2 DEF SetBack
      <3>2. CASE rec.st # "decomposing"  BY <1>1, <3>1, <3>2, OutcomeBacked DEF Finished
      <3>3. CASE rec.st = "decomposing"
        <4>1. st \in {"failed", "cancelled"}  BY <3>3 DEF NextOnSetback
        <4>2. QED  BY <3>1, <4>1 DEF Finished, After, Backed, Unbuilt
      <3>4. QED  BY <3>2, <3>3
    <2>3. CASE SpawnAborts(r, o)
      BY <1>1, <2>3 DEF SpawnAborts, Targets, WorkPhases
    <2>4. QED  BY <2>1, <2>2, <2>3
  <1>3. OrbsStay /\ StoreBacked'  BY <1>2, WriteBacked DEF GraphInv
  <1>4. PlanBacked'  BY <1>1, <1>3, PlanKept DEF GraphInv
  <1>5. TasksBacked'
    <2>1. \A q \in Runners, x \in Orbs : attempt'[q][x] # "none" => attempt[q][x] # "none"
      BY <1>1, AttemptNames, AtPointwise DEF Base, ClaimsInv, Holding
    <2>2. QED  BY <1>1, <1>3, <2>1, TasksKept DEF GraphInv
  <1>6. QED  BY <1>3, <1>4, <1>5 DEF GraphInv

\* A task goes on or leaves, and the store is left alone.
LEMMA TaskKeepsGraph ==
    ASSUME Base, GraphInv, KeepStore, UNCHANGED plan,
           \A q \in Runners, x \in Orbs : attempt'[q][x] # "none" =>
               \/ attempt[q][x] # "none" /\ copy'[q][x] = copy[q][x]
               \/ copy'[q][x] = store[x]
    PROVE  OrbsStay /\ GraphInv'
  <1>1. OrbsStay /\ StoreBacked'  BY StoreKept DEF GraphInv
  <1>2. PlanBacked'  BY <1>1, PlanKept DEF GraphInv
  <1>3. TasksBacked'
    BY <1>1, WholeStays DEF GraphInv, StoreBacked, TasksBacked, Backed
  <1>4. QED  BY <1>1, <1>2, <1>3 DEF GraphInv

LEMMA LeavePointwise ==
    ASSUME Base, NEW r \in Runners, NEW o \in Orbs, Leave(r, o)
    PROVE  \A q \in Runners, x \in Orbs : attempt'[q][x] # "none" =>
               attempt[q][x] # "none" /\ copy'[q][x] = copy[q][x]
  <1>1. \A q \in Runners, x \in Orbs :
           attempt'[q][x] = IF q = r /\ x = o THEN "none" ELSE attempt[q][x]
    BY AtPointwise, AttemptNames DEF Leave, Base, ClaimsInv
  <1>2. \A q \in Runners, x \in Orbs : ~(q = r /\ x = o) => copy'[q][x] = copy[q][x]
    BY BaseFacts DEF Leave
  <1>3. QED  BY <1>1, <1>2

LEMMA DispatchKeepsGraph ==
    ASSUME Base, GraphInv, NEW r \in Runners, Dispatch(r) PROVE OrbsStay /\ GraphInv'
  <1>1. CASE BeginDispatch(r)
    <2>1. PICK targets \in SUBSET Orbs :
             /\ attempt' = [attempt EXCEPT ![r] = [o \in Orbs |-> IF o \in targets THEN "queued" ELSE "none"]]
             /\ copy' = [copy EXCEPT ![r] = [o \in Orbs |-> IF o \in targets THEN store[o] ELSE NoCopy]]
      BY <1>1 DEF BeginDispatch, DispatchTargets
    <2>2. KeepStore /\ UNCHANGED plan  BY <1>1 DEF BeginDispatch
    <2>3. ASSUME NEW q \in Runners, NEW x \in Orbs, attempt'[q][x] # "none"
          PROVE  (attempt[q][x] # "none" /\ copy'[q][x] = copy[q][x]) \/ copy'[q][x] = store[x]
      BY <2>1, <2>3, BaseFacts
    <2>4. QED  BY <2>2, <2>3, TaskKeepsGraph
  <1>2. CASE Joined(r)
    BY <1>2, TaskKeepsGraph DEF Joined, dispatchVars
  <1>3. ASSUME NEW o \in Orbs, Abandon(r, o) \/ Acquire(r, o) \/ Refuse(r, o) \/ Release(r, o)
        PROVE  OrbsStay /\ GraphInv'
    <2>1. KeepStore /\ UNCHANGED plan
      BY <1>3 DEF Abandon, Acquire, Refuse, Release, runnerVars
    <2>2. Leave(r, o) \/ (attempt[r][o] # "none" /\ At(r, o, "claimed") /\ UNCHANGED copy)
      BY <1>3 DEF Abandon, Acquire, Refuse, Release
    <2>3. CASE Leave(r, o)  BY <2>1, <2>3, LeavePointwise, TaskKeepsGraph
    <2>4. CASE attempt[r][o] # "none" /\ At(r, o, "claimed") /\ UNCHANGED copy
      <3>1. \A q \in Runners, x \in Orbs : attempt'[q][x] # "none" => attempt[q][x] # "none"
        BY <2>4, AttemptNames, AtPointwise DEF Base, ClaimsInv, Holding
      <3>2. QED  BY <2>1, <2>4, <3>1, TaskKeepsGraph
    <2>5. QED  BY <2>2, <2>3, <2>4
  <1>4. ASSUME NEW o \in Orbs, Admit(r, o) PROVE OrbsStay /\ GraphInv'
    <2>1. /\ At(r, o, "working") /\ copy' = [copy EXCEPT ![r][o] = store[o]]
          /\ KeepStore /\ UNCHANGED plan
      BY <1>4 DEF Admit, runnerVars
    <2>2. \A q \in Runners, x \in Orbs :
             attempt'[q][x] = IF q = r /\ x = o THEN "working" ELSE attempt[q][x]
      BY <2>1, AttemptNames, AtPointwise DEF Base, ClaimsInv, Holding
    <2>3. \A q \in Runners, x \in Orbs :
             copy'[q][x] = IF q = r /\ x = o THEN store[o] ELSE copy[q][x]
      BY <2>1, BaseFacts
    <2>4. QED  BY <2>1, <2>2, <2>3, TaskKeepsGraph
  <1>5. ASSUME NEW o \in Orbs, Materialize(r, o) PROVE OrbsStay /\ GraphInv'
    <2>1. PICK c \in Orbs : Put(c, Fresh("pending"))  BY <1>5 DEF Materialize, Children
    <2>2. OrbsStay /\ StoreBacked'
      BY <2>1, WriteBacked DEF GraphInv, Fresh, Backed, Unbuilt
    <2>3. UNCHANGED <<attempt, copy, plan>>
      BY <1>5 DEF Materialize, runnerVars
    <2>4. QED  BY <2>2, <2>3, PlanKept, TasksKept DEF GraphInv
  <1>6. ASSUME NEW o \in Orbs, Succeed(r, o) PROVE OrbsStay /\ GraphInv'
    BY <1>6, EpisodeKeepsGraph
  <1>7. ASSUME NEW o \in Orbs, ReadChildren(r, o) PROVE OrbsStay /\ GraphInv'
    <2>1. /\ KeepStore /\ UNCHANGED <<copy, plan>>
          /\ attempt[r][o] # "none" /\ At(r, o, "materializing")
      BY <1>7 DEF ReadChildren, runnerVars
    <2>2. \A q \in Runners, x \in Orbs : attempt'[q][x] # "none" => attempt[q][x] # "none"
      BY <2>1, AttemptNames, AtPointwise DEF Base, ClaimsInv, Holding
    <2>3. QED  BY <2>1, <2>2, TaskKeepsGraph
  <1>8. QED  BY <1>1, <1>2, <1>3, <1>4, <1>5, <1>6, <1>7 DEF Dispatch

LEMMA DisturbKeepsGraph ==
    ASSUME Base, GraphInv, NEW r \in Runners, Disturb(r) PROVE OrbsStay /\ GraphInv'
  <1>1. CASE \/ Stop(r) \/ Start(r) \/ TickBreaks(r)
             \/ \E i \in plan[r] : HookAborts(r, i)
    <2>1. KeepStore /\ UNCHANGED <<attempt, copy>>
      BY <1>1 DEF Stop, Start, TickBreaks, EndTick, HookAborts, dispatchVars
    <2>2. \A q \in Runners : plan'[q] \subseteq plan[q]
      BY <1>1, BaseFacts DEF Stop, Start, TickBreaks, EndTick, HookAborts
    <2>3. QED  BY <2>1, <2>2, StoreKept, PlanKept, TasksKept DEF GraphInv
  <1>2. CASE Crash(r) \/ FatalError(r)
    <2>1. KeepStore /\ DropTasks(r)  BY <1>2 DEF Crash, FatalError
    <2>2. \A q \in Runners : plan'[q] \subseteq plan[q]
      BY <1>2, BaseFacts DEF Crash, FatalError
    <2>3. \A q \in Runners, x \in Orbs : attempt'[q][x] # "none" =>
              attempt[q][x] # "none" /\ copy'[q][x] = copy[q][x]
      BY <2>1, BaseFacts DEF DropTasks
    <2>4. QED  BY <2>1, <2>2, <2>3, StoreKept, PlanKept, TasksKept DEF GraphInv
  <1>3. ASSUME NEW o \in Orbs, DispatchError(r, o) PROVE OrbsStay /\ GraphInv'
    BY <1>3, LeavePointwise, TaskKeepsGraph DEF DispatchError, runnerVars
  <1>4. ASSUME NEW o \in Orbs, SetBack(r, o) \/ SpawnAborts(r, o) PROVE OrbsStay /\ GraphInv'
    BY <1>4, EpisodeKeepsGraph
  <1>5. QED  BY <1>1, <1>2, <1>3, <1>4 DEF Disturb

\* A review, and the evidence that a reset restores, are of an orb with its children.
LEMMA OperatorKeepsGraph ==
    ASSUME Base, GraphInv, NEW o \in Orbs, Operator(o) PROVE OrbsStay /\ GraphInv'
  <1>1. UNCHANGED <<plan, attempt, copy>>
    BY DEF Operator, Approve, Reject, Revise, Reset, EditStatus, Delete, OperatorPut, ArchiveClaim,
           runnerVars, dispatchVars
  <1>2. OrbsStay /\ StoreBacked'
    <2>1. CASE ArchiveClaim(o)  BY <2>1, StoreKept DEF ArchiveClaim, GraphInv
    <2>2. CASE \/ Approve(o) \/ Reject(o) \/ Revise(o) \/ Reset(o) \/ EditStatus(o) \/ Delete(o)
      <3>1. store[o] \in Record /\ Backed(o, store[o].st) /\ Backed(o, history[o])
        BY BaseFacts DEF GraphInv, StoreBacked
      <3>2. store[o].st = "review" => \A st : Backed(o, st)  BY <3>1 DEF Backed, Unbuilt
      <3>3. \E rec : Put(o, rec) /\ rec.st # "absent" /\ Backed(o, rec.st)
        <4>1. CASE Approve(o)
          <5>1. PICK rec \in {[store[o] EXCEPT !.label = FALSE, !.st =
                    IF o \in Phased /\ ~PostCompletionReview(o) THEN "waiting" ELSE "done"]} :
                    Put(o, rec)
            BY <4>1 DEF Approve, OperatorPut
          <5>2. rec.st # "absent"  BY <3>1 DEF Record
          <5>3. QED  BY <3>2, <4>1, <5>1, <5>2 DEF Approve
        <4>2. CASE Reject(o)
          BY <3>1, <3>2, <4>2 DEF Reject, OperatorPut, Record
        <4>3. CASE Revise(o)
          BY <3>2, <4>3 DEF Revise, OperatorPut, Fresh
        <4>4. CASE Reset(o)
          <5>1. PICK p \in RetryPhase(o) : Put(o, Fresh(p))  BY <4>4 DEF Reset, OperatorPut
          <5>2. p # "absent" /\ Backed(o, p)
            BY <3>1 DEF RetryPhase, WorkPhases, Backed
          <5>3. QED  BY <5>1, <5>2 DEF Fresh
        <4>5. CASE EditStatus(o)
          <5>1. o \notin Phased /\ store[o].st \in {"pending", "active", "review"}
            BY <4>5 DEF EditStatus, TaskEdges
          <5>2. PICK st \in TaskEdges[store[o].st] : Put(o, [store[o] EXCEPT !.st = st])
            BY <4>5 DEF EditStatus, OperatorPut
          <5>3. st # "absent"  BY <5>1, <5>2 DEF TaskEdges
          <5>4. QED  BY <3>1, <5>1, <5>2, <5>3 DEF Backed, Record
        <4>6. CASE Delete(o)
          BY <3>1, <4>6 DEF Delete, OperatorPut, Record, Backed, Unbuilt
        <4>7. QED  BY <2>2, <4>1, <4>2, <4>3, <4>4, <4>5, <4>6
      <3>4. QED  BY <3>3, WriteBacked DEF GraphInv
    <2>3. QED  BY <2>1, <2>2 DEF Operator
  <1>3. QED  BY <1>1, <1>2, PlanKept, TasksKept DEF GraphInv

LEMMA StepKeepsGraph == ASSUME Base, GraphInv, [Next]_vars PROVE OrbsStay /\ GraphInv'
  <1>1. CASE \/ \E r \in Runners : Exit(r)
             \/ \E o \in Orbs : OrphanExits(o)
             \/ UNCHANGED vars
    <2>1. KeepStore /\ UNCHANGED <<plan, attempt, copy>>
      BY <1>1 DEF Exit, OrphanExits, KeepStore, vars, runnerVars, dispatchVars
    <2>2. QED  BY <2>1, StoreKept, PlanKept, TasksKept DEF GraphInv
  <1>2. QED
    BY <1>1, TickKeepsGraph, DispatchKeepsGraph, DisturbKeepsGraph, OperatorKeepsGraph DEF Next

LEMMA InitGraph == Init => GraphInv
  <1> SUFFICES ASSUME Init PROVE GraphInv  OBVIOUS
  <1>1. \A o \in Phased : o \notin Planned  BY QueueAssumption DEF QueueAssumption
  <1>2. \A o \in Phased \cap Orbs : store[o].st = "pending" /\ history[o] = "pending"
    BY <1>1 DEF Init, Fresh
  <1>3. StoreBacked  BY <1>2 DEF StoreBacked, Backed, Unbuilt
  <1>4. PlanBacked /\ TasksBacked  BY DEF Init, PlanBacked, TasksBacked
  <1>5. QED  BY <1>3, <1>4 DEF GraphInv

\* For any number of runners, whatever their stale snapshots write and whatever an
\* operator edits or deletes: a phase orb that is past Decomposing has a record of each child
\* of its plan, a tombstone if it was deleted (apply_decomposition before the parent's own
\* record).
THEOREM GraphsStayWhole == Spec => []GraphStaysWhole
  <1>1. Base /\ GraphInv /\ [Next]_vars => GraphInv'  BY StepKeepsGraph
  <1>2. GraphInv => GraphStaysWhole
    BY ChildFacts DEF GraphInv, StoreBacked, Backed, GraphStaysWhole
  <1>3. QED  BY <1>1, <1>2, InitGraph, BaseIsInvariant, PTL DEF Spec

\* And no orb that has been stored is ever without a record again.
THEOREM OrbsAreNeverLost == Spec => [][OrbsStay]_vars
  <1>1. Base /\ GraphInv /\ [Next]_vars => GraphInv' /\ [OrbsStay]_vars  BY StepKeepsGraph
  <1>2. QED  BY <1>1, InitGraph, BaseIsInvariant, PTL DEF Spec
-----------------------------------------------------------------------------
(* Ticks that find the store as they read it.  However many runners there are, *)
(* a step needs no more than that: what the tick of a lone runner is safe from, *)
(* and what goes wrong between two, comes from tick writes alone.              *)

\* The record a planned write should find: the one it was read as or, for the second
\* write of a parent whose children are Done, the one the first has left.
Expected(i) ==
    IF i.orb \in Phased /\ i.stage = "roots" /\ i.from.st = "waiting" /\ i.st # "executing_children"
    THEN [i.from EXCEPT !.st = "executing_children", !.exec = NoWork] ELSE i.from

\* No tick overwrites a record that changed since the tick read it.
FreshTicks == \A r \in Runners : \A i \in plan[r] : TickWrite(r, i) => store[i.orb] = Expected(i)

\* What a planned write was read from, and what no later step takes from it.
AsRead(i) ==
    /\ ~i.from.label
    /\ i.orb \notin Phased =>
           /\ i.from.st \in {"pending", "active"} /\ i.st \in {"active", "done", "error"}
           /\ i.from.st = "active" => Children(i.orb) # {}
    /\ i.orb \in Phased =>
           /\ i.from.st \in {"pending", "waiting", "executing_children"}
           /\ i.st \in {"speccing", "executing", "executing_children", "reevaluating", "done"}
           /\ i.st = "reevaluating" => i.from.st = "waiting" /\ i.stage = "waiting"
           /\ i.st = "done" => i.stage = "roots"
           /\ i.st # "speccing" => Whole(i.orb)
           /\ i.stage = "roots" => ChildrenDone(i.orb) /\ i.st # "speccing"

PlansAsRead == \A r \in Runners : \A i \in plan[r] : AsRead(i)
FreshInv == OrbsInv /\ WorkInv /\ PlansAsRead

LEMMA AsReadStays ==
    ASSUME PlansAsRead, Grows, \A r \in Runners : plan'[r] \subseteq plan[r]
    PROVE  PlansAsRead'
  <1>1. SUFFICES ASSUME NEW r \in Runners, NEW i \in plan'[r]  PROVE AsRead(i)'
    BY DEF PlansAsRead
  <1>2. AsRead(i)  BY DEF PlansAsRead
  <1>3. i.orb \in Phased => (ChildrenDone(i.orb) => ChildrenDone(i.orb)') /\ (Whole(i.orb) => Whole(i.orb)')
    BY GrowingKeeps
  <1>4. QED  BY <1>2, <1>3 DEF AsRead

\* What a tick plans is what it reads.
LEMMA ItemsAsRead ==
    ASSUME Base, OrbsInv,
           NEW i \in StartPipelines(store) \cup ExecuteReady(store) \cup ReevaluateWaiting(store)
                        \cup CompleteRoots(store)
    PROVE  AsRead(i)
  <1>1. CASE i \in CompleteRoots(store)
    <2>1. /\ i.orb \in Orbs /\ i.from = store[i.orb] /\ i.stage = "roots"
          /\ i.orb \in Phased =>
                /\ store[i.orb].st \in {"waiting", "executing_children"} /\ ChildrenDone(i.orb)
                /\ i.st = IF store[i.orb].st = "waiting" THEN "executing_children" ELSE AfterChildren(i.orb)
          /\ i.orb \notin Phased =>
                /\ store[i.orb].st \in {"pending", "active"}
                /\ i.st = IF store[i.orb].st \in {"active", "review"} THEN "done" ELSE "error"
      BY <1>1, RootItems
    <2>2. i.orb \in RootsDone(store)  BY <1>1 DEF CompleteRoots, Do
    <2>3. Children(i.orb) # {}  BY <2>2 DEF RootsDone, VisibleChildren
    <2>4. OrbInv(i.orb)  BY <2>1 DEF OrbsInv
    <2>5. QED  BY <2>1, <2>3, <2>4 DEF AsRead, OrbInv, Unbuilt, AfterChildren
  <1>2. CASE i \in StartPipelines(store) \cup ExecuteReady(store) \cup ReevaluateWaiting(store)
    <2>1. /\ i.orb \in Orbs /\ i.from = store[i.orb]
          /\ \/ i.stage = "start" /\ i.st = "speccing" /\ i.orb \in Phased /\ store[i.orb].st = "pending"
             \/ i.stage = "ready" /\ i.st \in {"executing", "executing_children"} /\ i.orb \in Phased
                /\ store[i.orb].st = "waiting"
             \/ i.stage = "ready" /\ i.st = "active" /\ i.orb \notin Phased /\ store[i.orb].st = "pending"
             \/ i.stage = "waiting" /\ i.st = "reevaluating" /\ i.orb \in Phased
                /\ store[i.orb].st = "waiting"
      BY <1>2, FirstItems
    <2>2. OrbInv(i.orb)  BY <2>1 DEF OrbsInv
    <2>3. QED  BY <2>1, <2>2 DEF AsRead, OrbInv, Unbuilt
  <1>3. QED  BY <1>1, <1>2

\* A fresh write finds an open orb that no task works on.
LEMMA FreshWriteFinds ==
    ASSUME Base, FreshInv, NEW r \in Runners, NEW i \in plan[r], TickWrite(r, i), store[i.orb] = Expected(i)
    PROVE  /\ i.orb \in Orbs /\ TickRecord(i).st = i.st
           /\ store[i.orb].st \in {"pending", "active", "waiting", "executing_children"}
           /\ \A q \in Runners : attempt[q][i.orb] \notin AtWork
           /\ ~accepted[i.orb] /\ Sound(i.orb, TickRecord(i))
           /\ i.st = "reevaluating" => store[i.orb].st = "waiting"
  <1>1. i \in Item /\ i.from.exec = NoWork /\ i.st # "error"
    BY DEF TickWrite, Base, MarkerInv, PlanOK
  <1>2. AsRead(i)  BY DEF FreshInv, PlansAsRead
  <1>3. i.orb \in Orbs /\ i.from \in Record /\ i.st \in States  BY <1>1 DEF Item
  <1>4. /\ TickRecord(i) \in Record /\ TickRecord(i).st = i.st
        /\ TickRecord(i).exec = NoWork /\ TickRecord(i).label = i.from.label
    <2>1. TickRecord(i) = [i.from EXCEPT !.st = i.st, !.exec = NoWork]
      BY <1>1, <1>3 DEF TickRecord, Record
    <2>2. NoWork \in Targets \cup {NoWork}  OBVIOUS
    <2>3. QED  BY <1>3, <2>1, <2>2 DEF Record
  <1>5. store[i.orb].st \in {i.from.st, "executing_children"}
        /\ (store[i.orb].st # i.from.st => i.orb \in Phased /\ i.stage = "roots")
    <2>1. i.from.st # "executing_children" =>
             [i.from EXCEPT !.st = "executing_children", !.exec = NoWork].st = "executing_children"
      BY <1>3 DEF Record
    <2>2. QED  BY <2>1 DEF Expected
  <1>6. store[i.orb].st \in {"pending", "active", "waiting", "executing_children"}
        /\ (i.orb \in Phased => store[i.orb].st # "active")
    BY <1>2, <1>5 DEF AsRead
  <1>7. OrbInv(i.orb)  BY <1>3 DEF FreshInv, OrbsInv
  <1>8. ~accepted[i.orb]  BY <1>6, <1>7 DEF OrbInv
  <1>9. ASSUME NEW q \in Runners, attempt[q][i.orb] \in AtWork  PROVE FALSE
    <2>1. /\ store[i.orb] = copy[q][i.orb] /\ store[i.orb].st \in Targets
          /\ attempt[q][i.orb] = "materializing" => store[i.orb].st = "decomposing"
      BY <1>3, <1>9, TaskFacts DEF FreshInv
    <2>2. store[i.orb].st = "active" /\ i.orb \notin Phased
      BY <1>6, <2>1 DEF Targets, WorkPhases
    <2>3. Executing(q, i.orb)  BY <1>9, <2>1, <2>2 DEF Executing, AtWork, Executes
    <2>4. Children(i.orb) = {}  BY <1>3, <2>2, <2>3 DEF FreshInv, WorkInv
    <2>5. i.from.st = "active"  BY <1>5, <2>2
    <2>6. QED  BY <1>2, <2>2, <2>4, <2>5 DEF AsRead
  <1>10. ASSUME NEW rec, rec = TickRecord(i)  PROVE Sound(i.orb, rec)
    <2>1. rec \in Record /\ rec.st = i.st /\ rec.exec = NoWork /\ ~rec.label
      BY <1>2, <1>4, <1>10 DEF AsRead
    <2>2. CASE i.orb \in Phased
      <3>1. /\ i.st \in {"speccing", "executing", "executing_children", "reevaluating", "done"}
            /\ i.st # "speccing" => Whole(i.orb)
            /\ i.st = "done" => ChildrenDone(i.orb)
        BY <1>2, <2>2 DEF AsRead
      <3>2. QED  BY <2>1, <2>2, <3>1 DEF Sound, Unbuilt
    <2>3. CASE i.orb \notin Phased
      <3>1. i.st \in {"active", "done"}  BY <1>1, <1>2, <2>3 DEF AsRead
      <3>2. QED  BY <1>6, <2>1, <2>3, <3>1 DEF Sound, PlainStates
    <2>4. QED  BY <2>2, <2>3
  <1>11. i.st = "reevaluating" => store[i.orb].st = "waiting"
    BY <1>2, <1>5 DEF AsRead
  <1>12. QED  BY <1>3, <1>4, <1>6, <1>8, <1>9, <1>10, <1>11

LEMMA FreshWriteStep ==
    ASSUME Base, FreshInv, NEW r \in Runners, NEW i \in plan[r], TickWrite(r, i), store[i.orb] = Expected(i)
    PROVE  FreshInv'
  <1>1. /\ i.orb \in Orbs /\ TickRecord(i).st = i.st
        /\ store[i.orb].st \in {"pending", "active", "waiting", "executing_children"}
        /\ \A q \in Runners : attempt[q][i.orb] \notin AtWork
        /\ ~accepted[i.orb] /\ Sound(i.orb, TickRecord(i))
    BY FreshWriteFinds
  <1>2. Put(i.orb, TickRecord(i)) /\ UNCHANGED <<attempt, copy, accepted>>
    BY DEF TickWrite, dispatchVars
  <1>3. \A q \in Runners, x \in Orbs : attempt[q][x] = "materializing" => copy[q][x].st = "decomposing"
    BY DEF FreshInv, WorkInv
  <1>4. OrbsInv' /\ WorkInv' /\ Grows
    BY <1>1, <1>2, <1>3, WriteStep DEF FreshInv
  <1>5. i \in Item /\ AsRead(i)  BY BaseFacts DEF FreshInv, PlansAsRead
  <1> DEFINE follow == [i EXCEPT !.st = AfterChildren(i.orb)]
  <1>6. /\ follow.stage = i.stage /\ follow.orb = i.orb /\ follow.from = i.from
        /\ follow.st = AfterChildren(i.orb)
    BY <1>5 DEF Item
  <1> HIDE DEF follow
  <1>7. ASSUME i.stage = "roots", i.st = "executing_children"  PROVE AsRead(follow)
    <2>1. i.orb \in Phased  BY <1>5, <1>7 DEF AsRead
    <2>2. QED  BY <1>5, <1>6, <1>7, <2>1 DEF AsRead, AfterChildren
  <1>8. ASSUME NEW q \in Runners, NEW j \in plan'[q]  PROVE AsRead(j)
    <2>1. plan' = [plan EXCEPT ![r] = (plan[r] \ {i}) \cup
                      (IF i.stage = "roots" /\ i.st = "executing_children" THEN {follow} ELSE {})]
      BY DEF TickWrite, follow
    <2>2. j \in plan[q] \/ (i.stage = "roots" /\ i.st = "executing_children" /\ j = follow)
      BY <1>8, <2>1, BaseFacts
    <2>3. QED  BY <1>7, <2>2 DEF FreshInv, PlansAsRead
  <1>9. ASSUME NEW q \in Runners, NEW j \in plan'[q]  PROVE AsRead(j)'
    <2>1. AsRead(j)  BY <1>8
    <2>2. j.orb \in Phased => (ChildrenDone(j.orb) => ChildrenDone(j.orb)') /\ (Whole(j.orb) => Whole(j.orb)')
      BY <1>4, GrowingKeeps
    <2>3. QED  BY <2>1, <2>2 DEF AsRead
  <1>10. QED  BY <1>4, <1>9 DEF FreshInv, PlansAsRead

\* The store is read, and nothing else happens.
LEMMA ReadingStep ==
    ASSUME Base, FreshInv, NEW r \in Runners, BeginTick(r) \/ NextStage(r)  PROVE FreshInv'
  <1>1. UNCHANGED <<store, history, accepted, attempt, copy>>
    BY DEF BeginTick, NextStage, KeepStore, dispatchVars
  <1>2. OrbsInv' /\ WorkInv' /\ Grows  BY <1>1, CalmStep DEF FreshInv
  <1>3. ASSUME NEW q \in Runners, NEW j \in plan'[q]  PROVE AsRead(j)
    <2>1. j \in plan[q] \/ j \in StartPipelines(store) \cup ExecuteReady(store)
                                   \cup ReevaluateWaiting(store) \cup CompleteRoots(store)
      <3>1. CASE BeginTick(r)  BY <1>3, <3>1, BaseFacts DEF BeginTick
      <3>2. CASE NextStage(r)  BY <1>3, <3>2, BaseFacts DEF NextStage
      <3>3. QED  BY <3>1, <3>2
    <2>2. QED  BY <2>1, ItemsAsRead DEF FreshInv, PlansAsRead
  <1>4. \A x : (ChildrenDone(x)' <=> ChildrenDone(x)) /\ (Whole(x)' <=> Whole(x))
    BY <1>1 DEF ChildrenDone, Whole
  <1>5. ASSUME NEW q \in Runners, NEW j \in plan'[q]  PROVE AsRead(j)'
    <2>1. AsRead(j)  BY <1>3
    <2>2. QED  BY <1>4, <2>1 DEF AsRead
  <1>6. QED  BY <1>2, <1>5 DEF FreshInv, PlansAsRead

\* Only the start of a tick or of its root stage plans anything new, but for the second
\* write of a root.
LEMMA OtherPlans ==
    ASSUME Base, [Next]_vars,
           ~\E r \in Runners : BeginTick(r) \/ NextStage(r) \/ \E i \in plan[r] : TickWrite(r, i)
    PROVE  \A q \in Runners : plan'[q] \subseteq plan[q]
  <1>1. CASE \E r \in Runners : TickFails(r) \/ Exit(r)
    BY <1>1, BaseFacts DEF TickFails, EndTick, Exit
  <1>2. CASE \E r \in Runners : Dispatch(r)
    BY <1>2 DEF Dispatch, BeginDispatch, Joined, Abandon, Acquire, Refuse, Admit, ReadChildren, Materialize,
                Succeed, Finished, Release, runnerVars
  <1>3. CASE \E r \in Runners : Disturb(r)
    <2>1. PICK r \in Runners : Disturb(r)  BY <1>3
    <2>2. CASE Crash(r) \/ TickBreaks(r) \/ \E i \in plan[r] : HookAborts(r, i)
      BY <2>2, BaseFacts DEF Crash, TickBreaks, EndTick, HookAborts
    <2>3. CASE \/ Stop(r) \/ Start(r) \/ FatalError(r)
               \/ \E o \in Orbs : SetBack(r, o) \/ SpawnAborts(r, o) \/ DispatchError(r, o)
      <3>1. UNCHANGED plan
        BY <2>3 DEF Stop, Start, FatalError, SetBack, Finished, SpawnAborts, DispatchError, runnerVars
      <3>2. QED  BY <3>1
    <2>4. QED  BY <2>1, <2>2, <2>3 DEF Disturb
  <1>4. CASE (\E o \in Orbs : Operator(o) \/ OrphanExits(o)) \/ UNCHANGED vars
    BY <1>4 DEF Operator, Approve, Reject, Revise, Reset, EditStatus, Delete, OperatorPut,
                ArchiveClaim, OrphanExits, vars, runnerVars
  <1>5. QED  BY <1>1, <1>2, <1>3, <1>4 DEF Next, Tick

LEMMA FreshStep ==
    ASSUME Base, FreshInv, Edits = {}, [Next]_vars, FreshTicks  PROVE FreshInv'
  <1>1. CASE \E r \in Runners : \E i \in plan[r] : TickWrite(r, i)
    BY <1>1, FreshWriteStep DEF FreshTicks
  <1>2. CASE \E r \in Runners : BeginTick(r) \/ NextStage(r)  BY <1>2, ReadingStep
  <1>3. CASE ~\E r \in Runners : BeginTick(r) \/ NextStage(r) \/ \E i \in plan[r] : TickWrite(r, i)
    <2>1. \A q \in Runners : plan'[q] \subseteq plan[q]  BY <1>3, OtherPlans
    <2>2. OrbsInv' /\ WorkInv' /\ Grows
      <3>1. CASE \E r \in Runners : Dispatch(r)  BY <3>1, DispatchKeepsTasks DEF FreshInv
      <3>2. CASE \E r \in Runners : Disturb(r)  BY <3>2, DisturbKeepsTasks DEF FreshInv
      <3>3. CASE \E o \in Orbs : Operator(o)  BY <3>3, OperatorKeepsTasks DEF FreshInv
      <3>4. CASE \/ \E r \in Runners : TickFails(r) \/ Exit(r)
                 \/ (\E o \in Orbs : OrphanExits(o)) \/ UNCHANGED vars
        <4>1. UNCHANGED <<store, history, accepted, attempt, copy>>
          BY <3>4 DEF TickFails, EndTick, Exit, OrphanExits, KeepStore, vars, dispatchVars
        <4>2. QED  BY <4>1, CalmStep DEF FreshInv
      <3>5. QED  BY <1>3, <3>1, <3>2, <3>3, <3>4 DEF Next, Tick
    <2>3. QED  BY <2>1, <2>2, AsReadStays DEF FreshInv
  <1>4. QED  BY <1>1, <1>2, <1>3

\* A record no task of the queue is to touch any more is left to the operator.
LEMMA FreshWritesOpen ==
    ASSUME Base, FreshInv, Edits = {}, [Next]_vars, FreshTicks, NEW o \in Orbs, store'[o] # store[o]
    PROVE  /\ store[o].st \in Terminal => store[o].st = "failed" /\ moves' = moves + 1
           /\ store'[o].st = "reevaluating" => store[o].st = "waiting" \/ moves' = moves + 1
  <1>1. WrittenBy(o)  BY WhoWrites DEF FreshInv
  <1>2. ASSUME NEW r \in Runners, NEW i \in plan[r], TickWrite(r, i), i.orb = o
        PROVE  /\ store[o].st \notin Terminal
               /\ store'[o].st = "reevaluating" => store[o].st = "waiting"
    <2>1. /\ TickRecord(i).st = i.st
          /\ store[o].st \in {"pending", "active", "waiting", "executing_children"}
          /\ i.st = "reevaluating" => store[o].st = "waiting"
      BY <1>2, FreshWriteFinds DEF FreshTicks
    <2>2. store'[o].st = i.st  BY <1>2, <2>1, PutPointwise DEF TickWrite
    <2>3. QED  BY <2>1, <2>2 DEF Terminal
  <1>3. ASSUME NEW r \in Runners, attempt[r][o] \in AtWork, NEW st, Finished(r, o, st)
        PROVE  store[o].st \notin Terminal /\ store'[o].st = st
    <2>1. store[o].st \in Targets  BY <1>3, TaskFacts DEF FreshInv
    <2>2. After(copy[r][o], st).st = st  BY DEF After
    <2>3. store'[o].st = st  BY <1>3, <2>2, PutPointwise DEF Finished
    <2>4. QED  BY <2>1, <2>3 DEF Targets, WorkPhases, Terminal
  <1>4. QED  BY <1>1, <1>2, <1>3 DEF WrittenBy, Terminal

\* A runner re-evaluates an orb only from Waiting; an operator's reset may name the phase.
RunnersReevaluateOnlyWaiting ==
    [][\A o \in Orbs : store'[o].st = "reevaluating" /\ moves' = moves =>
          store[o].st \in {"waiting", "reevaluating"}]_vars

\* Any number of runners, and no edit or delete behind them: as long as no tick writes
\* over a record that changed since the tick read it, accepted work is not repeated,
\* dependencies stay Done under a worker, a Done parent has every child Done, failures
\* can be reset, terminal orbs stay so until an operator resets them, and a runner
\* re-evaluates only what waits.  The stale write of a tick is what breaks these with
\* two runners, and it is the only thing that does.
THEOREM FreshTicksSuffice ==
    ASSUME Edits = {}
    PROVE  Spec /\ [][FreshTicks]_vars =>
               /\ []AcceptedWorkNotRepeated /\ []DependenciesHoldWhileExecuting
               /\ []ParentFollowsChildren /\ []FailedAttemptIsResettable
               /\ TerminalIsFinal /\ FailedStaysTerminal /\ RunnersReevaluateOnlyWaiting
  <1>1. Init => FreshInv
    <2>1. Init => OrbsInv /\ WorkInv  BY InitKeepsTasks
    <2>2. QED  BY <2>1 DEF Init, FreshInv, PlansAsRead
  <1>2. Base /\ FreshInv /\ [Next]_vars /\ [FreshTicks]_vars => FreshInv'
    <2>1. CASE UNCHANGED vars
      <3>1. UNCHANGED <<store, history, accepted, plan, attempt, copy>>
        BY <2>1 DEF vars, runnerVars, dispatchVars
      <3>2. QED  BY <3>1, CalmStep, AsReadStays DEF FreshInv
    <2>2. QED  BY <2>1, FreshStep
  <1>3. Base /\ FreshInv => /\ AcceptedWorkNotRepeated /\ DependenciesHoldWhileExecuting
                           /\ ParentFollowsChildren /\ FailedAttemptIsResettable
    <2>1. Base /\ FreshInv => AcceptedWorkNotRepeated
      BY TaskFacts DEF AcceptedWorkNotRepeated, Executing, AtWork, FreshInv
    <2>2. FreshInv => DependenciesHoldWhileExecuting
      BY DEF FreshInv, WorkInv, DependenciesHoldWhileExecuting, ExecutionDependenciesDone
    <2>3. FreshInv => ParentFollowsChildren
      BY ChildFacts DEF FreshInv, OrbsInv, OrbInv, ParentFollowsChildren, Unbuilt, Whole, ChildrenDone
    <2>4. FreshInv => FailedAttemptIsResettable
      BY ChildFacts DEF FreshInv, OrbsInv, OrbInv, FailedAttemptIsResettable
    <2>5. QED  BY <2>1, <2>2, <2>3, <2>4
  <1>4. Base /\ FreshInv /\ [Next]_vars /\ [FreshTicks]_vars =>
            /\ [\A o \in Orbs : store[o].st \in Terminal /\ store'[o].st # store[o].st =>
                   store[o].st = "failed" /\ moves' = moves + 1]_vars
            /\ [\A o \in Orbs : store[o].st = "failed" /\ moves' = moves => store'[o].st = "failed"]_vars
            /\ [\A o \in Orbs : store'[o].st = "reevaluating" /\ moves' = moves =>
                   store[o].st \in {"waiting", "reevaluating"}]_vars
    <2>1. SUFFICES ASSUME Base, FreshInv, [Next]_vars, FreshTicks, NEW o \in Orbs,
                          store'[o].st # store[o].st
                   PROVE  /\ store[o].st \in Terminal => store[o].st = "failed" /\ moves' = moves + 1
                          /\ store[o].st = "failed" => moves' # moves
                          /\ store'[o].st = "reevaluating" => store[o].st = "waiting" \/ moves' # moves
      OBVIOUS
    <2>2. moves \in Nat  BY <2>1, QueueAssumption DEF QueueAssumption, Base, MarkerInv, Counters
    <2>3. moves + 1 # moves  BY <2>2
    <2>4. QED  BY <2>1, <2>3, FreshWritesOpen DEF Terminal
  <1>5. Spec => []Base  BY BaseIsInvariant
  <1>6. QED
    BY <1>1, <1>2, <1>3, <1>4, <1>5, PTL
    DEF Spec, TerminalIsFinal, FailedStaysTerminal, RunnersReevaluateOnlyWaiting

-----------------------------------------------------------------------------
(* The ticks of a lone runner are fresh, but for one stage.                 *)

\* A lone runner's tick writes over a changed record only to re-evaluate: a root whose
\* children were Done left Waiting in an earlier stage of the same tick.
StaleOnlyReevaluations ==
    [][\A r \in Runners : \A i \in plan[r] :
          TickWrite(r, i) => store[i.orb] = Expected(i) \/ i.st = "reevaluating"]_vars

\* Only the last stage may find its orb moved on.
PlansFresh == \A r \in Runners : \A i \in plan[r] :
    /\ i.stage # "waiting" => store[i.orb] = Expected(i)
    /\ i.orb \in Phased /\ i.st = "executing_children" => i.from.st = "waiting"

\* Nobody else writes what a lone runner has planned to write.
LEMMA PlannedUntouched ==
    ASSUME Base, AloneInv, [Next]_vars, NEW r \in Runners, NEW i \in plan[r],
           ~\E q \in Runners : \E j \in plan[q] : TickWrite(q, j)
    PROVE  store'[i.orb] = store[i.orb]
  <1>1. SUFFICES ASSUME store'[i.orb] # store[i.orb] PROVE FALSE  OBVIOUS
  <1>2. i.orb \in Orbs  BY BaseFacts DEF Item
  <1>3. WrittenBy(i.orb)  BY <1>1, <1>2, WhoWrites DEF AloneInv, Alone
  <1>4. store[i.orb].st \notin {"absent", "review", "failed"}  BY DEF AloneInv, PlanInv, ItemInv
  <1>5. ASSUME NEW q \in Runners, attempt[q][i.orb] \in AtWork  PROVE FALSE
    <2>1. attempt[q][i.orb] # "none"  BY <1>5 DEF AtWork
    <2>2. plan[q] = {}  BY <1>2, <2>1, TaskMeansNoPlan DEF AloneInv
    <2>3. QED  BY <2>2, OneRunner DEF AloneInv
  <1>6. QED  BY <1>3, <1>4, <1>5 DEF WrittenBy

LEMMA PlansFreshNext ==
    ASSUME NEW r \in Runners, \A q \in Runners : q = r,
           \A j \in plan'[r] :
               /\ j.stage # "waiting" => store'[j.orb] = Expected(j)
               /\ j.orb \in Phased /\ j.st = "executing_children" => j.from.st = "waiting"
    PROVE  PlansFresh'
  <1>1. \A j : Expected(j)' = Expected(j)  BY DEF Expected
  <1>2. QED  BY <1>1 DEF PlansFresh

LEMMA PlansFreshStep ==
    ASSUME Base, AloneInv, PlansFresh, [Next]_vars  PROVE PlansFresh'
  <1>1. CASE \E r \in Runners : \E i \in plan[r] : TickWrite(r, i)
    <2>1. PICK r \in Runners : \E i \in plan[r] : TickWrite(r, i)  BY <1>1
    <2>2. PICK i \in plan[r] : TickWrite(r, i)  BY <2>1
    <2>3. i \in Item /\ i.orb \in Orbs /\ i.from \in Record /\ i.from.exec = NoWork
          /\ i.st # "error" /\ Put(i.orb, TickRecord(i)) /\ i.stage = pc[r]
      BY <2>2, BaseFacts DEF Item, TickWrite, Base, MarkerInv, PlanOK
    <2>4. \A x \in Orbs : store'[x] = IF x = i.orb THEN TickRecord(i) ELSE store[x]
      BY <2>3, PutPointwise
    <2> DEFINE follow == [i EXCEPT !.st = AfterChildren(i.orb)]
    <2>5. /\ follow.stage = i.stage /\ follow.orb = i.orb /\ follow.from = i.from
          /\ follow.st = AfterChildren(i.orb)
      BY <2>3 DEF Item
    <2>6. plan'[r] = (plan[r] \ {i}) \cup
              (IF i.stage = "roots" /\ i.st = "executing_children" THEN {follow} ELSE {})
      BY <2>2, BaseFacts DEF TickWrite
    <2> HIDE DEF follow
    <2>7. \A j \in plan[r] : ItemInv(r, j) /\ Distinct(i, j)  BY DEF AloneInv, PlanInv
    <2>8. ASSUME NEW j \in plan[r], j # i, j.stage # "waiting"  PROVE store'[j.orb] = Expected(j)
      <3>1. i.orb # j.orb
        <4>1. i.stage = "waiting" => j.stage = "waiting"  BY <2>3, <2>7 DEF ItemInv, Left
        <4>2. QED  BY <2>7, <2>8, <4>1 DEF Distinct
      <3>2. j.orb \in Orbs  BY BaseFacts DEF Item
      <3>3. QED  BY <2>4, <2>8, <3>1, <3>2 DEF PlansFresh
    <2>9. ASSUME i.stage = "roots", i.st = "executing_children"
          PROVE  store'[i.orb] = Expected(follow) /\ follow.st # "executing_children"
      <3>1. i.orb \in Phased  BY <2>7, <2>9 DEF ItemInv
      <3>2. i.from.st = "waiting"  BY <2>9, <3>1 DEF PlansFresh
      <3>3. TickRecord(i) = [i.from EXCEPT !.st = "executing_children", !.exec = NoWork]
        BY <2>9 DEF TickRecord
      <3>4. QED  BY <2>3, <2>4, <2>5, <2>9, <3>1, <3>2, <3>3 DEF Expected, AfterChildren
    <2>10. ASSUME NEW j \in plan'[r]
           PROVE  /\ j.stage # "waiting" => store'[j.orb] = Expected(j)
                  /\ j.orb \in Phased /\ j.st = "executing_children" => j.from.st = "waiting"
      <3>1. CASE j \in plan[r] /\ j # i  BY <2>8, <3>1 DEF PlansFresh
      <3>2. CASE i.stage = "roots" /\ i.st = "executing_children" /\ j = follow  BY <2>5, <2>9, <3>2
      <3>3. QED  BY <2>6, <2>10, <3>1, <3>2
    <2>11. QED  BY <2>10, OneRunner, PlansFreshNext DEF AloneInv
  <1>2. CASE \E r \in Runners : BeginTick(r) \/ NextStage(r)
    <2>1. PICK r \in Runners : BeginTick(r) \/ NextStage(r)  BY <1>2
    <2>2. store' = store  BY <2>1 DEF BeginTick, NextStage, KeepStore
    <2>3. ASSUME NEW j \in plan'[r]
          PROVE  /\ j.stage # "waiting" => store[j.orb] = Expected(j)
                 /\ j.orb \in Phased /\ j.st = "executing_children" => j.from.st = "waiting"
      <3>1. CASE j \in plan[r]  BY <3>1 DEF PlansFresh
      <3>2. CASE j \in CompleteRoots(store)  BY <3>2, RootItems DEF AloneInv, Expected, AfterChildren
      <3>3. CASE j \in StartPipelines(store) \cup ExecuteReady(store) \cup ReevaluateWaiting(store)
        BY <3>3, FirstItems DEF AloneInv, Expected
      <3>4. j \in plan[r] \/ j \in StartPipelines(store) \cup ExecuteReady(store)
                                     \cup ReevaluateWaiting(store) \cup CompleteRoots(store)
        <4>1. CASE BeginTick(r)  BY <2>3, <4>1, BaseFacts DEF BeginTick
        <4>2. CASE NextStage(r)  BY <2>3, <4>2, BaseFacts DEF NextStage
        <4>3. QED  BY <2>1, <4>1, <4>2
      <3>5. QED  BY <3>1, <3>2, <3>3, <3>4
    <2>4. QED  BY <2>2, <2>3, OneRunner, PlansFreshNext DEF AloneInv
  <1>3. CASE ~\E r \in Runners : BeginTick(r) \/ NextStage(r) \/ \E i \in plan[r] : TickWrite(r, i)
    <2>1. PICK r : Runners = {r}  BY DEF AloneInv, Alone
    <2>2. plan'[r] \subseteq plan[r]  BY <1>3, <2>1, OtherPlans
    <2>3. \A j \in plan[r] : store'[j.orb] = store[j.orb]
      BY <1>3, <2>1, PlannedUntouched
    <2>4. QED  BY <2>1, <2>2, <2>3, PlansFreshNext DEF PlansFresh
  <1>4. QED  BY <1>1, <1>2, <1>3

\* With one runner, and no edit of a status behind it, every tick write other than a
\* re-evaluation finds the record it was planned from.
THEOREM LoneRunnerStaleness ==
    ASSUME Alone  PROVE  Spec => StaleOnlyReevaluations
  <1>1. Init => PlansFresh  BY DEF Init, PlansFresh
  <1>2. Base /\ AloneInv /\ PlansFresh /\ [Next]_vars => PlansFresh'  BY PlansFreshStep
  <1>3. AloneInv /\ PlansFresh =>
            [\A r \in Runners : \A i \in plan[r] :
                TickWrite(r, i) => store[i.orb] = Expected(i) \/ i.st = "reevaluating"]_vars
    <2>1. SUFFICES ASSUME AloneInv, PlansFresh, NEW r \in Runners, NEW i \in plan[r]
                   PROVE  store[i.orb] = Expected(i) \/ i.st = "reevaluating"
      OBVIOUS
    <2>2. CASE i.stage = "waiting"  BY <2>1, <2>2 DEF AloneInv, PlanInv, ItemInv
    <2>3. CASE i.stage # "waiting"  BY <2>1, <2>3 DEF PlansFresh
    <2>4. QED  BY <2>2, <2>3
  <1>4. Spec => []Base  BY BaseIsInvariant
  <1>5. QED  BY <1>1, <1>2, <1>3, <1>4, AloneIsInvariant, PTL DEF Spec, StaleOnlyReevaluations
-----------------------------------------------------------------------------
(* A dispatch task as an episode of the contract DispatchEpisode implements. *)

\* A dispatch task, seen as an episode of the contract.
EpisodePhase(a) ==
    IF a \in {"none", "queued"} THEN "idle" ELSE IF a = "written" THEN "stored" ELSE "working"

Episode(r, o) ==
    INSTANCE EpisodeContract
    WITH target <- copy[r][o].st, st <- store[o].st, claim <- o \in claims,
         phase <- EpisodePhase(attempt[r][o]), left <- o \in orphans

\* What the contract sees of it.
Seen(r, o) == <<store[o].st, o \in claims, EpisodePhase(attempt[r][o]), o \in orphans>>

\* A write to the record of an orb that its own task does not make.
OutsideWrite(r, o) ==
    /\ Operator(o) \/ \E q \in Runners : q # r /\ \E i \in plan[q] : i.orb = o /\ TickWrite(q, i)
    /\ UNCHANGED <<claims, orphans, attempt, copy>>

EpisodesFollowContract ==
    [][\A r \in Runners, o \in Phased : Holds(r, o) =>
          Episode(r, o)!Step \/ UNCHANGED Seen(r, o) \/ OutsideWrite(r, o)]_vars

LEMMA HeldFacts ==
    ASSUME Base, NEW r \in Runners, NEW o \in Phased, Holds(r, o)
    PROVE  /\ o \in Orbs /\ o \notin Planned /\ pc[r] = "join" /\ attempt[r][o] \in Holding
           /\ o \in claims /\ o \notin orphans /\ \A q \in Runners : Holds(q, o) => q = r
           /\ copy[r][o].st \in WorkPhases
  <1>1. o \in Orbs /\ o \notin Planned  BY QueueAssumption DEF QueueAssumption
  <1>2. attempt[r][o] \in Holding /\ attempt[r][o] # "none"  BY DEF Holds, Holding
  <1>3. pc[r] = "join"  BY <1>1, <1>2, BaseFacts
  <1>4. HasTarget(copy[r], o)  BY <1>1, <1>2 DEF Base, MarkerInv, TasksOK
  <1>5. QED
    BY <1>1, <1>2, <1>3, <1>4 DEF HasTarget, Base, ClaimsInv, ClaimsExclusive, OneEpisodePerOrb

\* What a task may store is what the contract may end in.
LEMMA OutcomesOfContract ==
    ASSUME NEW r \in Runners, NEW o \in Phased, copy[r][o].st \in WorkPhases
    PROVE  LET t == copy[r][o].st
           IN  NextOnSuccess(t) \cup NextOnSetback(t) \cup {t} \subseteq Episode(r, o)!Ends
  <1> DEFINE t == copy[r][o].st
  <1>1. ReviewOnCompletion \subseteq BOOLEAN  BY QueueAssumption DEF QueueAssumption
  <1>2. CASE t = "speccing"
    BY <1>2 DEF NextOnSuccess, NextOnSetback, Episode!Ends, Episode!OnDone
  <1>3. CASE t = "decomposing"
    BY <1>3 DEF NextOnSuccess, NextOnSetback, Episode!Ends, Episode!OnDone
  <1>4. CASE t = "refining"
    BY <1>4 DEF NextOnSuccess, NextOnSetback, Episode!Ends, Episode!OnDone
  <1>5. CASE t = "reevaluating"
    BY <1>5 DEF NextOnSuccess, NextOnSetback, Episode!Ends, Episode!OnDone
  <1>6. CASE t = "executing"
    BY <1>1, <1>6 DEF NextOnSuccess, NextOnSetback, Episode!Ends, Episode!OnDone
  <1>7. QED  BY <1>2, <1>3, <1>4, <1>5, <1>6 DEF WorkPhases

\* A step that another task makes, or none, is not seen.
LEMMA NotSeen ==
    ASSUME NEW r \in Runners, NEW o \in Phased, store'[o] = store[o],
           o \in claims' <=> o \in claims, o \in orphans' <=> o \in orphans,
           \/ attempt'[r][o] = attempt[r][o]
           \/ EpisodePhase(attempt'[r][o]) = EpisodePhase(attempt[r][o])
    PROVE  UNCHANGED Seen(r, o)
  BY DEF Seen

\* One task's step, seen from a task of another orb or of another runner.
LEMMA ElsewhereNotSeen ==
    ASSUME Base, NEW r \in Runners, NEW o \in Phased, Holds(r, o),
           NEW q \in Runners, NEW x \in Orbs, ~(q = r /\ x = o), NEW a \in Attempts, At(q, x, a),
           store'[o] = store[o], x # o => (o \in claims' <=> o \in claims),
           x # o => (o \in orphans' <=> o \in orphans),
           x = o => claims \subseteq claims' /\ UNCHANGED orphans
    PROVE  UNCHANGED Seen(r, o)
  <1>1. o \in Orbs /\ o \in claims  BY HeldFacts
  <1>2. attempt'[r][o] = attempt[r][o]  BY <1>1, AtPointwise DEF Base, ClaimsInv
  <1>3. QED  BY <1>1, <1>2, NotSeen

\* What an episode does to the record of its orb.
LEMMA OutcomeIsOfContract ==
    ASSUME Base, NEW r \in Runners, NEW o \in Phased, Holds(r, o),
           NEW q \in Runners, NEW x \in Orbs,
           Succeed(q, x) \/ SetBack(q, x) \/ SpawnAborts(q, x)
    PROVE  Episode(r, o)!Step \/ UNCHANGED Seen(r, o)
  <1>1. PICK st \in NextOnSuccess(copy[q][x].st) \cup NextOnSetback(copy[q][x].st) \cup {copy[q][x].st} :
            \E rec : Put(x, rec) /\ rec.st = st
    BY DEF Succeed, SetBack, SpawnAborts, Finished, After
  <1>2. PICK rec : Put(x, rec) /\ rec.st = st  BY <1>1
  <1>3. /\ At(q, x, "written") /\ UNCHANGED <<claims, orphans>>
        /\ attempt[q][x] \in {"working", "materializing"}
    BY DEF Succeed, SetBack, SpawnAborts, Finished
  <1>4. store'[x] = rec /\ \A y \in Orbs : y # x => store'[y] = store[y]  BY <1>2, PutPointwise
  <1>5. "written" \in Attempts  BY DEF Attempts
  <1>6. Holds(q, x)  BY <1>3 DEF Holds, Holding
  <1>7. CASE q = r /\ x = o
    <2>1. attempt'[r][o] = "written"  BY <1>3, <1>5, <1>7, AtPointwise DEF Base, ClaimsInv
    <2>2. st \in Episode(r, o)!Ends  BY <1>1, <1>7, HeldFacts, OutcomesOfContract
    <2>3. EpisodePhase(attempt[r][o]) = "working" /\ EpisodePhase(attempt'[r][o]) = "stored"
      BY <1>3, <1>7, <2>1 DEF EpisodePhase
    <2>4. Episode(r, o)!Settle
      BY <1>2, <1>3, <1>4, <1>7, <2>2, <2>3, HeldFacts DEF Episode!Settle
    <2>5. QED  BY <2>4 DEF Episode!Step
  <1>8. CASE ~(q = r /\ x = o)
    <2>1. o \in Orbs /\ x # o  BY <1>6, <1>8, HeldFacts
    <2>2. QED  BY <1>3, <1>4, <1>5, <1>8, <2>1, ElsewhereNotSeen
  <1>9. QED  BY <1>7, <1>8

\* Giving the claim back, releasing it, or losing it.
LEMMA LeavingIsOfContract ==
    ASSUME Base, NEW r \in Runners, NEW o \in Phased, Holds(r, o),
           NEW q \in Runners, NEW x \in Orbs, Refuse(q, x) \/ Release(q, x) \/ DispatchError(q, x)
    PROVE  Episode(r, o)!Step \/ UNCHANGED Seen(r, o)
  <1>1. At(q, x, "none") /\ UNCHANGED store  BY DEF Refuse, Release, DispatchError, Leave, KeepStore
  <1>2. Holds(q, x)  BY DEF Refuse, Release, DispatchError, Holds, Holding
  <1>3. "none" \in Attempts  BY DEF Attempts
  <1>4. CASE q = r /\ x = o
    <2>1. attempt'[r][o] = "none"  BY <1>1, <1>3, <1>4, AtPointwise DEF Base, ClaimsInv
    <2>2. EpisodePhase(attempt'[r][o]) = "idle"  BY <2>1 DEF EpisodePhase
    <2>3. CASE Refuse(q, x)
      <3>1. attempt[r][o] = "claimed" /\ o \notin claims' /\ UNCHANGED orphans
        BY <1>4, <2>3 DEF Refuse
      <3>2. EpisodePhase(attempt[r][o]) = "working"  BY <3>1 DEF EpisodePhase
      <3>3. Episode(r, o)!GiveBack
        BY <1>1, <2>2, <3>1, <3>2, HeldFacts DEF Episode!GiveBack
      <3>4. QED  BY <3>3 DEF Episode!Step
    <2>4. CASE Release(q, x)
      <3>1. attempt[r][o] = "written" /\ o \notin claims' /\ UNCHANGED orphans
        BY <1>4, <2>4 DEF Release
      <3>2. EpisodePhase(attempt[r][o]) = "stored"  BY <3>1 DEF EpisodePhase
      <3>3. Episode(r, o)!Release
        BY <1>1, <2>2, <3>1, <3>2, HeldFacts DEF Episode!Release
      <3>4. QED  BY <3>3 DEF Episode!Step
    <2>5. CASE DispatchError(q, x)
      <3>1. UNCHANGED claims  BY <2>5 DEF DispatchError
      <3>2. EpisodePhase(attempt[r][o]) \in {"working", "stored"}
        BY HeldFacts DEF EpisodePhase, Holding
      <3>3. Episode(r, o)!Lose  BY <1>1, <2>2, <3>1, <3>2 DEF Episode!Lose
      <3>4. QED  BY <3>3 DEF Episode!Step
    <2>6. QED  BY <2>3, <2>4, <2>5
  <1>5. CASE ~(q = r /\ x = o)
    <2>1. o \in Orbs /\ x # o  BY <1>2, <1>5, HeldFacts
    <2>2. o \in claims' <=> o \in claims  BY <2>1 DEF Refuse, Release, DispatchError
    <2>3. o \in orphans' <=> o \in orphans  BY <2>1 DEF Refuse, Release, DispatchError
    <2>4. QED  BY <1>1, <1>3, <1>5, <2>1, <2>2, <2>3, ElsewhereNotSeen
  <1>6. QED  BY <1>4, <1>5

\* A runner that drops its tasks loses its own episodes, and no other.
LEMMA DroppingIsOfContract ==
    ASSUME Base, NEW r \in Runners, NEW o \in Phased, Holds(r, o),
           NEW q \in Runners, DropTasks(q), KeepStore, UNCHANGED claims
    PROVE  Episode(r, o)!Step \/ UNCHANGED Seen(r, o)
  <1>1. o \in Orbs  BY HeldFacts
  <1>2. \A p \in Runners, x \in Orbs :
           attempt'[p][x] = IF p = q THEN "none" ELSE attempt[p][x]
    BY DropPointwise DEF Base, ClaimsInv
  <1>3. CASE q = r
    <2>1. EpisodePhase(attempt'[r][o]) = "idle"  BY <1>1, <1>2, <1>3 DEF EpisodePhase
    <2>2. EpisodePhase(attempt[r][o]) \in {"working", "stored"}
      BY HeldFacts DEF EpisodePhase, Holding
    <2>3. Episode(r, o)!Lose  BY <2>1, <2>2 DEF Episode!Lose, KeepStore
    <2>4. QED  BY <2>3 DEF Episode!Step
  <1>4. CASE q # r
    <2>1. ~Holds(q, o)  BY <1>4, HeldFacts
    <2>2. o \in orphans' <=> o \in orphans  BY <2>1 DEF DropTasks, Holds, Holding
    <2>3. attempt'[r][o] = attempt[r][o]  BY <1>1, <1>2, <1>4
    <2>4. QED  BY <2>2, <2>3, NotSeen DEF KeepStore
  <1>5. QED  BY <1>3, <1>4

LEMMA StepIsOfEpisode ==
    ASSUME Base, [Next]_vars, NEW r \in Runners, NEW o \in Phased, Holds(r, o)
    PROVE  Episode(r, o)!Step \/ UNCHANGED Seen(r, o) \/ OutsideWrite(r, o)
  <1>1. /\ o \in Orbs /\ o \notin Planned /\ o \in claims /\ o \notin orphans
        /\ pc[r] = "join" /\ attempt[r][o] \in Holding
    BY HeldFacts
  <1>2. CASE \/ \E q \in Runners : \/ BeginTick(q) \/ NextStage(q) \/ TickFails(q) \/ Joined(q)
                                   \/ Exit(q) \/ Stop(q) \/ Start(q) \/ TickBreaks(q)
                                   \/ \E i \in plan[q] : HookAborts(q, i)
             \/ UNCHANGED vars
    <2>1. KeepStore /\ UNCHANGED <<claims, orphans, attempt>>
      BY <1>2 DEF BeginTick, NextStage, TickFails, Joined, Exit, Stop, Start, TickBreaks, EndTick,
                  HookAborts, dispatchVars, vars, KeepStore
    <2>2. QED  BY <2>1, NotSeen DEF KeepStore
  <1>3. ASSUME NEW q \in Runners, NEW i \in plan[q], TickWrite(q, i)
        PROVE  UNCHANGED Seen(r, o) \/ OutsideWrite(r, o)
    <2>1. i.orb \in Orbs /\ Put(i.orb, TickRecord(i)) /\ UNCHANGED <<claims, orphans, attempt, copy>>
      BY <1>3, BaseFacts DEF Item, TickWrite, dispatchVars
    <2>2. q # r
      <3>1. i.stage \in Stages /\ i.stage = pc[q]  BY <1>3, BaseFacts DEF TickWrite, Item
      <3>2. QED  BY <1>1, <3>1 DEF Stages
    <2>3. CASE i.orb = o  BY <1>3, <2>1, <2>2, <2>3 DEF OutsideWrite
    <2>4. CASE i.orb # o  BY <1>1, <2>1, <2>4, PutPointwise, NotSeen
    <2>5. QED  BY <2>3, <2>4
  <1>4. ASSUME NEW q \in Runners, BeginDispatch(q)  PROVE UNCHANGED Seen(r, o)
    <2>1. q # r  BY <1>1, <1>4 DEF BeginDispatch
    <2>2. attempt'[r][o] = attempt[r][o] /\ KeepStore /\ UNCHANGED <<claims, orphans>>
      BY <1>1, <1>4, <2>1, BaseFacts DEF BeginDispatch
    <2>3. QED  BY <2>2, NotSeen DEF KeepStore
  <1>5. ASSUME NEW q \in Runners, NEW x \in Orbs, Abandon(q, x) \/ Acquire(q, x)
        PROVE  UNCHANGED Seen(r, o)
    <2>1. ~(q = r /\ x = o)  BY <1>1, <1>5 DEF Abandon, Acquire, Holding
    <2>2. PICK a \in {"none", "claimed"} : At(q, x, a)  BY <1>5 DEF Abandon, Acquire, Leave
    <2>3. /\ KeepStore /\ UNCHANGED orphans
          /\ claims \subseteq claims' /\ claims' \subseteq claims \cup {x}
      BY <1>5 DEF Abandon, Acquire
    <2>4. QED  BY <2>1, <2>2, <2>3, AttemptNames, ElsewhereNotSeen DEF Holding, KeepStore
  <1>6. ASSUME NEW q \in Runners, NEW x \in Orbs, Admit(q, x)  PROVE UNCHANGED Seen(r, o)
    <2>1. /\ KeepStore /\ UNCHANGED <<claims, orphans>>
          /\ At(q, x, "working") /\ attempt[q][x] = "claimed"
      BY <1>6 DEF Admit
    <2>2. CASE q = r /\ x = o
      <3>1. attempt'[r][o] = "working"
        BY <2>1, <2>2, AtPointwise, AttemptNames DEF Base, ClaimsInv, Holding
      <3>2. QED  BY <2>1, <2>2, <3>1, NotSeen DEF EpisodePhase, KeepStore
    <2>3. CASE ~(q = r /\ x = o)
      BY <2>1, <2>3, AttemptNames, ElsewhereNotSeen DEF Holding, KeepStore
    <2>4. QED  BY <2>2, <2>3
  <1>7. ASSUME NEW q \in Runners, NEW x \in Orbs, Materialize(q, x)  PROVE UNCHANGED Seen(r, o)
    <2>1. PICK c \in Orbs \ Phased : Put(c, Fresh("pending"))
      BY <1>7, AppendedChild DEF Base
    <2>2. store'[o] = store[o]  BY <1>1, <2>1, PutPointwise
    <2>3. UNCHANGED <<claims, orphans, attempt>>  BY <1>7 DEF Materialize
    <2>4. QED  BY <2>2, <2>3, NotSeen
  <1>8. ASSUME NEW q \in Runners, Crash(q) \/ FatalError(q)
        PROVE  Episode(r, o)!Step \/ UNCHANGED Seen(r, o)
    BY <1>8, DroppingIsOfContract DEF Crash, FatalError
  <1>9. ASSUME NEW x \in Orbs, Operator(x)
        PROVE  UNCHANGED Seen(r, o) \/ OutsideWrite(r, o)
    <2>1. ~ArchiveClaim(x)  BY <1>1 DEF ArchiveClaim
    <2>2. PICK rec : OperatorPut(x, rec)
      BY <1>9, <2>1 DEF Operator, Approve, Reject, Revise, Reset, EditStatus, Delete
    <2>3. Put(x, rec) /\ UNCHANGED <<claims, orphans, attempt, copy>>
      BY <2>2 DEF OperatorPut, dispatchVars
    <2>4. CASE x = o  BY <1>9, <2>3, <2>4 DEF OutsideWrite
    <2>5. CASE x # o  BY <1>1, <2>3, <2>5, PutPointwise, NotSeen
    <2>6. QED  BY <2>4, <2>5
  <1>10. ASSUME NEW x \in Orbs, OrphanExits(x)  PROVE UNCHANGED Seen(r, o)
    <2>1. KeepStore /\ UNCHANGED <<claims, attempt>>  BY <1>10 DEF OrphanExits, dispatchVars
    <2>2. o \in orphans' <=> o \in orphans  BY <1>1, <1>10 DEF OrphanExits
    <2>3. QED  BY <2>1, <2>2, NotSeen DEF KeepStore
  <1>11. \A q \in Runners : Tick(q) => BeginTick(q) \/ NextStage(q) \/ TickFails(q)
                                       \/ \E i \in plan[q] : TickWrite(q, i)
    BY DEF Tick
  <1>12. ASSUME NEW q \in Runners, NEW x \in Orbs, ReadChildren(q, x)  PROVE UNCHANGED Seen(r, o)
    <2>1. /\ KeepStore /\ UNCHANGED <<claims, orphans>>
          /\ At(q, x, "materializing") /\ attempt[q][x] = "working"
      BY <1>12 DEF ReadChildren
    <2>2. CASE q = r /\ x = o
      <3>1. attempt'[r][o] = "materializing"
        BY <2>1, <2>2, AtPointwise, AttemptNames DEF Base, ClaimsInv, Holding
      <3>2. QED  BY <2>1, <2>2, <3>1, NotSeen DEF EpisodePhase, KeepStore
    <2>3. CASE ~(q = r /\ x = o)
      BY <2>1, <2>3, AttemptNames, ElsewhereNotSeen DEF Holding, KeepStore
    <2>4. QED  BY <2>2, <2>3
  <1>13. ASSUME NEW q \in Runners, Dispatch(q)
         PROVE  Episode(r, o)!Step \/ UNCHANGED Seen(r, o) \/ OutsideWrite(r, o)
    <2>1. CASE BeginDispatch(q)  BY <1>4, <2>1
    <2>2. ASSUME NEW x \in Orbs,
                 Abandon(q, x) \/ Acquire(q, x) \/ Admit(q, x) \/ ReadChildren(q, x) \/ Materialize(q, x)
          PROVE  UNCHANGED Seen(r, o)
      BY <1>5, <1>6, <1>7, <1>12, <2>2
    <2>3. ASSUME NEW x \in Orbs, Refuse(q, x) \/ Release(q, x) \/ Succeed(q, x)
          PROVE  Episode(r, o)!Step \/ UNCHANGED Seen(r, o)
      <3>1. CASE Refuse(q, x) \/ Release(q, x)  BY <3>1, LeavingIsOfContract
      <3>2. CASE Succeed(q, x)  BY <3>2, OutcomeIsOfContract
      <3>3. QED  BY <2>3, <3>1, <3>2
    <2>4. CASE Joined(q)  BY <1>2, <2>4
    <2>5. QED  BY <1>13, <2>1, <2>2, <2>3, <2>4 DEF Dispatch
  <1>14. ASSUME NEW q \in Runners, Disturb(q)
         PROVE  Episode(r, o)!Step \/ UNCHANGED Seen(r, o) \/ OutsideWrite(r, o)
    BY <1>2, <1>8, <1>14, LeavingIsOfContract, OutcomeIsOfContract DEF Disturb
  <1>15. QED  BY <1>2, <1>3, <1>9, <1>10, <1>11, <1>13, <1>14 DEF Next

\* Whoever holds the claim of an epic or a feature does with it what the contract of a
\* dispatch episode allows, however many runners there are; the record changes otherwise
\* only by an operator or a tick of another runner, which leave the claim and the task
\* alone.
THEOREM TasksKeepEpisodeContract == Spec => EpisodesFollowContract
  <1>1. Base /\ [Next]_vars =>
            [\A r \in Runners, o \in Phased : Holds(r, o) =>
                Episode(r, o)!Step \/ UNCHANGED Seen(r, o) \/ OutsideWrite(r, o)]_vars
    BY StepIsOfEpisode
  <1>2. QED
    BY <1>1, BaseIsInvariant, PTL DEF Spec, EpisodesFollowContract
=============================================================================
