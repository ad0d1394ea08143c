--------------------------- MODULE SupervisorProofs ---------------------------
(***************************************************************************)
(* Proofs about Supervisor, for any projects, start-up projects and sizes of   *)
(* the thread pool.  The registry and the loop share a borrowed queue, so the  *)
(* argument is about who may take it away: RegistryInv.                      *)
(***************************************************************************)
EXTENDS Supervisor, FiniteSetTheorems, TLAPS

TaskStates == {"none", "tick", "dispatch"} \cup Writing \cup Working \cup Over

LEMMA StopAllType ==
    ASSUME NEW q \in [Projects -> {"none", "running", "stopped"}]
    PROVE  /\ StopAll(q) \in [Projects -> {"none", "running", "stopped"}]
           /\ \A p \in Projects : StopAll(q)[p] = "none" <=> q[p] = "none"
  BY DEF StopAll

LEMMA StopStartupType ==
    ASSUME NEW q \in [Startup -> {"running", "stopped"}]
    PROVE  StopAll(q) \in [Startup -> {"running", "stopped"}]
  BY DEF StopAll

LEMMA RoundType ==
    ASSUME NEW ps, Round(ps)
    PROVE  /\ task' \in [Projects -> TaskStates]
           /\ \A p \in Projects : task'[p] # "none" => p \in ps
  BY DEF Round, TaskStates

LEMMA RequestKeepsType ==
    ASSUME SupervisorTypeOK, NEW p \in Projects, Attach(p) \/ Detach(p)
    PROVE  SupervisorTypeOK'
  BY DEF SupervisorTypeOK, Attach, Detach, shutdown

LEMMA ProjectKeepsType ==
    ASSUME SupervisorTypeOK, NEW p \in Projects,
           ProjectStep(p) \/ TickFails(p) \/ DispatchIsFatal(p)
    PROVE  SupervisorTypeOK'
  <1> USE DEF SupervisorTypeOK, TaskStates, Writing, Working, Over, registry, shutdown
  <1>1. CASE ProjectStep(p) \/ TickFails(p)
    <2>1. task' \in [Projects -> TaskStates] /\ lost' \subseteq Projects
      BY <1>1 DEF ProjectStep, Answer, Tick, Dispatch, WorkerEnds, TickFails, Becomes
    <2>2. UNCHANGED <<threads, registry, started, shutdown, loop>>
      BY <1>1 DEF ProjectStep, Answer, Tick, Dispatch, WorkerEnds, TickFails
    <2>3. QED  BY <2>1, <2>2
  <1>2. CASE DispatchIsFatal(p)
    <2>1. /\ task' \in [Projects -> TaskStates]
          /\ queue' \in [Projects -> {"none", "running", "stopped"}]
          /\ started' \in [Startup -> {"running", "stopped"}]
      BY <1>2 DEF DispatchIsFatal, Becomes
    <2>2. UNCHANGED <<threads, attached, ticking, stopping, shutdown, loop, lost>>
      BY <1>2 DEF DispatchIsFatal
    <2>3. QED  BY <2>1, <2>2
  <1>3. QED  BY <1>1, <1>2

LEMMA LoopKeepsType ==
    ASSUME SupervisorTypeOK, LoopStep \/ AdmissionStep \/ Signal  PROVE SupervisorTypeOK'
  <1> USE DEF SupervisorTypeOK, StopStartup, StopAdmission, registry, shutdown
  <1>1. task' \in [Projects -> TaskStates]
    BY RoundType
    DEF LoopStep, AdmissionStep, StartRound, BorrowQueues, ReturnQueues, StartupRoundFails,
        NoticeSignal, Drain, Close, AdmissionStopsStartup, AdmissionStopsRegistry, Signal, TaskStates
  <1>2. started' \in [Startup -> {"running", "stopped"}]
    BY StopStartupType
    DEF LoopStep, AdmissionStep, StartRound, BorrowQueues, ReturnQueues, StartupRoundFails,
        NoticeSignal, Drain, Close, AdmissionStopsStartup, AdmissionStopsRegistry, Signal
  <1>3. queue' \in [Projects -> {"none", "running", "stopped"}]
    BY StopAllType
    DEF LoopStep, AdmissionStep, StartRound, BorrowQueues, ReturnQueues, StartupRoundFails,
        NoticeSignal, Drain, Close, AdmissionStopsStartup, AdmissionStopsRegistry, Signal
  <1>4. /\ UNCHANGED <<threads, attached, lost>> /\ ticking' \subseteq Projects
        /\ stopping' \in BOOLEAN /\ signal' \in BOOLEAN
        /\ admission' \in {"waits", "registry", "done"}
        /\ loop' \in {"sleep", "startup", "drain", "attached", "closing", "exited"}
    BY DEF LoopStep, AdmissionStep, StartRound, BorrowQueues, ReturnQueues, StartupRoundFails,
           NoticeSignal, Drain, Close, AdmissionStopsStartup, AdmissionStopsRegistry, Signal
  <1>5. QED  BY <1>1, <1>2, <1>3, <1>4 DEF TaskStates

\* Every reachable state is of the declared types.
THEOREM SupervisorTypeCorrect == SupervisorSpec => []SupervisorTypeOK
  <1>1. SupervisorInit => SupervisorTypeOK
    BY SupervisorAssumption DEF SupervisorInit, SupervisorTypeOK
  <1>2. SupervisorTypeOK /\ [SupervisorNext]_svars => SupervisorTypeOK'
    <2>1. SupervisorTypeOK /\ UNCHANGED svars => SupervisorTypeOK'
      BY DEF SupervisorTypeOK, svars, registry, shutdown
    <2>2. QED
      BY <2>1, RequestKeepsType, ProjectKeepsType, LoopKeepsType
      DEF SupervisorNext, Request, Failure
  <1>3. QED  BY <1>1, <1>2, PTL DEF SupervisorSpec

\* While the pool has a thread more than there are projects, a thread is left to
\* answer: no write of a queue waits for itself.  The liveness properties rest on it.
THEOREM AThreadIsLeft == SupervisorSpec => [](ThreadsSuffice => ThreadFree)
  <1>1. SupervisorTypeOK => (ThreadsSuffice => ThreadFree)
    <2>1. SUFFICES ASSUME SupervisorTypeOK, ThreadsSuffice PROVE ThreadFree  OBVIOUS
    <2>2. IsFiniteSet(Projects) /\ Blocked \subseteq Projects
      BY SupervisorAssumption DEF Blocked
    <2>3. Cardinality(Blocked) <= Cardinality(Projects)  BY <2>2, FS_Subset
    <2>4. /\ Cardinality(Blocked) \in Nat /\ Cardinality(Projects) \in Nat /\ threads \in Nat
      BY <2>1, <2>2, FS_Subset, FS_CardinalityType, SupervisorAssumption DEF SupervisorTypeOK
    <2>5. QED  BY <2>1, <2>3, <2>4 DEF ThreadsSuffice, ThreadFree
  <1>2. QED  BY <1>1, SupervisorTypeCorrect, PTL

-----------------------------------------------------------------------------
(* A queue of the registry keeps its authority; one that a round has borrowed  *)
(* stays in the registry; and only the projects of the current round have tasks.*)

QueuesHaveAuthority == \A p \in Projects : queue[p] # "none" => p \in attached
BorrowedStay == \A p \in ticking : queue[p] # "none"
TasksAreOfRound ==
    \A p \in Projects : task[p] # "none" => IF loop = "attached" THEN p \in ticking ELSE p \in Startup

RegistryInv == QueuesHaveAuthority /\ BorrowedStay /\ TasksAreOfRound /\ OutcomesAreStored

LEMMA RequestKeepsRegistry ==
    ASSUME SupervisorTypeOK, RegistryInv, NEW p \in Projects, Attach(p) \/ Detach(p)
    PROVE  RegistryInv'
  <1>1. /\ UNCHANGED <<ticking, loop, task, lost>>
        /\ queue \in [Projects -> {"none", "running", "stopped"}]
    BY DEF Attach, Detach, SupervisorTypeOK
  <1>2. QueuesHaveAuthority'
    BY <1>1 DEF RegistryInv, QueuesHaveAuthority, Attach, Detach
  <1>3. BorrowedStay'
    BY <1>1 DEF RegistryInv, BorrowedStay, Attach, Detach, Drained, SupervisorTypeOK
  <1>4. TasksAreOfRound' /\ OutcomesAreStored'
    BY <1>1 DEF RegistryInv, TasksAreOfRound, OutcomesAreStored
  <1>5. QED  BY <1>2, <1>3, <1>4 DEF RegistryInv

\* An outcome is written for a project that a round has borrowed, and which
\* therefore still has its authority, or for one of the start.
LEMMA AnswerStores ==
    ASSUME SupervisorTypeOK, RegistryInv, NEW p \in Projects, Answer(p)
    PROVE  OutcomesAreStored'
  <1>1. CASE task[p] = "outcomeWrite" /\ p \notin attached
    <2>1. queue[p] = "none"  BY <1>1 DEF RegistryInv, QueuesHaveAuthority
    <2>2. p \notin ticking  BY <2>1 DEF RegistryInv, BorrowedStay
    <2>3. p \in Startup  BY <1>1, <2>2 DEF RegistryInv, TasksAreOfRound
    <2>4. QED  BY <1>1, <2>3 DEF Answer, RegistryInv, OutcomesAreStored
  <1>2. CASE ~(task[p] = "outcomeWrite" /\ p \notin attached)
    BY <1>2 DEF Answer, RegistryInv, OutcomesAreStored
  <1>3. QED  BY <1>1, <1>2

LEMMA ProjectKeepsRegistry ==
    ASSUME SupervisorTypeOK, RegistryInv, NEW p \in Projects,
           ProjectStep(p) \/ TickFails(p) \/ DispatchIsFatal(p)
    PROVE  RegistryInv'
  <1>1. UNCHANGED <<attached, ticking, loop>>
    BY DEF ProjectStep, Answer, Tick, Dispatch, WorkerEnds, TickFails, DispatchIsFatal, registry
  <1>2. \A r \in Projects : (queue'[r] # "none" => p = r \/ queue[r] # "none")
                         /\ (queue[r] # "none" => queue'[r] # "none")
    BY DEF ProjectStep, Answer, Tick, Dispatch, WorkerEnds, TickFails, DispatchIsFatal, registry,
           SupervisorTypeOK
  <1>3. task[p] # "none" /\ \A r \in Projects : r # p => task'[r] = task[r]
    BY DEF ProjectStep, Answer, Tick, Dispatch, WorkerEnds, TickFails, DispatchIsFatal, Becomes,
           Writing, SupervisorTypeOK
  <1>4. queue'[p] # "none" => queue[p] # "none"
    <2>1. CASE DispatchIsFatal(p) /\ Borrowed
      BY <1>3, <2>1 DEF Borrowed, RegistryInv, TasksAreOfRound, BorrowedStay
    <2>2. CASE ~(DispatchIsFatal(p) /\ Borrowed)
      BY <2>2 DEF ProjectStep, Answer, Tick, Dispatch, WorkerEnds, TickFails, DispatchIsFatal,
                  registry
    <2>3. QED  BY <2>1, <2>2
  <1>5. QueuesHaveAuthority'  BY <1>1, <1>2, <1>4 DEF RegistryInv, QueuesHaveAuthority
  <1>6. BorrowedStay'
    BY <1>1, <1>2 DEF RegistryInv, BorrowedStay, SupervisorTypeOK
  <1>7. TasksAreOfRound'  BY <1>1, <1>3 DEF RegistryInv, TasksAreOfRound
  <1>8. OutcomesAreStored'
    <2>1. CASE Answer(p)  BY <2>1, AnswerStores
    <2>2. CASE ~Answer(p)
      BY <2>2 DEF ProjectStep, Tick, Dispatch, WorkerEnds, TickFails, DispatchIsFatal, RegistryInv,
                  OutcomesAreStored
    <2>3. QED  BY <2>1, <2>2
  <1>9. QED  BY <1>5, <1>6, <1>7, <1>8 DEF RegistryInv

LEMMA LoopKeepsRegistry ==
    ASSUME SupervisorTypeOK, RegistryInv, LoopStep \/ AdmissionStep \/ Signal
    PROVE  RegistryInv'
  <1>1. UNCHANGED <<attached, lost>>
    BY DEF LoopStep, AdmissionStep, StartRound, BorrowQueues, ReturnQueues, StartupRoundFails,
           NoticeSignal, Drain, Close, AdmissionStopsStartup, AdmissionStopsRegistry, Signal, registry
  <1>2. \A p \in Projects : queue'[p] = "none" <=> queue[p] = "none"
    BY StopAllType
    DEF LoopStep, AdmissionStep, StartRound, BorrowQueues, ReturnQueues, StartupRoundFails,
        NoticeSignal, Drain, Close, AdmissionStopsStartup, AdmissionStopsRegistry, Signal, registry,
        StopAdmission, SupervisorTypeOK
  <1>3. QueuesHaveAuthority'  BY <1>1, <1>2 DEF RegistryInv, QueuesHaveAuthority
  <1>4. ticking \subseteq Projects  BY DEF SupervisorTypeOK
  <1>5. BorrowedStay'
    <2>1. \A p \in ticking' : p \in ticking \/ (p \in Projects /\ queue[p] # "none")
      BY DEF LoopStep, AdmissionStep, StartRound, BorrowQueues, ReturnQueues, StartupRoundFails,
             NoticeSignal, Drain, Close, AdmissionStopsStartup, AdmissionStopsRegistry, Signal,
             registry
    <2>2. QED  BY <1>2, <1>4, <2>1 DEF RegistryInv, BorrowedStay
  <1>6. TasksAreOfRound'
    <2>1. CASE BorrowQueues
      BY <2>1, RoundType DEF BorrowQueues, TasksAreOfRound
    <2>2. CASE StartRound
      BY <2>2, RoundType DEF StartRound, TasksAreOfRound
    <2>3. CASE ReturnQueues \/ StartupRoundFails \/ Drain
      <3>1. Round({})  BY <2>3 DEF ReturnQueues, StartupRoundFails, Drain
      <3>2. QED  BY <3>1, RoundType DEF TasksAreOfRound
    <2>4. CASE NoticeSignal \/ Close \/ AdmissionStep \/ Signal
      <3>1. UNCHANGED <<task, ticking>> /\ (loop' = "attached" <=> loop = "attached")
        BY <2>4 DEF NoticeSignal, Close, AdmissionStep, AdmissionStopsStartup,
                    AdmissionStopsRegistry, Signal, registry
      <3>2. QED  BY <3>1 DEF RegistryInv, TasksAreOfRound
    <2>5. QED  BY <2>1, <2>2, <2>3, <2>4 DEF LoopStep
  <1>7. OutcomesAreStored'  BY <1>1 DEF RegistryInv, OutcomesAreStored
  <1>8. QED  BY <1>3, <1>5, <1>6, <1>7 DEF RegistryInv

\* Whatever is attached, detached and stopped: a queue of the registry keeps its
\* authority, and only the projects a round borrowed, or started with, have a task.
THEOREM RegistryIsInvariant == SupervisorSpec => []RegistryInv
  <1>1. SupervisorInit => RegistryInv
    BY DEF SupervisorInit, RegistryInv, QueuesHaveAuthority, BorrowedStay, TasksAreOfRound,
           OutcomesAreStored
  <1>2. SupervisorTypeOK /\ RegistryInv /\ [SupervisorNext]_svars => RegistryInv'
    <2>1. RegistryInv /\ UNCHANGED svars => RegistryInv'
      BY DEF RegistryInv, QueuesHaveAuthority, BorrowedStay, TasksAreOfRound, OutcomesAreStored,
             svars, registry
    <2>2. QED
      BY <2>1, RequestKeepsRegistry, ProjectKeepsRegistry, LoopKeepsRegistry
      DEF SupervisorNext, Request, Failure
  <1>3. QED  BY <1>1, <1>2, SupervisorTypeCorrect, PTL DEF SupervisorSpec

\* The outcome of an admitted worker is stored, whatever detaches, stops and fails
\* meanwhile, except for a project of the start that is detached from under it.
THEOREM OutcomesOfAttachedAreStored == SupervisorSpec => []OutcomesAreStored
  <1>1. RegistryInv => OutcomesAreStored  BY DEF RegistryInv
  <1>2. QED  BY <1>1, RegistryIsInvariant, PTL
=============================================================================
