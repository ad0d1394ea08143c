------------------------------- MODULE Supervisor -------------------------------
(***************************************************************************)
(* The supervisor daemon: the loop of run_supervisor_with_control_socket, one *)
(* task per supervised project and round, the registry of LocalSupervisor, its*)
(* control socket, and shutdown.  Every project is in shared mode: a queue     *)
(* writes by a blocking request on the daemon's own socket, which a task of the*)
(* same runtime answers.                                                      *)
(*                                                                         *)
(* Projects named at the start are attached without a registry queue: the loop *)
(* holds their queue itself.  A project attached over the socket has its queue *)
(* in the registry.                                                          *)
(***************************************************************************)
EXTENDS Naturals, FiniteSets

CONSTANTS
    Projects,
    Startup,        \* the projects the daemon starts with
    ThreadCounts    \* the sizes the runtime's pool of worker threads may have

ASSUME SupervisorAssumption ==
    /\ IsFiniteSet(Projects)
    /\ Startup \subseteq Projects
    /\ ThreadCounts \subseteq Nat \ {0}

VARIABLES
    threads,    \* worker threads of the runtime; fixed
    attached,   \* projects whose authority, and lease, the registry holds
    started,    \* the queue of a startup project: "running" or "stopped"
    queue,      \* the queue in the registry: "none", "running" or "stopped"
    ticking,    \* projects whose registry queue a round has borrowed
    stopping,   \* attachments are closed
    signal,     \* SIGTERM or SIGINT was published
    admission,  \* the task that reacts to the signal: "waits", "registry", "done"
    loop,       \* where the main loop is
    task,       \* per project, its task of the current round
    lost        \* history variable: projects one of whose outcomes was not stored

registry == <<attached, queue, ticking, stopping>>
shutdown == <<signal, admission>>
svars == <<threads, registry, started, shutdown, loop, task, lost>>

Writing == {"tickWrite", "outcomeWrite"}
Working == {"working", "outcomeWrite"}
Over == {"ended", "error"}

SupervisorTypeOK ==
    /\ threads \in ThreadCounts
    /\ attached \subseteq Projects /\ ticking \subseteq Projects /\ lost \subseteq Projects
    /\ started \in [Startup -> {"running", "stopped"}]
    /\ queue \in [Projects -> {"none", "running", "stopped"}]
    /\ stopping \in BOOLEAN /\ signal \in BOOLEAN
    /\ admission \in {"waits", "registry", "done"}
    /\ loop \in {"sleep", "startup", "drain", "attached", "closing", "exited"}
    /\ task \in [Projects -> {"none", "tick", "dispatch"} \cup Writing \cup Working \cup Over]

\* A request blocks the worker thread it is made on until it is answered.
Blocked == {p \in Projects : task[p] \in Writing}
ThreadFree == Cardinality(Blocked) < threads
\* Mutant: the registry stays locked for as long as its queues tick.
ServedBetweenRounds == loop \notin {"attached", "exited"} /\ ThreadFree
Served == loop # "exited" /\ ThreadFree

StopAll(q) == [p \in DOMAIN q |-> IF q[p] = "running" THEN "stopped" ELSE q[p]]
StopStartup == started' = StopAll(started)

\* The queue a task of this round works with: the loop's own or one of the registry.
Borrowed == loop = "attached"
QueueRuns(p) == IF Borrowed THEN queue[p] = "running" ELSE started[p] = "running"
InFlight(p) == Borrowed /\ task[p] \in Working

-----------------------------------------------------------------------------
(* Requests on the control socket; a connection is a task of the runtime.      *)

\* AlreadyAttached is an answer too: it makes the missing registry queue.
Attach(p) ==
    /\ Served /\ ~stopping
    /\ attached' = attached \cup {p}
    /\ queue' = IF queue[p] = "none" THEN [queue EXCEPT ![p] = "running"] ELSE queue
    /\ UNCHANGED <<threads, ticking, stopping, started, shutdown, loop, task, lost>>

\* Mutant: a stopped queue is let go of at once.
StoppedIsEnough(p) == TRUE
Drained(p) == p \notin ticking /\ ~InFlight(p)

\* Refused while the queue is borrowed: it stays, stopped, and the request is repeated.
Detach(p) ==
    /\ Served
    /\ IF queue[p] = "none" \/ Drained(p)
       THEN attached' = attached \ {p} /\ queue' = [queue EXCEPT ![p] = "none"]
       ELSE queue' = [queue EXCEPT ![p] = "stopped"] /\ UNCHANGED attached
    /\ UNCHANGED <<threads, ticking, stopping, started, shutdown, loop, task, lost>>

\* The answer to a queue's write.  A tick that cannot write fails; an outcome that
\* cannot be written is logged, and its claim stays.
Answer(p) ==
    /\ Served /\ task[p] \in Writing
    /\ task' = [task EXCEPT ![p] =
           IF task[p] = "outcomeWrite" THEN "ended"
           ELSE IF p \in attached THEN "dispatch" ELSE "error"]
    /\ lost' = IF task[p] = "outcomeWrite" /\ p \notin attached THEN lost \cup {p} ELSE lost
    /\ UNCHANGED <<threads, registry, started, shutdown, loop>>
-----------------------------------------------------------------------------
(* The task of one project: tick_project.  It runs on a worker thread.         *)

Becomes(p, state) == task' = [task EXCEPT ![p] = state]

\* A tick finds something to write or nothing; a stopped queue skips it.
Tick(p) ==
    /\ ThreadFree /\ task[p] = "tick"
    /\ \/ Becomes(p, "dispatch")
       \/ QueueRuns(p) /\ Becomes(p, "tickWrite")
    /\ UNCHANGED <<threads, registry, started, shutdown, loop, lost>>

\* A store that cannot be read, or a record that breaks the state machine.
TickFails(p) ==
    /\ ThreadFree /\ task[p] = "tick" /\ QueueRuns(p)
    /\ Becomes(p, "error")
    /\ UNCHANGED <<threads, registry, started, shutdown, loop, lost>>

Dispatch(p) ==
    /\ ThreadFree /\ task[p] = "dispatch"
    /\ \/ Becomes(p, "ended")
       \/ QueueRuns(p) /\ Becomes(p, "working")
    /\ UNCHANGED <<threads, registry, started, shutdown, loop, lost>>

WorkerEnds(p) ==
    /\ ThreadFree /\ task[p] = "working"
    /\ Becomes(p, "outcomeWrite")
    /\ UNCHANGED <<threads, registry, started, shutdown, loop, lost>>

\* A worker that speaks another protocol version stops its queue and the round.
DispatchIsFatal(p) ==
    /\ ThreadFree /\ task[p] = "working"
    /\ Becomes(p, "error")
    /\ IF Borrowed THEN queue' = [queue EXCEPT ![p] = "stopped"] /\ UNCHANGED started
                   ELSE started' = [started EXCEPT ![p] = "stopped"] /\ UNCHANGED queue
    /\ UNCHANGED <<threads, attached, ticking, stopping, shutdown, loop, lost>>
-----------------------------------------------------------------------------
(* The main loop, on a thread of its own.                                     *)

Round(ps) == task' = [p \in Projects |-> IF p \in ps THEN "tick" ELSE "none"]
RoundOver == \A p \in Projects : task[p] \in Over \cup {"none"}
Failed == \E p \in Projects : task[p] = "error"

StartRound ==
    /\ loop = "sleep" /\ loop' = "startup" /\ Round(Startup)
    /\ UNCHANGED <<threads, registry, started, shutdown, lost>>

\* take_attached_queues; stopped queues are taken too, their tick does nothing.
BorrowQueues ==
    /\ loop = "startup" /\ RoundOver /\ ~Failed
    /\ LET free == {p \in Projects : queue[p] # "none" /\ p \notin ticking}
       IN ticking' = ticking \cup free /\ Round(free)
    /\ loop' = "attached"
    /\ UNCHANGED <<threads, attached, queue, stopping, started, shutdown, lost>>

\* Mutant: what was borrowed is not handed back.
KeepBorrowed ==
    /\ loop = "attached" /\ RoundOver
    /\ Round({})
    /\ IF Failed THEN loop' = "closing" /\ StopStartup ELSE loop' = "sleep" /\ UNCHANGED started
    /\ UNCHANGED <<threads, registry, shutdown, lost>>

\* restore_attached_queues hands back what the round borrowed.
ReturnQueues ==
    /\ loop = "attached" /\ RoundOver
    /\ ticking' = {} /\ Round({})
    /\ IF Failed THEN loop' = "closing" /\ StopStartup ELSE loop' = "sleep" /\ UNCHANGED started
    /\ UNCHANGED <<threads, attached, queue, stopping, shutdown, lost>>

\* One failed project ends the supervisor for every project.
StartupRoundFails ==
    /\ loop = "startup" /\ RoundOver /\ Failed
    /\ loop' = "closing" /\ Round({}) /\ StopStartup
    /\ UNCHANGED <<threads, registry, shutdown, lost>>

NoticeSignal ==
    /\ signal /\ loop \in {"sleep", "startup"}
    /\ loop' = IF loop = "sleep" THEN "closing" ELSE "drain"
    /\ StopStartup
    /\ UNCHANGED <<threads, registry, shutdown, task, lost>>

Drain ==
    /\ loop = "drain" /\ RoundOver
    /\ loop' = "closing" /\ Round({})
    /\ UNCHANGED <<threads, registry, started, shutdown, lost>>

StopAdmission == stopping' = TRUE /\ queue' = StopAll(queue)

\* stop_admission, the pid file, and the end of the socket and the admission task.
Close ==
    /\ loop = "closing" /\ loop' = "exited"
    /\ StopAdmission
    /\ UNCHANGED <<threads, attached, ticking, started, shutdown, task, lost>>
-----------------------------------------------------------------------------
(* The signal, and the task that closes admission without waiting for the loop. *)

Signal ==
    /\ ~signal /\ signal' = TRUE
    /\ UNCHANGED <<threads, registry, started, admission, loop, task, lost>>

AdmissionStopsStartup ==
    /\ Served /\ signal /\ admission = "waits"
    /\ StopStartup /\ admission' = "registry"
    /\ UNCHANGED <<threads, registry, signal, loop, task, lost>>

AdmissionStopsRegistry ==
    /\ Served /\ admission = "registry"
    /\ StopAdmission /\ admission' = "done"
    /\ UNCHANGED <<threads, attached, ticking, started, signal, loop, task, lost>>
-----------------------------------------------------------------------------
SupervisorInit ==
    /\ threads \in ThreadCounts
    /\ attached = Startup
    /\ started = [p \in Startup |-> "running"]
    /\ queue = [p \in Projects |-> "none"]
    /\ ticking = {} /\ stopping = FALSE
    /\ signal = FALSE /\ admission = "waits"
    /\ loop = "sleep"
    /\ task = [p \in Projects |-> "none"]
    /\ lost = {}

Request == \E p \in Projects : Attach(p) \/ Detach(p)
ProjectStep(p) == Answer(p) \/ Tick(p) \/ Dispatch(p) \/ WorkerEnds(p)
LoopStep ==
    \/ StartRound \/ BorrowQueues \/ ReturnQueues \/ StartupRoundFails
    \/ NoticeSignal \/ Drain \/ Close
AdmissionStep == AdmissionStopsStartup \/ AdmissionStopsRegistry
Failure == \E p \in Projects : TickFails(p) \/ DispatchIsFatal(p)

SupervisorNext ==
    \/ Request
    \/ \E p \in Projects : ProjectStep(p)
    \/ LoopStep
    \/ AdmissionStep
    \/ Signal
    \/ Failure

\* The loop and the runtime go on, and a worker ends; requests, signals and
\* failures need not come.  Strong fairness for the signal: select! takes a ready
\* branch at random, and every pass of the loop offers this one again.
SupervisorFairness ==
    /\ \A p \in Projects : WF_svars(ProjectStep(p))
    /\ WF_svars(LoopStep) /\ SF_svars(NoticeSignal)
    /\ WF_svars(AdmissionStep)

SupervisorSpec == SupervisorInit /\ [][SupervisorNext]_svars
SupervisorLiveSpec == SupervisorSpec /\ SupervisorFairness
-----------------------------------------------------------------------------
\* Detach, ticks, workers and shutdown race for the authority of a project.  The
\* outcome of an admitted worker is stored, whoever detaches when; only a startup
\* project, whose queue the registry does not know, is detached from under it.
OutcomesAreStored == lost \subseteq Startup

\* Writes block the threads of the runtime that has to answer them.  With a thread
\* more than there are projects a shutdown ends, and a queue that is attached and
\* not stopped comes to its turn in round after round.  With fewer, every thread can
\* wait for an answer that no thread is left to give, and neither holds.
ThreadsSuffice == threads > Cardinality(Projects)

ShutdownEnds == ThreadsSuffice => (signal ~> (loop = "exited"))

AttachedProjectsTick ==
    ThreadsSuffice =>
        \A p \in Projects :
            (queue[p] = "running") ~>
                ((Borrowed /\ task[p] = "tick") \/ queue[p] # "running" \/ loop = "exited")
=============================================================================
