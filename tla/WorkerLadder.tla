------------------------------ MODULE WorkerLadder ------------------------------
(***************************************************************************)
(* One call of dispatch_orb_with_retry_limit: the pre-worker-spawn gate, then *)
(* whole attempts (spawn, send, shutdown), each by a fresh worker process.    *)
(***************************************************************************)
EXTENDS Naturals

CONSTANT HooksAbort     \* whether a pre-worker-spawn hook may exit 2

VARIABLES
    call,       \* the call: its step, attempt, outcome, and whether that may be retried
    running,    \* the `running` flag of the queue
    leaked      \* a worker process whose teardown failed, or that a crash left, may live

Done == {"good", "bad", "silent"}           \* Done with a valid, an invalid, no response
Failures == {"error", "failed"}
Outcomes == Done \cup Failures \cup {"cancelled", "aborted", "fatal"}
Steps == {"idle", "gate", "prepare", "spawn", "send", "shutdown", "decide", "returned"}

\* Every call of the queue loop allows one retry.
RetryLimit == 1

NoCall == [step |-> "idle", attempt |-> 0, out |-> "none", retry |-> FALSE]
NewCall == [NoCall EXCEPT !.step = "gate"]
Calls == [step : Steps, attempt : 0..RetryLimit, out : Outcomes \cup {"none"}, retry : BOOLEAN]

In(step) == call.step = step
Goes(step) == call' = [call EXCEPT !.step = step]
Yields(step, out, retry) == call' = [call EXCEPT !.step = step, !.out = out, !.retry = retry]

\* An exit 2 of the hook ends the call before any worker exists.
Gate ==
    /\ In("gate")
    /\ Goes("spawn") \/ (HooksAbort /\ Yields("returned", "aborted", FALSE))
    /\ UNCHANGED <<running, leaked>>

\* A retry gets a worker id, a transcript and a state directory of its own.
Prepare ==
    /\ In("prepare")
    /\ Goes("spawn")
    /\ UNCHANGED <<running, leaked>>

PrepareFails ==
    /\ In("prepare")
    /\ Yields("returned", "error", FALSE)
    /\ UNCHANGED <<running, leaked>>

\* A worker that times out or dies before it is ready may be retried, one whose
\* messages do not parse may not.
Spawn ==
    /\ In("spawn")
    /\ Goes("send") \/ (\E retry \in BOOLEAN : Yields("decide", "error", retry))
    /\ UNCHANGED <<running, leaked>>

\* Rejected or mismatched initialisation, or a failed cleanup of it.
SpawnIsFatal ==
    /\ In("spawn")
    /\ Yields("returned", "fatal", FALSE)
    /\ leaked' \in BOOLEAN
    /\ UNCHANGED running

\* The result, an unresolved tool call in place of one, or a broken pipe.
Reply ==
    /\ In("send")
    /\ \/ \E out \in Done \cup {"cancelled"} : Yields("shutdown", out, FALSE)
       \/ \E retry \in BOOLEAN : Yields("shutdown", "error", retry)
       \/ Yields("shutdown", "failed", TRUE)
    /\ UNCHANGED <<running, leaked>>

\* Mutant: like the reviewer's, a shutdown that fails is ignored.
ShutdownFailsUnseen ==
    /\ In("shutdown")
    /\ Goes("decide")
    /\ leaked' = TRUE
    /\ UNCHANGED running

Shutdown ==
    /\ In("shutdown")
    /\ Goes("decide")
    /\ UNCHANGED <<running, leaked>>

\* The process group could not be signalled or reaped: the call ends in an error
\* that no caller retries.
ShutdownFails ==
    /\ In("shutdown")
    /\ Yields("returned", "fatal", FALSE)
    /\ leaked' = TRUE
    /\ UNCHANGED running

\* A retry needs a retryable failure, an attempt left and a queue still running.
Decide ==
    /\ In("decide")
    /\ IF call.retry /\ call.attempt < RetryLimit /\ running
       THEN call' = [NoCall EXCEPT !.step = "prepare", !.attempt = call.attempt + 1]
       ELSE Goes("returned")
    /\ UNCHANGED <<running, leaked>>

LadderStep == Gate \/ Prepare \/ Spawn \/ Reply \/ Shutdown \/ Decide
LadderFault == PrepareFails \/ SpawnIsFatal \/ ShutdownFails
=============================================================================
