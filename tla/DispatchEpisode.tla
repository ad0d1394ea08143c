----------------------------- MODULE DispatchEpisode -----------------------------
(***************************************************************************)
(* One orb and its dispatch episodes: dispatch_one_owned between the claim    *)
(* and its release.  Inside are the outer retries, the refinement rounds and  *)
(* their quality review, the recovery of structured output and the commit      *)
(* contract, all of them around calls of WorkerLadder.  An episode works on a  *)
(* copy of the orb and stores it once, at its end.                           *)
(***************************************************************************)
EXTENDS WorkerLadder, CommitContract, RefinementLedger, Integers

CONSTANTS
    Configs,        \* the configurations and targets of an instance
    Faults,         \* disturbances allowed: subset of {"crash", "error", "ladder"}
    MaxEpisodes,    \* bound on claims
    MaxFaults       \* bound on disturbances

Structured == {"speccing", "decomposing", "reevaluating"}
Targets == Structured \cup {"refining", "executing"}
States == Targets \cup {"review", "waiting", "done", "failed", "cancelled"}

Config == [target : Targets, retries : Nat \cup {-1}, rounds : Nat \ {0}, reviews : Nat,
           stopComplete : BOOLEAN, stopUnchanged : BOOLEAN,
           contract : BOOLEAN, approval : BOOLEAN, postReview : BOOLEAN]

ASSUME EpisodeAssumption ==
    /\ Configs \subseteq Config
    /\ \A c \in Configs : c.contract => c.target = "executing"
    /\ HooksAbort \in BOOLEAN
    /\ Faults \subseteq {"crash", "error", "ladder"}
    /\ MaxEpisodes \in Nat /\ MaxFaults \in Nat

VARIABLES
    cfg,        \* the configuration, and the target the orb is dispatched for
    disk,       \* the stored orb: state, rounds its text includes, checkpoint
    claim,      \* its claim file exists
    pc,         \* where the episode is
    orb,        \* the copy the episode works on
    out,        \* the outcome so far
    rd,         \* the refinement round
    retries,    \* completed retries of the whole call
    ledger,     \* the round diagnostics in executions.jsonl
    repo,       \* the repository relative to the commit snapshot
    approved,   \* history variable: the rounds of the text a reviewer accepted, or -1
    bounces,    \* history variable: quality rejections that scheduled a retry
    lost,       \* history variable: an episode ended without storing its copy
    episodes, faults

ladder == <<call, running, leaked>>
local == <<orb, out, rd, retries>>
durable == <<disk, claim, ledger, repo>>
history == <<approved, bounces, lost>>
budget == <<episodes, faults>>
evars == <<cfg, pc, ladder, local, durable, history, budget>>

\* Where a returned call leads is a matter of pc.
Calling == {"main", "round", "roundRepair", "repair", "fresh"}
Resting == {"free", "held"}
Places == Calling \cup Resting
    \cup {"claimed", "snapshot", "backoff", "roundBackoff", "review", "verify", "record",
          "settle", "stored"}

Limit == IF cfg.retries = -1 THEN 0 ELSE cfg.retries
MaxRound == cfg.rounds + MaxEpisodes
Orb == [st : States, edits : 0..MaxRound, checkpoint : Nat]
Round == [round : 1..MaxRound, attempt : 1..Limit + 1, before : -1..MaxRound,
          reason : Reasons, quality : Nat, bounce : BOOLEAN]

TypeOK ==
    /\ cfg \in Configs
    /\ disk \in Orb /\ orb \in Orb
    /\ claim \in BOOLEAN /\ pc \in Places
    /\ call \in Calls /\ running \in BOOLEAN /\ leaked \in BOOLEAN
    /\ out \in Outcomes \cup {"none"}
    /\ rd \in Round
    /\ retries \in 0..Limit
    /\ ledger \in Seq(Diagnostics(MaxRound))
    /\ disk.checkpoint <= Len(ledger) /\ orb.checkpoint <= Len(ledger)
    /\ repo \in Repositories(2)
    /\ approved \in -1..MaxRound /\ bounces \in 0..MaxEpisodes /\ lost \in BOOLEAN
    /\ episodes \in 0..MaxEpisodes /\ faults \in 0..MaxFaults

Goto(p) == pc' = p
Fault(kind) == kind \in Faults /\ faults < MaxFaults /\ faults' = faults + 1 /\ UNCHANGED episodes
Call(p) == Goto(p) /\ call' = NewCall /\ UNCHANGED <<running, leaked>>
Leave(p) == Goto(p) /\ call' = NoCall /\ UNCHANGED <<running, leaked>>
Returned(p) == pc = p /\ In("returned")
Refining == cfg.target = "refining"

NoRound == [round |-> 1, attempt |-> 1, before |-> -1, reason |-> "continues", quality |-> 1,
            bounce |-> FALSE]

\* The task of the episode is gone, and its copy with it.
NoCopy == [st |-> cfg.target, edits |-> 0, checkpoint |-> 0]
Forget == orb' = NoCopy /\ out' = "none" /\ rd' = NoRound /\ retries' = 0

-----------------------------------------------------------------------------
(* The claim, the recheck under it, and the commit snapshot.                *)

Claim ==
    /\ pc = "free" /\ running /\ ~claim /\ disk.st = cfg.target
    /\ episodes < MaxEpisodes /\ episodes' = episodes + 1
    /\ claim' = TRUE /\ Goto("claimed")
    /\ UNCHANGED <<cfg, ladder, local, disk, ledger, repo, history, faults>>

Refuse ==
    /\ pc = "claimed" /\ (disk.st # cfg.target \/ ~running)
    /\ claim' = FALSE /\ Goto("free")
    /\ UNCHANGED <<cfg, ladder, local, disk, ledger, repo, history, budget>>

FirstRound ==
    [NoRound EXCEPT !.round = CompletedRound(ledger, disk.checkpoint) + 1,
                    !.quality = QualityRejections(ledger, disk.checkpoint) + 1]

Admit ==
    /\ pc = "claimed" /\ disk.st = cfg.target /\ running
    /\ orb' = disk /\ rd' = FirstRound /\ out' = "none" /\ retries' = 0
    /\ repo' = AsFound
    /\ IF cfg.contract THEN Leave("snapshot") ELSE Call("main")
    /\ UNCHANGED <<cfg, disk, claim, ledger, history, budget>>

SnapshotTaken ==
    /\ pc = "snapshot" /\ Call("main")
    /\ UNCHANGED <<cfg, local, durable, history, budget>>

\* No git repository, no HEAD, an unreadable file: failed before any worker.
SnapshotFails ==
    /\ pc = "snapshot" /\ Goto("record") /\ out' = "failed"
    /\ Fault("error")
    /\ UNCHANGED <<cfg, ladder, orb, rd, retries, durable, history>>

\* The worker, while it works under the contract, may do anything to the repository.
Work ==
    /\ pc \in Calling /\ LadderStep
    /\ IF In("send") /\ cfg.contract THEN repo' \in Repositories(2) ELSE UNCHANGED repo
    /\ UNCHANGED <<cfg, pc, local, disk, claim, ledger, history, budget>>

WorkFails ==
    /\ pc \in Calling /\ LadderFault
    /\ Fault("ladder")
    /\ UNCHANGED <<cfg, pc, local, durable, history>>
-----------------------------------------------------------------------------
(* Outer retries of a completed failed call: every target but Refining.       *)

\* Mutant: one retry more than configured.
AllowedOneMore(count) == cfg.retries = -1 \/ count <= cfg.retries

\* A configured -1 retries without limit, and the count only sets the backoff.
Allowed(count) == cfg.retries = -1 \/ count < cfg.retries

\* Mutant: the flag is read once, when the episode starts.
RunningAtStart == TRUE

StillRunning == running

AfterCall(result) ==
    IF cfg.target \in Structured /\ result \in {"bad", "silent"} THEN "repair"
    ELSE IF cfg.contract THEN "verify" ELSE "record"

RetryMain ==
    /\ Returned("main") /\ ~Refining
    /\ call.out \in Failures /\ Allowed(retries) /\ StillRunning
    /\ Leave("backoff")
    /\ out' = call.out
    /\ retries' = IF cfg.retries = -1 THEN retries ELSE retries + 1
    /\ UNCHANGED <<cfg, orb, rd, durable, history, budget>>

MainEnds ==
    /\ Returned("main") /\ ~Refining /\ call.out # "fatal"
    /\ ~(call.out \in Failures /\ Allowed(retries) /\ StillRunning)
    /\ out' = call.out
    /\ IF AfterCall(call.out) = "repair" THEN Call("repair") ELSE Leave(AfterCall(call.out))
    /\ UNCHANGED <<cfg, orb, rd, retries, durable, history, budget>>

BackoffElapses ==
    /\ pc = "backoff" /\ StillRunning /\ Call("main")
    /\ UNCHANGED <<cfg, local, durable, history, budget>>

BackoffStops ==
    /\ pc = "backoff" /\ ~StillRunning /\ Goto(AfterCall(out))
    /\ UNCHANGED <<cfg, ladder, local, durable, history, budget>>

\* Structured phases: a tool-free repair of the invalid output, then one fresh
\* worker.  Neither asks whether the queue still runs.
Repaired ==
    /\ pc \in {"repair", "fresh"} /\ In("returned") /\ call.out = "good"
    /\ Leave("record") /\ out' = "good"
    /\ UNCHANGED <<cfg, orb, rd, retries, durable, history, budget>>

RepairFails ==
    /\ Returned("repair") /\ call.out \notin {"good", "fatal"}
    /\ Call("fresh")
    /\ UNCHANGED <<cfg, local, durable, history, budget>>

FreshFails ==
    /\ Returned("fresh") /\ call.out \notin {"good", "fatal"}
    /\ Leave("record") /\ out' = "failed"
    /\ UNCHANGED <<cfg, orb, rd, retries, durable, history, budget>>
-----------------------------------------------------------------------------
(* Refinement rounds.                                                       *)

\* A round is over when its call, the first one or a later one, has returned.
Judging == Refining /\ (Returned("main") \/ Returned("round"))

FinalRound(changed, complete) ==
    \/ cfg.stopComplete /\ complete
    \/ cfg.stopUnchanged /\ ~changed
    \/ rd.round >= cfg.rounds

\* apply_plan, the diagnostic of the round, and the next round or the review.
\* updated_at moves when the plan sets a field, even to what it was.
ApplyRound ==
    /\ call.out = "good"
    /\ Judging \/ Returned("roundRepair")
    /\ \E touched, complete \in BOOLEAN : \E changed \in IF touched THEN BOOLEAN ELSE {FALSE} :
         LET final == FinalRound(changed, complete)
             reason == IF final THEN "final" ELSE "continues"
         IN  /\ orb' = [orb EXCEPT !.edits = rd.round,
                                   !.checkpoint = IF touched THEN Len(ledger) + 1 ELSE @]
             /\ ledger' = Append(ledger, [round |-> rd.round, reason |-> reason])
             /\ IF final
                THEN /\ rd' = [rd EXCEPT !.reason = "final", !.before = orb.edits]
                     /\ Leave("review")
                ELSE /\ rd' = [rd EXCEPT !.round = @ + 1, !.attempt = 1]
                     /\ Call("round")
    /\ out' = "good"
    /\ UNCHANGED <<cfg, retries, disk, claim, repo, history, budget>>

RepairRound ==
    /\ Judging /\ call.out = "bad"
    /\ Call("roundRepair")
    /\ UNCHANGED <<cfg, local, durable, history, budget>>

\* The failed repair of a round leaves its own outcome, which may be Done.
RoundResult ==
    IF Judging /\ call.out = "silent" THEN "failed" ELSE call.out

RoundFailed ==
    \/ Judging /\ call.out \notin {"good", "bad", "fatal"}
    \/ Returned("roundRepair") /\ call.out \notin {"good", "fatal"}

AfterRounds(result) == IF result \in Done THEN "review" ELSE "record"

RetryRound ==
    /\ RoundFailed /\ Allowed(rd.attempt - 1) /\ StillRunning
    /\ out' = RoundResult
    /\ rd' = [rd EXCEPT !.attempt = IF cfg.retries = -1 THEN @ ELSE @ + 1]
    /\ Leave("roundBackoff")
    /\ UNCHANGED <<cfg, orb, retries, durable, history, budget>>

GiveUpRound ==
    /\ RoundFailed /\ ~(Allowed(rd.attempt - 1) /\ StillRunning)
    /\ out' = RoundResult
    /\ rd' = [rd EXCEPT !.reason = "worker_failed"]
    /\ Leave(AfterRounds(RoundResult))
    /\ UNCHANGED <<cfg, orb, retries, durable, history, budget>>

RoundBackoffElapses ==
    /\ pc = "roundBackoff" /\ StillRunning /\ Call("round")
    /\ UNCHANGED <<cfg, local, durable, history, budget>>

RoundBackoffStops ==
    /\ pc = "roundBackoff" /\ ~StillRunning
    /\ rd' = [rd EXCEPT !.reason = "worker_failed"]
    /\ Goto(AfterRounds(out))
    /\ UNCHANGED <<cfg, ladder, orb, out, retries, durable, history, budget>>
-----------------------------------------------------------------------------
(* The quality review of a refined specification, by a worker of its own.     *)

ReviewAccepts ==
    /\ pc = "review" /\ Goto("record")
    /\ approved' = orb.edits
    /\ UNCHANGED <<cfg, ladder, local, durable, bounces, lost, budget>>

\* A rejection, or a reviewer that fails, undoes the last round if another
\* attempt is left; otherwise the candidate is held for a human.
ReviewDeclines ==
    /\ pc = "review" /\ Goto("record")
    /\ LET again == rd.quality < cfg.reviews
       IN  /\ \E reason \in Rejected : rd' = [rd EXCEPT !.reason = reason, !.bounce = again]
           /\ orb' = [orb EXCEPT !.edits = IF again /\ rd.before # -1 THEN rd.before ELSE @]
    /\ UNCHANGED <<cfg, ladder, out, retries, durable, history, budget>>
-----------------------------------------------------------------------------
(* The end of an episode: commit contract, last record, outcome, release.    *)

Verify ==
    /\ pc = "verify" /\ Goto("record")
    /\ \E report \in SUBSET Lines :
         out' = IF out \in Done /\ ~Verified(repo, TRUE, report) THEN "failed" ELSE out
    /\ UNCHANGED <<cfg, ladder, orb, rd, retries, durable, history, budget>>

\* Mutant: the claim goes before the outcome is stored.
RecordAndRelease ==
    /\ pc = "record" /\ Goto("settle")
    /\ ledger' = IF Refining THEN Append(ledger, [round |-> rd.round, reason |-> rd.reason]) ELSE ledger
    /\ claim' = FALSE
    /\ UNCHANGED <<cfg, ladder, local, disk, repo, history, budget>>

Record ==
    /\ pc = "record" /\ Goto("settle")
    /\ ledger' = IF Refining THEN Append(ledger, [round |-> rd.round, reason |-> rd.reason]) ELSE ledger
    /\ UNCHANGED <<cfg, ladder, local, disk, claim, repo, history, budget>>

\* Mutant: approval is all that Waiting takes.
RefinedUnlessApproval ==
    IF rd.bounce THEN "refining" ELSE IF ~cfg.approval THEN "waiting" ELSE "review"

\* Accepted and needing no approval: Waiting.  Rejected: Refining again or held.
Refined ==
    IF rd.bounce THEN "refining"
    ELSE IF rd.reason \notin Rejected /\ ~cfg.approval THEN "waiting" ELSE "review"

OnDone ==
    CASE cfg.target = "speccing" -> {"decomposing"}
      [] cfg.target = "decomposing" -> {"refining"}
      [] cfg.target = "refining" -> {Refined}
      [] cfg.target = "reevaluating" -> {"executing", "refining", "failed"}
      [] cfg.target = "executing" -> {IF cfg.postReview THEN "review" ELSE "done"}

Landing ==
    IF out \in Done THEN OnDone
    ELSE IF out \in Failures THEN {"failed"}
    ELSE IF out = "cancelled" THEN {"cancelled"} ELSE {cfg.target}

\* Aborted stores the copy as it is; every other outcome moves updated_at.
Settle ==
    /\ pc = "settle" /\ Goto("stored")
    /\ \E st \in Landing :
         disk' = [orb EXCEPT !.st = st,
                             !.checkpoint = IF out = "aborted" THEN @ ELSE Len(ledger)]
    /\ bounces' = IF out \in Done /\ rd.bounce THEN bounces + 1 ELSE bounces
    /\ UNCHANGED <<cfg, ladder, local, claim, ledger, repo, approved, lost, budget>>

Release ==
    /\ pc = "stored" /\ Goto("free")
    /\ claim' = FALSE
    /\ Forget
    /\ UNCHANGED <<cfg, ladder, disk, ledger, repo, history, budget>>

-----------------------------------------------------------------------------
(* Errors and crashes: the copy is lost, the claim stays.                   *)

Drop == Goto("held") /\ call' = NoCall /\ Forget /\ lost' = TRUE /\ UNCHANGED <<approved, bounces>>

\* Only the first call's fatal errors stop the queue; later calls wrap theirs.
CallIsFatal ==
    /\ pc \in Calling /\ In("returned") /\ call.out = "fatal"
    /\ Drop
    /\ running' = (running /\ pc # "main")
    /\ UNCHANGED <<cfg, leaked, durable, budget>>

\* A `?` on a read, an append or a store write between the calls.
EpisodeError ==
    /\ pc \in Places \ (Resting \cup {"backoff", "roundBackoff", "review", "snapshot"})
    /\ call.step \in {"idle", "returned"} /\ call.out # "fatal"
    /\ Drop
    /\ Fault("error")
    /\ UNCHANGED <<cfg, running, leaked, durable>>

Crash ==
    /\ pc \notin Resting
    /\ Drop
    /\ running' = FALSE
    /\ leaked' \in IF In("send") \/ In("shutdown") \/ pc = "review" THEN BOOLEAN ELSE {leaked}
    /\ Fault("crash")
    /\ UNCHANGED <<cfg, durable>>
-----------------------------------------------------------------------------
(* Stopping, restarting, and the operator.                                  *)

Stop ==
    /\ running /\ running' = FALSE
    /\ UNCHANGED <<cfg, pc, call, leaked, local, durable, history, budget>>

Restart ==
    /\ pc \in Resting /\ ~running /\ running' = TRUE
    /\ UNCHANGED <<cfg, pc, call, leaked, local, durable, history, budget>>

WorkerExits ==
    /\ leaked /\ leaked' = FALSE
    /\ UNCHANGED <<cfg, pc, call, running, local, durable, history, budget>>

\* The documented recovery, once no worker is left.
ArchiveClaim ==
    /\ pc = "held" /\ ~leaked
    /\ claim' = FALSE /\ Goto("free")
    /\ UNCHANGED <<cfg, ladder, local, disk, ledger, repo, history, budget>>

\* reset of a failed orb, revise of one under review: the text stays, updated_at moves.
Redo ==
    /\ disk.st \in {"failed", "review"}
    /\ disk' = [disk EXCEPT !.st = cfg.target, !.checkpoint = Len(ledger)]
    /\ UNCHANGED <<cfg, pc, ladder, local, claim, ledger, repo, history, budget>>

-----------------------------------------------------------------------------
Init ==
    /\ cfg \in Configs
    /\ disk = NoCopy
    /\ claim = FALSE /\ pc = "free"
    /\ call = NoCall /\ running = TRUE /\ leaked = FALSE
    /\ orb = disk /\ out = "none" /\ retries = 0
    /\ ledger = <<>> /\ repo = AsFound
    /\ rd = NoRound
    /\ approved = -1 /\ bounces = 0 /\ lost = FALSE
    /\ episodes = 0 /\ faults = 0

Rounds ==
    \/ ApplyRound \/ RepairRound \/ RetryRound \/ GiveUpRound
    \/ RoundBackoffElapses \/ RoundBackoffStops \/ ReviewAccepts \/ ReviewDeclines

EpisodeStep ==
    \/ Refuse \/ Admit \/ SnapshotTaken \/ Work \/ CallIsFatal
    \/ RetryMain \/ MainEnds \/ BackoffElapses \/ BackoffStops
    \/ Repaired \/ RepairFails \/ FreshFails
    \/ Rounds
    \/ Verify \/ Record \/ Settle \/ Release

Disturbance == SnapshotFails \/ WorkFails \/ EpisodeError \/ Crash

Next ==
    \/ Claim \/ EpisodeStep \/ Disturbance
    \/ Stop \/ Restart \/ WorkerExits \/ ArchiveClaim \/ Redo

Spec == Init /\ [][Next]_evars

\* The task of an episode runs, and its workers and reviewers answer.
LiveSpec == Spec /\ WF_evars(EpisodeStep)
-----------------------------------------------------------------------------
(* Properties.                                                              *)

\* "Cleanup failure must block replacement work": while a worker of the ladder
\* may live, its claim stays and nothing is started.
LeftWorkerBlocksReplacement ==
    leaked => claim /\ (pc = "held" \/ In("returned"))

\* Quality rejections send a spec back less often than the configured number of
\* review attempts, over all episodes, restarts and revisions together.
BouncesAreBounded == bounces < cfg.reviews \/ bounces = 0

\* A spec that a rejection sent back is stored without the rejected candidate, and
\* the ledger resumes it at exactly the round its text has reached: where a round
\* that changes nothing ends the refinement, and no episode was lost.  (Without
\* stop_when_unchanged an aborted episode may leave applied rounds uncredited.)
RejectedCandidateIsUndone ==
    (cfg.stopUnchanged /\ pc = "stored" /\ out \in Done /\ rd.bounce /\ disk.st = "refining" /\ ~lost) =>
        disk.edits = CompletedRound(ledger, disk.checkpoint)

\* Only a text that a reviewer accepted in this very form goes on to execution.
OnlyReviewedSpecsAdvance == disk.st = "waiting" => approved = disk.edits

\* Under the contract a completed orb stands for one clean commit of this
\* episode, all its retries together, or for none.
DoneIsCommitted ==
    (cfg.contract /\ disk.st \in {"done", "review"}) =>
        /\ repo.residual = "as_found"
        /\ repo.ahead = 0 \/ (repo.ahead = 1 /\ repo.tip = "clean")

\* "Resume the next unfinished round": the ledger never credits a round whose
\* edits the stored text does not have.
NoRoundIsSkipped == Refining => CompletedRound(ledger, disk.checkpoint) <= disk.edits

Phase ==
    IF pc \in Resting THEN "idle" ELSE IF pc = "stored" THEN "stored" ELSE "working"

Contracted == INSTANCE EpisodeContract WITH
    target <- cfg.target, st <- disk.st, phase <- Phase, left <- leaked

\* An episode, whatever happens inside it, keeps its contract.
ImplementsContract == Contracted!Contract

\* A stopped queue's episode ends: no retry, backoff or round keeps it alive.
StopEndsEpisode == (pc \notin Resting /\ ~running) ~> (pc \in Resting)
=============================================================================
