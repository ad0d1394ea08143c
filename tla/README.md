# Verification of orboros

TLA+ models of orboros, the TLC configurations that check them on small
instances, and theorems about them checked by TLAPS.  The reference is the
source under `src/src`; `Q:` below is `queue_loop.rs`, `D:` `daemon.rs`, `S:`
`supervisor.rs`, `W:` `worker/dispatcher.rs`, `P:` `worker/process.rs`, `O:`
`orb_cmd.rs`, `DE:` `phases/decompose.rs`, `CF:` `config.rs`.

| part | modules | runs |
|---|---|---|
| scheduler and operators (section 2) | `QueueLoop`, `QueueLoopProofs`, `MCQueueLoop` | `queue_*` |
| shared-state authority (3) | `StateAuthority`, `StateJournal`, `StateJournalProofs`, `MCStateJournal` | `journal_*` |
| one dispatch episode (4) | `WorkerLadder`, `RefinementLedger`, `CommitContract`, `DispatchEpisode`, `EpisodeContract`, `DispatchEpisodeProofs`, `MCEpisode` | `episode`, `episode_skipped_round` |
| supervisor daemon, decomposition, chat, hooks, configuration, benchmark (5) | `Supervisor`, `Decomposition`, `Conversation`, `Hooks`, `Configuration`, `Benchmark`, `DecompositionContract`, `MCComponents`, `SupervisorProofs`, `DecompositionProofs`, `ConversationProofs`, `BenchmarkProofs`, `ComponentsProofs` | `components`, `decomposition_deleted_child` |

    tlc -workers 2 -config queue_safety.cfg MCQueueLoop.tla     # one run
    for m in *Proofs.tla; do tlapm $m; done                     # the proofs (section 6)

## 1. The system

orboros schedules *orbs* (epics, features, tasks) kept as append-only JSONL
records.  A tick moves orbs along their lifecycle, a dispatch round runs one
LLM worker process per eligible orb, operators review, reset, edit and delete
from the command line.  Nothing but files (and, in shared mode, one local
socket) connects these parties.

| component | state | operations | what makes it correct |
|---|---|---|---|
| Queue loop (`queue_loop.rs`) | orb records, claim files, `running`/`paused` flags, one task per dispatched orb | `tick`/`tick_async` (four stages), `dispatch_ready_orbs`, `dispatch_one_owned`, `drain_target`, `stop` | one worker per orb, accepted work never repeated, dependencies and ancestors respected, a stop drains, the queue comes to rest only at an end or at a human |
| Daemon (`daemon.rs`) | pid file, admission flag, the loop | `run_daemon`, `run_supervisor`, shutdown | every attached project comes to its turn, outcomes are stored, shutdown ends |
| Supervisor (`supervisor.rs`) | journal of state operations, projection files, watermark, project leases, sessions | mutate, snapshot, attach, detach, status, recovery at start | the journal is the truth: projection = applied prefix, at-most-once per operation id, one owner per project |
| Worker process (`worker/process.rs`, `fsm.rs`, `ipc/`) | pipe, process group | spawn, init, send, events, teardown | one outcome per send, a teardown that fails is never followed by replacement work |
| Worker dispatcher (`worker/dispatcher.rs`) | attempt and retry counters, the orb's execution marker | `dispatch_orb…`, `apply_dispatch_outcome_with_review`, `next_phase_on_dispatch_success` | every outcome reaches the record once, the marker never strands an orb |
| Decomposition (`phases/decompose.rs`) | pinned plan, child records, edges | parse, `apply_decomposition`, recovery | the child graph is complete before the parent moves, a replay adds nothing twice |
| Refinement and quality review (`phases/refinement.rs`, `second_opinion*.rs`, `execution.rs`) | round counter in the execution ledger | rounds, repair, quality rejection and retry | rounds resume where the stored text is, rejections are bounded, only reviewed text is executed |
| Re-evaluation (`phases/re_evaluation.rs`) | verdict in the record | context, parse, `apply_plan` | a verdict moves the orb exactly once |
| Operator commands (`orb_cmd.rs`, `phases/review.rs`) | none of their own | review, reset, update, delete, recover-decomposition | a decision applies to the kind of review it answers, a failed attempt can always be reset |
| Completion commits (`worker/commit.rs`) | git HEAD before and after | snapshot, verify | an execution without its commit is not Done |
| Hooks (`hooks/`) | running hook programs, input owed to them | fire, match, run | a firing ends, an async hook gets its input, only exit 2 or a timeout that aborts changes the state machine |
| Conversation (`convo/`) | transcript, worker of the session, context for the next message | turns, `/clear`, `/model`, `/spawn`, `/await`, exit | text is filed under the message it answers, a reset separates what is before from what is after |
| Configuration (`config.rs`) | files, registry of projects | layered load, validation, resolving a model | a configuration that loads has a model for every role |
| Orb and dependency store (crate `orbs`, not in the repository) | `orbs.jsonl`, edges | `load_all`, `update`, `ready`, `waiting`, `set_status`, `set_phase` | modelled from its use, marked external |
| Benchmarks (`bench/`) | result rows, run summaries, counters of the running cases | run one at a time or several at once, grade, time out, store, summarise | what a summary counts is stored |
| Prompts, credentials, routing, parsers, CLI, logs, telemetry | – | – | not part of the scheduler; the values that gate transitions are CONSTANTS |

**How they interact.**  Runners (a daemon, or a foreground `run`/`execute`) own
no lock on the store.  A tick works from lists it read earlier and stores whole
records; a worker's outcome is the record read when the worker was admitted,
stored whole when it ends; an operator command is a read and a write of one
record.  The claim file `dispatch-claims/<hash>.claim` (Q:97) is the only
mutual exclusion and it covers the dispatch episode only.  In shared mode the
stores write through the supervisor's socket, but the client retries a revision
conflict with the same full record (S:626-641), so the last writer still wins.

**What is hard here.**  Stale snapshots written back; admission checked before
a wait for a permit; a crash between outcome and claim release; partial
decomposition; two kinds of review told apart by leftovers in the record; a
marker that makes the dispatcher skip an orb; several runners on one store;
progress counted in a ledger that is written before the record it is about; a
daemon that talks to itself over its own socket.
`PROJECT.json` lists every hazard at its line with the property that covers it.

## 2. The scheduler: `QueueLoop`

One project, its runners, its operators.  Variables and code:

| variable | code |
|---|---|
| `store` | last record of each orb: its status or phase, the execution marker (`orb.execution.prompt_category`, here the target's state), the completion-review label |
| `history` | last non-failed phase in the orb's record history: what `reset` retries |
| `claims`, `orphans` | claim files; orbs with a worker process that outlived its task |
| `todo` | the children that the decompositions of a runner still have to append |
| `pc`, `running`, `plan` | where a runner is (idle, the four tick stages, dispatch, join, down), its stop flag, the writes its tick has still to make from its snapshots |
| `attempt`, `copy` | state of each dispatch task and the record it holds |
| `accepted` | history variable: an Execute result of the orb is stored |
| `faults`, `setbacks`, `moves` | the bounds of an instance |

Actions and code.  *Tick*: `BeginTick` reads the store and computes the writes
of the stages start, ready and waiting; `NextStage` into "roots" reads the
store again, exactly as Q:546-553 does; `TickWrite` stores one item (snapshot
record with its state replaced, marker cleared on entry to execution, Q:584),
`HookAborts` skips it, `TickFails` and `TickBreaks` end the tick early, after which the
daemon goes on to dispatch and the supervisor and `drain_target` stop.
*Dispatch*: `BeginDispatch` selects targets (Q:979), each becomes a task:
`Abandon` (stopped before its permit), `Acquire` (`create_new` on the claim),
`Refuse`/`Admit` (recheck on a fresh read, Q:1759), then one outcome:
`Succeed`, `SetBack`, `SpawnAborts`, and `Release` archiving the claim after
the record is stored (Q:2687).  Before a
decomposition succeeds, `ReadChildren` determines once which children the store does not show
(DE:125, DE:166) and `Materialize` appends them one at a time.  `Joined` ends the round when
every task ended.
*Errors*: `DispatchError` (a `?` in one task), `FatalError` (stop and abort
all), `Crash`, `OrphanExits`.  *Control*: `Stop`, `Exit`, `Start`.
*Operators*: `Approve`, `Reject`, `Revise` (the kind of review is
`PostCompletionReview`), `Reset`, `EditStatus`, `Delete`, and `ArchiveClaim`,
the manual claim recovery of `src/RELIABILITY.md:14-17`.

Abstractions, each of them an over-approximation unless noted:

- Tasks use OrbStatus and phase orbs OrbPhase in the code; the model has one
  name space.  Prompts, results, designs and every field no guard reads are dropped.
- Everything inside one worker episode (worker retries, backoff, refinement
  rounds, structured repair, quality review) is the single step from "working"
  to an outcome; the outcomes are the union of what those ladders can return.
  Section 4 models the inside and shows that it promises no other outcomes.
- Items of a stage are written in any order; the code uses list order.
- `pause` is not modelled: it only makes a tick return early.  The permit shared
  between projects is not modelled; a task waiting on it looks like one waiting on its own.
- The refusal of a round by the completion-commit contract (Q:1017) is one case
  of `FatalError`.
- `has_parent_final_work`, the parent relation and the edges are constants of an instance.
  The parent relation has no cycle.  Every phase orb decomposes into a fixed non-empty set
  of children that do not exist before.
- Setting `running` to false commutes with the creation of a claim, so
  `Acquire` reads both in one step; the recheck reads the flag again.

### Runs

Instances (`MCQueueLoop`): *Pipeline*, a feature `f` decomposed into the
ordered tasks `a`, `b`, waiting for a task `d`; *Tasks*, an aggregate task `f`
with a child `a`, waiting for `d`.  Between them they have every kind of orb,
both kinds of parent, a chain of dependencies inside a parent and one across.

| run | instance and bounds | shows |
|---|---|---|
| `queue_safety` | Pipeline with final work, one runner, aborting hooks, one crash or error, two set-backs, three operator commands, fairness (164 k states) | type invariant; `ClaimsExclusive`; `AcceptedWorkNotRepeated`; `DependenciesHoldWhileExecuting`; `AncestorsReleasedWhileExecuting`; `ParentFollowsChildren`; `NoStrandedMarker`; `FailedAttemptIsResettable`; `TerminalIsFinal`; `StopDrains`; `QueueDrains` |
| `queue_two_runners` | Tasks, two interchangeable runners, status edits and deletes, one fault, one command (403 k states) | `ClaimsExclusive` between runners, across crashes, errors and restarts |
| `queue_stuck_parent` | Pipeline without final work | violation, finding 1 |
| `queue_stale_reevaluation` | Pipeline without final work, aborting hooks | violation, finding 2 |
| `queue_stale_failure` | Tasks, two runners | violation, finding 3 |

*Why the bounds suffice.*  A claim is contested by at most two parties at a time, so two
runners, or one runner and an orphan, exhaust its cases.  Two set-backs let a phase orb
return to refining and fail, or fail twice; three commands allow stop, reset and a review,
or approve, revise, approve.  One fault is enough because a crash or error leaves only a
claim, an orphan and the stored records behind, all of which the next pass starts from.  The
theorems of section 6 hold without these bounds.

*What the passing runs do not claim.*  `TerminalIsFinal` and `AcceptedWorkNotRepeated` are
properties of one runner on a store.  With two runners they fail, through the same stale
tick write as finding 3. `TerminalIsFinal` also relies on every phase parent having final
work: otherwise finding 2 reopens a Done parent.  Hooks that abort are not needed for that.
Two ticks that an error cuts off after the stage "ready" let the children of a Waiting
parent finish while its own dependency is open; the next tick completes the parent and
writes Reevaluating over it.  Edits of an orb while its worker runs are overwritten by the
outcome; `src/RELIABILITY.md:20-24` documents that limit, so the pipeline run allows
reviews, resets and stops and no such edits.  Nor does it delete: a deleted child is begun
again by the next decomposition of its parent (finding 7), and a child deleted or begun
again behind its parent's back breaks the properties that relate the two.  After a fault
`QueueDrains` also accepts a claim that nobody holds as a rest: it keeps its orb from being
dispatched until an operator has resolved it.

### Fairness

`WF(Tick(r) \/ Dispatch(r) \/ Exit(r))` for each runner: a live process keeps running its
loop, its workers end, and a loop whose flag is down leaves.  That a worker ends is an
assumption about workers: the code could bound its wait, but production sets no init or send
timeout (W:1013-1015), so a worker that never answers keeps its claim, its permit and a
stopping runner for ever.  One fairness condition per runner, because the tokio tasks of a
round all make progress until the join loop is empty.  Nothing is assumed of operators,
hooks, set-backs, faults, or restarts.

### Findings

1. **A parent without final work can stay in Executing for ever.**
   A decomposed parent that waits for a dependency is moved to Reevaluating; the
   verdict Continue moves it to Executing, past ExecutingChildren.  The
   dispatcher skips it (Q:1002) and `complete_roots` knows only Waiting and
   ExecutingChildren (Q:689-698), against "Detects root orbs whose children are
   all Done and marks them Done." (Q:816).
2. **A tick can reopen a parent it has just completed.**
   Stage four uses the list read at the start of the tick (Q:553), after
   stage three has stored Done; against "Only re-evaluate phase orbs in
   Waiting" (Q:889).  The orb must have stayed Waiting although its children finished:
   in the run, hooks kept the earlier transitions from happening.
3. **A second runner can schedule a failed task again.**  A tick that read the
   task as Pending stores it as Active after the other runner stored its failure
   (Q:645-650), against "Failed remains terminal to automatic scheduling and
   ordinary status updates." (O:121).

## 3. The shared-state authority: `StateJournal`, `StateAuthority`

In shared mode one supervisor writes the store.  A client captures a revision,
submits an operation on it over the socket and gets a receipt; the supervisor
appends the operation to `operations.jsonl`, appends its records to the JSONL
files everybody reads, and then replaces `projection-revision`.

`StateAuthority` is the promise: one sequence of operations, each entered once
(`Commit`) on exactly the revision it names, and receipts (`Acknowledge`) that
stay true.  `StateJournal` is the code:

| variable | code |
|---|---|
| `journal`, `tail` | complete rows of `operations.jsonl`; what an uncertain append left at its end |
| `projected`, `torn`, `watermark` | revision that wrote the last readable record of each orb in `orbs.jsonl`; whether the file ends in a cut-off line; `projection-revision` |
| `mode`, `step`, `todo`, `client` | the supervisor: attached or not, where `accept` and `project_pending_operations` are, records left to write, whose request it is |
| `recovery` | `recovery_required` of the open journal |
| `call` | each client: the call's state, its operation, its submissions so far |
| `acked` | history variable: receipts that reached a client |
| `faults`, `broken` | bound on faults; whether a write of the projection failed or the watermark was lost |

*Clients*: `Begin`, `Status` (S:716), `Read` (the record a reset is made from,
O:122), `Fails`.  *A request* (S:1059) is one of `Replay` (known id), `Admit`,
`Conflict` (stale base; retried with a new revision and id, except by a reset,
S:638) and `RefuseUntilReopened` (S:372).  *The supervisor* then makes
`AppendRow` or `AppendFails`, and for each pending revision `Project`,
`WriteRecord` once per record and `WriteWatermark`; `Projected` answers.
`ProjectionFails`, `Crash` (anywhere), `Detach`, `Attach` (S:263: a whole last
row is kept, a cut-off one dropped, then replay) and `LoseWatermark` complete it.

Abstractions.  A record is the revision that wrote it.  The supervisor handles one request at a
time (its mutex), so only reads of files and crashes interleave with its
steps.  A `lost` client may send the same operation again, as the
protocol allows; `SupervisorStoreWriter` itself never does.  Left out: the
import of a legacy store, the audit event and pipeline mirrors of a reset,
`deps.jsonl` as a second file, a watermark beyond the journal (it takes the loss of a
synced journal), an append that fails before it writes (the client gets an error,
nothing changes), and the lease (an flock held as long as the project is attached).

| run | instance and bounds | shows |
|---|---|---|
| `journal_recovers` | a batch of two orbs and a reset, two accepted operations, two submissions per call, two faults (117 k states) | type invariant; `OneRowPerOperation`; `AcknowledgedIsDurable`; `ProjectionCoversWatermark`; `ResetsSeeLatest`; refinement of `StateAuthority`; `DurableIsMaterialized` |
| `journal_torn` | the same, records may be cut off, one fault | violation, finding 4 |
| `journal_partial_batch` | the same without faults | violation, finding 5 |

*Why the bounds suffice.*  Two operations are enough for a conflict, for a reset that
follows a batch on the same orb and for a replay of more than one revision; two faults for an
uncertain append followed by a crash of its recovery.  A batch of two has a
state between its records.  The safety part holds without these bounds (section 6).

*Preconditions.*  `ProjectionCoversWatermark` passes with `TearsRecords = FALSE`, records
written whole or not at all; finding 4 is what happens otherwise.  `ResetsSeeLatest` and
`DurableIsMaterialized` are claimed while no projection write has failed (`broken`).

*Fairness.*  `WF(Handle)`: the supervisor goes on with the request it is
handling; it holds the mutex and waits for nothing.  Nothing is assumed of
clients, of faults, or that anyone attaches again.

*Findings* (numbered on from section 2).

4. **A cut-off record swallows the next one.**  `append_materialized` appends
   behind whatever the file ends with (S:1251).  After a crash in the middle of a
   record, the replayed record continues the incomplete line, readers skip that
   line as malformed, and the watermark passes it: an accepted operation has no readable record,
   against "A crash cannot advance the watermark ahead of durable state." (S:1144).
   The journal repairs such an end of its own file (S:284-317); the projection does not.
5. **A batch is visible in part.**  Its records are appended one by one
   (S:1229) to files read without a lock, against "so a reader never observes
   only part of that intent" (S:112-114).  A queue that ticks in between sees the
   children of a plan without the dependency edges, which come last (`main.rs`, the plan command).

## 4. One dispatch episode: `DispatchEpisode`

What QueueLoop takes as one step, from the claim of an orb to its release
(`dispatch_one_owned`, Q:1720-2692).  Four modules:

- `WorkerLadder` – one call of `dispatch_orb_with_retry_limit` (W:304): the pre-worker-spawn
  gate, then whole attempts (prepare, spawn, send, shutdown, decide) with one retry.  Its
  state is `call`, the queue's `running` flag and `leaked`: a worker whose teardown failed,
  or that a crash left, may live.
- `RefinementLedger` – the two functions that read the execution ledger (Q:170, Q:219): the
  last completed round and the quality rejections, up to a checkpoint.
- `CommitContract` – what `Snapshot::verify` (`worker/commit.rs`:157) accepts.
- `DispatchEpisode` – everything around the calls.

| variable | code |
|---|---|
| `cfg` | target of the dispatch and the settings it reads: `workers.retries`, `refinement.*`, review attempts, completion contract, review settings |
| `disk`, `claim`, `ledger`, `repo` | what survives: the stored orb (state, rounds its text includes, checkpoint = ledger entries up to its `updated_at`), claim file, round diagnostics in `executions.jsonl`, repository relative to the snapshot |
| `pc`, `call` | place in `dispatch_one_owned`; place in the worker call made from there |
| `orb`, `out`, `rd`, `retries` | its locals: the copy it works on, the outcome, the round's state, outer retries |
| `approved`, `bounces`, `lost` | history variables of the properties |
| `episodes`, `faults` | bounds |

*Claim and admission*: `Claim`, `Refuse`, `Admit`, `SnapshotTaken`, `SnapshotFails`.
*Calls*: `Work` (any step of the ladder), `WorkFails`, `CallIsFatal`.  *Outer retries*
(Q:1920-1975): `RetryMain`, `MainEnds`, `BackoffElapses`, `BackoffStops`; -1 retries for
ever.  *Structured recovery* (Q:1464): `Repaired`, `RepairFails`, `FreshFails`.
*Refinement* (Q:1984-2269): `ApplyRound`, `RepairRound`, `RetryRound`, `GiveUpRound`,
`RoundBackoffElapses`, `RoundBackoffStops`.  *Quality review* (Q:2280-2370):
`ReviewAccepts`, `ReviewDeclines`.  *End*: `Verify`, `Record`, `Settle`, `Release`.
*Faults*: `EpisodeError` (any `?`), `Crash`.  *Around it*: `Stop`, `Restart`, `WorkerExits`,
`ArchiveClaim` (`src/RELIABILITY.md:14-17`), `Redo` (reset, revise).

`EpisodeContract` is the abstract specification: an orb leaves its target only under its
claim, to a state its outcome may lead to, and a claim whose worker may live is not given
back.  `DispatchEpisode` implements it with `st <- disk.st`, `left <- leaked` and three
phases in place of all its places (`ImplementsContract`).

| run | instance and bounds | shows |
|---|---|---|
| `episode` | every target; retries -1, 0, 1 (structured phases -1, 1); two rounds, two review attempts; contract and approval on and off; hooks that abort; two episodes, one crash, error or failed teardown (476 k states) | the properties below |
| `episode_skipped_round` | refining only, one crash | violation, finding 6 |

- `LeftWorkerBlocksReplacement`: while a worker of the ladder may live, its claim stays and
  nothing else is started.
- `BouncesAreBounded`: over all episodes, restarts and revisions a spec is sent back less
  often than the configured review attempts, although no counter is stored.
- `RejectedCandidateIsUndone`: what a rejection sends back has lost exactly the rejected
  round, and the ledger resumes there.  Not claimed once an episode's copy was lost (`lost`,
  finding 6), nor without `stop_when_unchanged`: then an applied round that changed nothing
  counts for the text but an episode that a hook aborts leaves no credit for it, and the
  round is made again.
- `OnlyReviewedSpecsAdvance`: what reaches Waiting is the text a reviewer accepted.
- `DoneIsCommitted`: all attempts of an episode together leave one clean commit or none.
- `StopEndsEpisode`: after a stop the episode ends, also with unlimited retries.

*Why the bounds suffice.*  Two rounds have a first, a middle and a last one together with
resumption; two review attempts have one rejection that bounces and one that holds; two
episodes are one that leaves something behind and one that finds it. A retry count of 1
distinguishes "first" from "last", and -1 never ends.

*Fairness.*  `WF(EpisodeStep)`: the task runs and its workers and reviewers answer (assumed
of them, see section 2).  Faults, stops, restarts and operators are not fair.

*Abstractions.*  A text is the number of rounds it includes; the reviewer is one step with
four results; `updated_at` is the length of the ledger at that time, so clock steps are left
out; a failed store write is taken as not having happened.  The choice of a subtask's model
(Q:2409-2423) can only turn a good decomposition into a failed one, which `FreshFails` also
does.  Tasks are not refined; the other targets have no rounds.

*Finding 6.*  **A refinement round can be skipped.**  A round's diagnostic is in the ledger
before the orb is stored.  If the process dies in between, the old `updated_at` hides it;
but any later store, for example of a failure, moves `updated_at` past it, and the round
counts as completed although its edits are lost (Q:170), against "Resume the next unfinished
round from existing evidence" (Q:1986-1988).

## 5. Around the queue: the `components` run

Six components that share no state with each other are checked in one run. `MCComponents`
gives it a `subject`: a behaviour is one of one component, and the others rest in a fixed
state.  Every component starts from all of its own initial states, so the run is the
disjoint union of six (225 k states).  It checks no deadlock: a released parent, a closed
chat, a resolved configuration and a finished benchmark are ends.

### `Supervisor` (D:419-553, S:781-989)

| variable | code |
|---|---|
| `threads` | worker threads of the tokio runtime |
| `attached`, `queue`, `ticking`, `stopping` | the registry of `LocalSupervisor`: authorities, queues, borrowed queues, closed admission |
| `started` | stop flags of the startup projects' queues, which the loop holds itself |
| `signal`, `admission` | the shutdown signal; the task that reacts to it at once |
| `loop`, `task` | main loop; per project, its `tick_project` of the current round |
| `lost` | history variable: an outcome could not be stored |

Requests (`Attach`, `Detach`), the answers to a queue's writes (`Answer`), a project's tick
and dispatch (`Tick`, `TickFails`, `Dispatch`, `WorkerEnds`, `DispatchIsFatal`), the loop's
rounds (`StartRound`, `BorrowQueues`, `ReturnQueues`, `StartupRoundFails`), and shutdown
(`Signal`, `NoticeSignal`, `Drain`, `Close`, `AdmissionStopsStartup`,
`AdmissionStopsRegistry`) interleave.  Two projects, one of them from the start, one to
three threads.

`OutcomesAreStored`: no detach, shutdown or tick takes the authority away from a worker's
outcome, except of a startup project.  `ShutdownEnds` and `AttachedProjectsTick` hold with more
threads than projects (`ThreadsSuffice`).  A queue writes by a blocking request on the
daemon's own socket (S:686-714), which a task of the same runtime answers; with too few
threads all of them wait for each other, for ever.

*Fairness.*  Weak fairness of each project's task, of the loop and of the admission task,
that is of the runtime; strong fairness of `NoticeSignal`, because `select!` chooses at
random among ready branches and each pass of the loop offers this one again. Requests,
signals and failures are not fair.

### `Decomposition` (DE:115-235, DE:411-571)

`child`, `edges`, `pin` and `parent` are what is stored: child records, edges, the plan file
and whether the parent is past Decomposing; `plan` and `pc` are the application in progress.
`todo` are the children it has still to append, those of the plan that its one reading of
the store did not show (`MissingChildren`, DE:125, DE:166).
`ValidGraph`, `Orderings` and `Graph` are `validate_graph` and `materialize_plan`;
`Reconciles` and `Pinned` are what `apply_decomposition` demands of what is already there;
`SyncPlan`, `AppendChild`, `AddEdge` and `Release` its writes; `Interrupt` ends it anywhere;
`Decompose` is a worker's answer, each time any plan, and `Recover` is `orb
recover-decomposition`. `EditChild` and `DeleteChild` are everybody else, at any time; a
deleted child is a tombstone, which `load_all` hides (`Present`). All order-group plans of up
to two children and those of three that use the first group, all declared graphs of up to
two, chains, joins, cycles and malformed plans; no scaffold or one of up to three children;
one interruption.

`DecompositionContract` is the promise: a plan is decided on (`Decide`), each child is begun
from it and no other, and again only after a deletion (`Begin`), and the parent goes on with
the whole graph (`GoOn`). `ImplementsDecision` maps the complete plan file to the decision,
the plan each child was made from to what was begun, and the stored children and edges of a
released parent to its graph: whatever was interrupted, deleted and answered again, the many
writes look like that. `ReleasedGraphIsWhole` and `ChildrenSurviveReplay` are the two halves
of it a reader of the code asks for: at the release each child of the plan has a record, a
tombstone at worst, and what the store shows of a child is never lost to a replay.
`OrderingIsKept`: that graph can be worked off, and a later order group waits for every
earlier one.  One interruption suffices: a replay reads nothing but the stored records, so a
second one starts from a state the first could have left.

| run | instance and bounds | shows |
|---|---|---|
| `decomposition_deleted_child` | order-group plans, one interruption | violation, finding 7 |

*Finding 7.*  **A deleted child is begun again.**  `orb delete` appends a tombstone (O:951).
The children that a decomposition finds are those of `load_all`, which hides tombstones, so
when the same plan is applied again, after an interruption or by `orb recover-decomposition`,
the deleted child counts as missing and is appended as Pending (DE:166), against "Existing
records are authoritative, including operator edits and terminal results.  Replay must never
append a fresh Pending version." (DE:164-165).

### `Conversation` (`convo/mod.rs`, `convo/cli.rs`, P:492-599)

`chat`, `turn`, `context`, `model` are `chat_loop`; `worker`, `asked`, `pipe` the worker
process and its unread lines; `log`, `status`, `full`, `orbs` the stored transcript, whether
it is at its size limit, and the orbs made.  Two turns, two further events, two models.  A
result carries the id of its message and nobody compares it, so `AnswersBelongToTheirTurn`
says that text is filed under its message unless a turn on the same worker has failed
before, and `ResetsSeparate` that nothing crosses `/clear` or `/model`, failures or not.

### `Hooks` (`hooks/runner.rs`, `hooks/sink.rs`)

`hooks` is the filtered list of one event, `firing` and `at` the runner's place in it,
`process` and `input` the hook programs.  `caller` is whose runtime it is: the daemon's runs
always, a command's (a `current_thread` runtime, `sink.rs`:99-109) only while the firing
itself waits.  Every kind of hook alone, and after an async one, before a third that may not
run.  A program reads its input or not, and may write more than a pipe holds.  The output of
a sync hook is read only when its input is written, and the timeout runs only from then on.
`EveryHookIsServed`: a firing ends, unless a sync hook, given more than a pipe holds,
ignores it for ever or fills its output pipe (`Blocks`), and on the daemon's runtime an
async hook gets its input.  Fairness: timers, tasks and programs that end by themselves.

### `Configuration` (CF:387-582, CF:772-783, CF:915-1061, CF:1269-1314)

`files` are the layers on disk, `registered` the registry of projects, which a load reads
twice and any registration empties and then rewrites: the project may be entered, stay, or
lose its name to another; `config` the merge, `step` the load,
`source` what selected the model.  One layer defines an option, another selects it, in every
role the validation treats differently.  `RolesResolve`: a configuration that loads has a
model for every role, unless `--model`, `default_model` or `second_opinion.reviewer_model`
selected it.

### `Benchmark` (`bench/cmd.rs`, `bench/runner.rs`, `bench/runner_t2t3.rs`)

| variable | code |
|---|---|
| `corpus`, `jobs` | the selected cases by kind, `--jobs`: 1 is `cmd_bench_run`, more is `cmd_bench_run_parallel` |
| `stage`, `attempt`, `verdict` | where a case's future is, its counters, its `BenchResult` ("fatal": an error whose text `is_fatal_worker_error` knows) |
| `halted` | a fatal error was seen, no further case is started |
| `rows`, `counted`, `run` | `results.jsonl`, the last summary in `runs.jsonl`, the command |

A T1 case makes up to three attempts (`PromptOnce`, `Ungradable`, `PromptsEnd`); a T2 case
dispatches one task (`DispatchChange`) or, with the decompose runner and in T3, steps a queue
(`StepQueue`, `Repair`, `AskAgain`); `TestsEnd` and `Grade` judge it.  `TimeOut` drops it
where it waits for a worker and `Panic` is the cut inside a character. `StartCase`, `Join`,
`JoinPanicked`, `StoreRow`, `StoreFails`, `SummarizePrompts`, `Summarize` and `SummaryFails` are the
command's.  The steps of a case's queue are abstract: what they do inside is section 2 and 4.

Every selection of one or two kinds of cases and one of three; one and two jobs; three queue
steps for the code's 32, enough for two that stall after one that does not, and for running
out of steps without a stall.  `SummariesCountResults`: wherever a store fails, a case panics
or the process dies, no summary counts a result that is not stored, and a command that ends
has counted all of them and left cases out only after a fatal error.  No fairness: the claim
is about every state, and that a case ends is not true (section 7).

## 6. What is proved

Eight modules hold proofs, one for each component with safety properties of its own.  A
theorem holds for every value of the constants that satisfies the named assumption of its
module, so for any number of orbs, clients, projects, messages, plans, cases and faults;
further hypotheses are stated with it.  Every safety invariant and every action property
that a passing run checks is the statement of a theorem, and so are the three refinements,
of `StateAuthority`, `EpisodeContract` and `DecompositionContract`.

The proofs share one shape.  The property is not inductive; a conjunction of named parts is,
`Init` implies it, and one lemma per action, or per group of actions that disturb the same
part, preserves it.  Layers build on each other: types first, then who holds what, then what
that implies.

### `QueueLoopProofs`

With any number of runners, edits and faults:

- `ClaimsAreExclusive` : `Spec => []ClaimsExclusive`.  It is inductive once it is known that
  tasks live only while their runner is in "join" (`TasksOnlyInJoin`): `BeginDispatch`
  overwrites a runner's tasks and would otherwise drop a claim holder silently.  That
  conjunction is `ClaimsInv` (`ClaimsAreInvariant`).
- `ClaimsAreNotLeaked` : until the first crash or error, each claim file has the task that
  will archive it.  A refusal, set-back or aborting hook never quarantines an orb.
- `MarkersAreInvariant`, `TypeCorrect` and `MarkersNeverStrand`.  A record reaches the store
  from three places: the store itself, the snapshots of a planned tick write, and the copy
  of a dispatch task.  `MarkerInv` says of all three that a marker occurs only on a terminal
  record, that planned writes start from unmarked records and that a working task holds one
  of the target states; it is what makes stale writes harmless for this property.
- `GraphsStayWhole` and `OrbsAreNeverLost` : a phase orb past Decomposing has a record of
  every child of its plan, a tombstone if the child was deleted, and no stored orb loses its
  record.  `GraphInv` says of every state that a write may come from, the same three places,
  that the children it presupposes have records; stale writes keep it because no record is
  taken back.  `TodoInv`, part of `Base` (`BaseIsInvariant`), says what a decomposition has
  still to append: the children without a record are among it, and without deletions nothing
  else is.
- `TasksKeepEpisodeContract` : `Spec => EpisodesFollowContract`.  Every step of a dispatch
  task of a phase orb is a step of `EpisodeContract` from its claim to its release; the
  record changes otherwise only by an operator or another runner's tick, and these leave the
  claim alone. With `EpisodesKeepContract` below, both models meet in the contract, for
  every value of the constants: the single step from "working" to an outcome and the whole
  of section 4 promise the same of an orb and its claim.

With any number of runners and no edits, under `FreshTicks`: no tick writes over a record that
anything but its own earlier stage changed since it was read.

- `FreshTicksSuffice` : `AcceptedWorkNotRepeated`, `DependenciesHoldWhileExecuting`,
  `ParentFollowsChildren`, `FailedAttemptIsResettable`, `TerminalIsFinal` without a
  condition on final work, `FailedStaysTerminal`, which finding 3 refutes, and of what finding
  2 refutes the runners' part, `RunnersReevaluateOnlyWaiting`: only an operator's reset may
  name that phase from elsewhere, and finding 2 is not about resets.  So the stale
  tick write is the only cause of those two, and a compare-and-set in the tick would remove
  both.  Its invariant adds `PlansAsRead` to what is known of orbs and tasks: what a planned
  write was read from.  `FreshTicks` constrains steps, not states: plenty of behaviours satisfy
  it, those of a lone runner without the last stage's overlap among them.
  `AncestorsReleasedWhileExecuting` is not among the conclusions, because it does not follow:
  a runner may re-evaluate a parent, on a fresh record, while another one works on its child.

Under `Alone`, one runner and no status edit or deletion behind it:

- `LoneRunnerStaleness` : every tick write but a re-evaluation is fresh in that sense, which
  pins finding 2 to the last stage (Q:553).
- `AloneIsInvariant` : `[]AloneInv`.  `OrbInv` ties an orb's state to its history, children
  and accepted result; `ItemInv` says from which states each planned write may still start
  and that its stage is one the tick has yet to make; `Distinct` that two planned writes
  meet on an orb only where the last stage works from the old list; `WorkInv` that the store
  still holds what a working task was given.
- From it `AcceptedWorkStands`, `DependenciesStayDone`, `ParentsFollowChildren` and
  `FailuresAreResettable`, the theorems of `AcceptedWorkNotRepeated`,
  `DependenciesHoldWhileExecuting`, `ParentFollowsChildren` and `FailedAttemptIsResettable`.
- `TerminalStaysTerminal` : `Spec => TerminalIsFinal`, if also `FinalWork = Phased`
  (section 2, findings).  Its lemma `WhoWrites` lists who can change an orb's state.
- `AncestorsStayReleased` : `[]AncestorsReleasedWhileExecuting`, without that hypothesis.  A
  parent that executed while a descendant works would have its children Done, theirs in
  turn, and so the descendant; the last stage of a tick may break that chain by writing over
  a Done parent, and `LateItem` shows that the parent of such a parent is then not Done.
  `Ancestors` is a recursive function: that it has a value is proved from `Line`, the least
  upward-closed set, and from the assumption that the hierarchy has no cycle.

`Alone` is needed: with a second runner or an edit, a stale snapshot is stored over what the
task was admitted on (`queue_stale_failure` is one such run).

### `StateJournalProofs`

- `JournalIsInvariant` : `Spec => []IInv`.  What may become a row is the
  request being appended and the whole row an uncertain append left behind.
  `Fits` says of both that they have a new id and the journal's last revision as
  base.  Appending one would make the other stale, so they must never exist together; that is
  what `recovery_required` is for, and `AuthorityOK` and `TailOK` say it.
- From it `JournalTypeCorrect`, `OperationsAreEnteredOnce`
  (`[]OneRowPerOperation`) and `ReceiptsStayTrue` (`[]AcknowledgedIsDurable`).
- `JournalImplementsAuthority` : `Spec => ImplementsAuthority`, the refinement.  `AppendRow`
  and an `Attach` that finds a whole row are commits, `Projected` with a client is an
  acknowledgement, all other steps stutter.

If records are written whole (`~TearsRecords`; otherwise finding 4 applies to both):

- `WatermarkNeverAhead` : `Spec => []ProjectionCoversWatermark`.  `ProjectionInv` adds, for
  the revision being applied, that each of its keys is still to be written or is written.
- `AcceptedResetsSeeLatest` : `Spec => []ResetsSeeLatest`.  `ResetInv` says of every call
  that captured a revision, and of a row left at the end of the file, that it carries the
  latest record if that revision still is the last.  A record read while a later revision is
  being written is newer than the captured revision says, but then the base is no longer the
  last and stays behind, which is why the claim can be conditional.

### `DispatchEpisodeProofs`

For every configuration, any number of episodes and faults:

- `RoundsStayBounded`, `EpisodeTypeCorrect` : types, with the bounds of rounds and bounces
  that make them inductive.
- `LeftWorkersBlock` : `[]LeftWorkerBlocksReplacement`, and `EpisodesKeepContract` :
  `Spec => ImplementsContract`, the refinement.  Both come from `ClaimInv`: the claim exists
  exactly while an episode is under way, and a worker left behind keeps it.
- `CompletionsAreCommitted` (`[]DoneIsCommitted`) and `ReviewedSpecsAdvance`
  (`[]OnlyReviewedSpecsAdvance`), from `PathInv`: what an outcome claims was checked on the
  way to it and nothing changed it since.
- `BouncesStayBounded` : `[]BouncesAreBounded`.  No counter is stored; `BounceInv` shows that
  the ledger holds a rejection up to the stored checkpoint for each bounce.
- `RejectedCandidatesAreUndone` : `[]RejectedCandidateIsUndone`, from `ResumeInv`, the
  credit of the ledger at every place of an episode.  The attempt to prove it found that it
  needs `stop_when_unchanged`; TLC confirms the counterexample without.

### The components of section 5

- `SupervisorProofs`: `SupervisorTypeCorrect`; `OutcomesOfAttachedAreStored`
  (`[]OutcomesAreStored`) from `RegistryInv`: a queue of the registry keeps its authority, a
  borrowed one stays in it, only projects of the round have tasks; and `AThreadIsLeft`, the
  safety half of the liveness properties: with more threads than projects one is always free
  to answer.
- `DecompositionProofs`: `DecompositionTypeCorrect`; `ReleasedGraphsAreWhole`,
  `StoredChildrenSurvive` and `DecompositionImplementsDecision`, the refinement, from
  `GraphInv`: all that is stored belongs to the graph of the pinned plan.  `TodoIsHidden`,
  that an application has nothing to append that the store shows, is why replay leaves such
  a child alone; of a deleted one the theorem says nothing, because replay begins it again
  (finding 7).  `SyncPlan` is the decision, `AppendChild` a beginning, the `Release` of a
  new parent its going on, and all else stutters: an edge shows only with the release.
  `ReleasedOrderIsKept` (`[]OrderingIsKept`) rests on lemmas about `Valid`, `Orderings` and
  `Graph` for every plan.  `Completed` is a recursive function; a set of tasks that it never
  reaches would have a least member, which it reaches.
- `ConversationProofs`: `ConversationTypeCorrect`; `AnswersBelong` and
  `ResetsSeparateAnswers`, whose invariants carry the claim about the transcript back to the
  pipe and to what the worker has still to write.
- `BenchmarkProofs`: `BenchmarkTypeCorrect`; `SummariesAreOfResults`
  (`[]SummariesCountResults`) from "a stored row is of a kept result, and whoever stops
  starting cases has kept a fatal error".
- `ComponentsProofs`, the configuration: `LoadedRolesResolve` (`[]RolesResolve`) for all
  files, from "a default model is always there, and what was validated resolves", whatever
  the registry does between its two reads (`ConfigurationIsInvariant`).
- The hooks: `HooksTypeCorrect` and `HooksGateInOrder` from `HooksInv`, for every list of
  hooks: one sync hook runs at a time, none outlives its firing, and an abort is due to a
  sync hook that exits with 2 or may abort on a timeout, after which no hook starts.
  `Matching` is a recursive function, because the provers know nothing of `SelectSeq`.
- The composition: `TypesAreCorrect` (`[]TypesOK`).  `MCComponents` runs one component, its
  `subject`; the proof shows that the subject stays, that each step is one of its
  component's, and so that a behaviour of the composition is a behaviour of that component.

### Only model-checked

- Liveness (`StopDrains`, `QueueDrains`, `StopEndsEpisode`, `DurableIsMaterialized`,
  `ShutdownEnds`, `AttachedProjectsTick`, `EveryHookIsServed`): fairness and ENABLED are out
  of the prover's reach.
- The findings: a counterexample is TLC's.  `FreshTicksSuffice` says what finding 2 and 3
  come from.

No safety property of a passing run is left to TLC alone.

## 7. Behaviour a reader should know of

Seen while modelling and part of the models; no run refutes them, because the properties
allow for them.

*Supervisor.*  A second attach of a startup project makes a second queue for it, without
commit contract, hooks or telemetry (S:916-953).  Detaching a startup project takes the
authority away under its running queue.  The first failing tick ends the supervisor for
every project (D:513-518, D:533-537), although the comment on `run_supervisor` (D:410-412)
says that a failed queue does not prevent the others.  A refused detach leaves the queue
stopped, and attaching again finds it stopped. Rounds are sequential: a long worker in one
project delays every tick.

*Episodes.*  An unreadable ledger counts as empty (Q:1989).  A quality reviewer's failed
teardown is ignored (`phases/second_opinion.rs`:279).  Rounds and repairs start workers
after a stop; only retries and backoffs look at the flag.  A cancelled round is retried.
Recovery from partial artifacts (Q:1669, Q:2479-2488) cannot be reached, because its two
conditions on the target exclude each other.  With completion commits a round is refused as
soon as one target executes and `max_concurrency` is above one (Q:1017); that is
`FatalError` in QueueLoop.

*Decomposition.*  An edge of a deleted child stays.  A child of the scaffold keeps the
scaffold's text when a plan has it too. A worker's plan that drops a scaffold child or one
of its orderings is refused, each time. A plan file cut off by a crash blocks the parent
until it is removed by hand. `persist_plan` (`plan.rs`:100) stores the epic past its
decomposition before its children.

*Conversation.*  After a failed restart there is no worker, and neither `/clear` nor a
message brings one back, although `convo/mod.rs`:353-355 suggests to retry.  The context of
`/await` is lost when the turn that carries it fails.  `/await` looks at `status` only, so
it times out on phase orbs.

*Benchmarks.*  Evidence for the grader is cut at byte 16000 of a string
(`runner_t2t3.rs`:595), which panics inside a character; the panic ends the command, and in a
parallel run every finished result is lost with it (`cmd.rs`:564).  The test command blocks
the case's task (`runner_t2t3.rs`:142), so `timeout_s`, "a whole-case wall-clock cap"
(`README.md`:392), does not bound it.  A failed worker of a decomposed case is never a fatal
error, because the text of the result does not repeat what it said.  A mixed run one case at
a time has a summary after its prompts already, which looks complete if the run then ends.
A prompt case that the budget stops after one right answer fails.

*Hooks and configuration.*  The input of a sync hook is written before its timeout starts, and
its output drained only after that (`hooks/runner.rs`:371-377), so a hook that copies a large
payload to its output blocks the firing for ever, although sync hooks should "block until
exit or timeout" (`hooks/runner.rs`:7-8).
Errors of the registry are swallowed; two registrations at once can lose one.

## 8. Not modelled

- *Benchmarks*, beyond `Benchmark`: loading and selecting cases, prompt sets, calibration,
  usage and process scores, the suite manifest, archiving, reports and comparisons.  They
  keep no state a running case reads.
- *Command line* (`main.rs`, most of `orb_cmd.rs`): argument parsing and printing.  The
  commands that change orbs are in section 2; of `main.rs` the start of the supervisor is in
  `Supervisor`.
- *Parsers, prompts, credentials, routing, startup check*: functions of text and files,
  without state. That a response may be invalid, missing or fail is an outcome of a worker
  in `DispatchEpisode`.
- *Logs, telemetry, notification, transcripts*: append-only, read by no decision.
- *Tests*: a third to a half of the lines of most files under `src/src`; they are read, not
  modelled.
- *Dead code*: `worker/fsm.rs`' session driver, `send_cancellable`, partial-artifact
  recovery, `detach_worker`.
- Of modelled components: the pid file and the permit shared by projects, `drain_target`,
  legacy import, `create_plan`'s pipeline directory, rollback and restore of orbs, sampling
  of second opinions after completion, configuration sections other than models.

The mapped definitions cover the code that decides something: of the lines that are not
tests, more than half of `queue_loop.rs`, two thirds of the commit contract, half of
decomposition, two fifths of the supervisor, a third of the hook runner and of the worker
process; and about 15 % of all files, tests and benchmarks included.  Most of the rest is in
the parts above, so a larger share would come from transcribing reports, parsers and
argument handling, about which there is nothing to check.

## 9. What is left

1. The graph of `Decomposition` in place of the constant children of `QueueLoop`, so that one
   model holds both a plan's shape and the scheduling of its children.
2. The order of a round's tick and dispatch under `FreshTicks`, from which the ancestors'
   property could be shown for runners that never overlap on one family of orbs.
3. Safety parts of the liveness properties, as `AThreadIsLeft` and `ClaimsAreNotLeaked` are:
   that a stopped runner always has a step that brings it closer to its end.
