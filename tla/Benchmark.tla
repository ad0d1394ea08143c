------------------------------- MODULE Benchmark -------------------------------
(***************************************************************************)
(* A run of the benchmark: its cases, one after the other or several at once,  *)
(* the attempts, the queue steps, the tests and the grader of each, its time   *)
(* limit, and what of it reaches results.jsonl and runs.jsonl.                 *)
(*                                                                         *)
(* A case is of a kind: "prompt" (T1), "change" (T2), "decompose" (T2 with the *)
(* decompose runner) or "greenfield" (T3).  Its time limit is noticed only      *)
(* where its task waits for a worker: a test command blocks the task.           *)
(***************************************************************************)
EXTENDS Integers, Sequences, FiniteSets, FiniteSetsExt

CONSTANTS
    Corpora,    \* the selections of cases to run: sequences of kinds
    JobCounts,  \* the values --jobs may have
    MaxSteps    \* queue steps of a decomposed case

ASSUME BenchmarkAssumption ==
    /\ \A c \in Corpora : c \in Seq({"prompt", "change", "decompose", "greenfield"}) /\ c # <<>>
    /\ JobCounts \subseteq Nat \ {0} /\ MaxSteps \in Nat \ {0}

VARIABLES
    corpus,   \* the selected cases
    jobs,     \* how many run at once
    stage,    \* where each case is
    attempt,  \* what each case has done so far
    verdict,  \* its result: "fatal" is an error whose text stops the run
    halted,   \* a fatal error was seen: no more cases are started
    rows,     \* the cases in results.jsonl
    counted,  \* the cases the last summary in runs.jsonl counts
    run       \* the command

bvars == <<corpus, jobs, stage, attempt, verdict, halted, rows, counted, run>>
ended == <<halted, rows, counted, run>>

Cases == DOMAIN corpus
NoSummary == {0}
Waiting == {"working", "repairing", "retrying", "grading"}
Running == Waiting \cup {"testing"}
Verdicts == {"none", "pass", "fail", "error", "fatal"}
Attempts == 3    \* T1_ATTEMPTS
Threshold == 2   \* T1_PASS_THRESHOLD

BenchmarkTypeOK ==
    /\ corpus \in Corpora /\ jobs \in JobCounts
    /\ stage \in [Cases -> Running \cup {"pending", "ended", "panicked", "kept"}]
    /\ attempt \in [Cases -> [passes : 0..Attempts, fails : 0..Attempts, errors : 0..Attempts,
                              last : {"none", "plain", "fatal", "done", "failed", "broken"},
                              steps : 0..MaxSteps, stalls : 0..2, planned : BOOLEAN, grades : 0..2]]
    /\ verdict \in [Cases -> Verdicts]
    /\ halted \in BOOLEAN /\ rows \subseteq Cases
    /\ (counted = NoSummary \/ counted \subseteq Cases)
    /\ run \in {"running", "ended", "failed", "panicked"}
-----------------------------------------------------------------------------
\* The cases.
Fresh == [passes |-> 0, fails |-> 0, errors |-> 0, last |-> "none",
          steps |-> 0, stalls |-> 0, planned |-> FALSE, grades |-> 0]
Is(i, kinds, s) == run = "running" /\ corpus[i] \in kinds /\ stage[i] = s

To(i, s, a) ==
    /\ stage' = [stage EXCEPT ![i] = s] /\ attempt' = [attempt EXCEPT ![i] = a]
    /\ UNCHANGED <<corpus, jobs, verdict, ended>>
\* Only the verdict outlives the task.
EndsWith(i, v) ==
    /\ stage' = [stage EXCEPT ![i] = "ended"] /\ verdict' = [verdict EXCEPT ![i] = v]
    /\ attempt' = [attempt EXCEPT ![i] = Fresh]
    /\ UNCHANGED <<corpus, jobs, ended>>

\* The harness itself fails, or a worker whose protocol it does not speak.
HarnessFails(i) == \E v \in {"error", "fatal"} : EndsWith(i, v)

\* One prompt may be answered well, badly or not gradably; or the worker fails.
Made(a) == a.passes + a.fails + a.errors
Prompted(a) ==
    {[a EXCEPT !.passes = @ + 1], [a EXCEPT !.fails = @ + 1],
     [a EXCEPT !.fails = @ + 1, !.last = "plain"]}
        \cup {[a EXCEPT !.errors = @ + 1, !.last = l] : l \in {"plain", "fatal"}}

\* Two of three answers decide; a failed attempt counts for nobody, and the text of
\* the last failure says whether it was fatal.
PromptVerdict(a) ==
    IF a.passes >= Threshold THEN "pass"
    ELSE IF a.errors = 0 THEN "fail"
    ELSE IF a.last = "fatal" THEN "fatal" ELSE "error"

PromptOnce(i) ==
    /\ Is(i, {"prompt"}, "working") /\ Made(attempt[i]) < Attempts
    /\ \E a \in Prompted(attempt[i]) : To(i, "working", a)

\* Only an exact answer or a pattern can be graded here; with several jobs it is the
\* case that fails, and alone it is the command.
Ungradable(i) ==
    /\ Is(i, {"prompt"}, "working") /\ Made(attempt[i]) < Attempts
    /\ attempt[i].passes + attempt[i].fails = 0
    /\ IF jobs > 1 THEN EndsWith(i, "error")
       ELSE run' = "failed" /\ UNCHANGED <<corpus, jobs, stage, attempt, verdict, halted, rows, counted>>

\* After three attempts, or after one that cost too much or could not reach a
\* worker for a fatal reason.
PromptsEnd(i) ==
    /\ Is(i, {"prompt"}, "working") /\ Made(attempt[i]) > 0
    /\ EndsWith(i, PromptVerdict(attempt[i]))

\* The queue dispatches the one task of a change; its result may be left in review.
DispatchChange(i) ==
    /\ Is(i, {"change"}, "working")
    /\ \/ HarnessFails(i)   \* or the worker did
       \/ \E l \in {"done", "failed"} : To(i, "testing", [attempt[i] EXCEPT !.last = l])

\* A step of the queue for a decomposed case: it moves on, perhaps as far as an
\* answer to the decomposition, an orb fails, everything is done, or nothing happens.
Stepped(a) == [a EXCEPT !.steps = @ + 1, !.stalls = 0]
Stalled(a) == [a EXCEPT !.steps = @ + 1, !.stalls = @ + 1]
OneStep(a) ==
    {Stepped(a), Stalled(a)}
        \cup {[Stepped(a) EXCEPT !.last = l] : l \in {"failed", "broken"}}
        \cup (IF a.planned THEN {[Stepped(a) EXCEPT !.last = "done"]}
                           ELSE {[Stepped(a) EXCEPT !.planned = TRUE]})

\* Out of steps, or twice nothing happened: the tests still run, for the record.
Stuck(a) == a.last = "none" /\ (a.stalls = 2 \/ a.steps = MaxSteps)
Settled(a) == IF Stuck(a) THEN [a EXCEPT !.last = "broken"] ELSE a
StageOf(a) == IF a.last = "none" THEN "working" ELSE "testing"

StepQueue(i) ==
    /\ Is(i, {"decompose", "greenfield"}, "working")
    /\ \/ \E a \in OneStep(attempt[i]) : To(i, StageOf(Settled(a)), Settled(a))
       \/ ~attempt[i].planned /\ To(i, "repairing", attempt[i])
       \/ HarnessFails(i)

\* An answer that does not parse is repaired once, and then asked for once more.
Planned(i) == LET a == Settled([Stepped(attempt[i]) EXCEPT !.planned = TRUE]) IN To(i, StageOf(a), a)
Unplanned(i) == To(i, "testing", [Stepped(attempt[i]) EXCEPT !.last = "failed"])
Repair(i) ==
    /\ Is(i, {"decompose", "greenfield"}, "repairing")
    /\ Planned(i) \/ Unplanned(i) \/ To(i, "retrying", attempt[i]) \/ HarnessFails(i)
AskAgain(i) ==
    /\ Is(i, {"decompose", "greenfield"}, "retrying")
    /\ Planned(i) \/ Unplanned(i) \/ HarnessFails(i)

\* The test command of a case ends.  What the pipeline left undone is not made up
\* for by tests that pass.  That a worker failed is an error of the case but never a
\* fatal one, whatever the worker said: the text of the result does not repeat it.
TestsEnd(i) ==
    /\ Is(i, {"change", "decompose", "greenfield"}, "testing")
    /\ LET last == attempt[i].last IN
       \/ last = "broken" /\ EndsWith(i, "error")
       \/ last # "broken" /\ corpus[i] = "greenfield" /\ To(i, "grading", attempt[i])
       \/ last = "done" /\ corpus[i] = "change" /\ To(i, "grading", attempt[i])
       \/ last = "done" /\ corpus[i] # "greenfield" /\ EndsWith(i, "pass")
       \/ last # "broken" /\ corpus[i] # "greenfield" /\ EndsWith(i, "fail")
       \/ EndsWith(i, "error")

\* The grader answers, or fails and is asked once more, by a fresh worker.  Without
\* a verdict there is no pass.
Grade(i) ==
    /\ Is(i, {"change", "greenfield"}, "grading")
    /\ \/ attempt[i].last = "done" /\ EndsWith(i, "pass")
       \/ EndsWith(i, "fail")
       \/ attempt[i].grades = 0 /\ To(i, "grading", [attempt[i] EXCEPT !.grades = 1])

\* Evidence for the grader is cut at a byte, which may be inside a character.
Panic(i) ==
    /\ Is(i, {"change", "greenfield"}, "grading") /\ attempt[i].grades = 0
    /\ stage' = [stage EXCEPT ![i] = "panicked"]
    /\ run' = IF jobs = 1 THEN "panicked" ELSE run
    /\ UNCHANGED <<corpus, jobs, attempt, verdict, halted, rows, counted>>

\* The limit of a case drops its task where it waits for a worker.
TimeOut(i) ==
    /\ run = "running" /\ stage[i] \in Waiting
    /\ EndsWith(i, "error")
-----------------------------------------------------------------------------
\* The command.
In(s) == {i \in Cases : stage[i] \in s}
Prompts == {i \in Cases : corpus[i] = "prompt"}
\* One at a time, prompts come first; several at once, the order is the selection's.
Next1(pending) == IF jobs = 1 /\ pending \cap Prompts # {} THEN Min(pending \cap Prompts) ELSE Min(pending)

MayStart ==
    /\ run = "running" /\ ~halted /\ In({"pending"}) # {}
    /\ Cardinality(In(Running \cup {"ended", "panicked"})) < jobs
    \* The summary of the prompts comes before the other cases.
    /\ (jobs = 1 /\ Prompts # {} /\ Prompts \subseteq In({"kept"})) => counted # NoSummary

StartCase ==
    /\ MayStart
    /\ stage' = [stage EXCEPT ![Next1(In({"pending"}))] = "working"]
    /\ UNCHANGED <<corpus, jobs, attempt, verdict, ended>>

\* Several at once: results are kept in memory until the last case has ended.
Join(i) ==
    /\ run = "running" /\ jobs > 1 /\ stage[i] = "ended" /\ ~MayStart
    /\ stage' = [stage EXCEPT ![i] = "kept"] /\ halted' = (halted \/ verdict[i] = "fatal")
    /\ UNCHANGED <<corpus, jobs, attempt, verdict, rows, counted, run>>
JoinPanicked(i) ==
    /\ run = "running" /\ jobs > 1 /\ stage[i] = "panicked" /\ ~MayStart
    /\ run' = "panicked"
    /\ UNCHANGED <<corpus, jobs, stage, attempt, verdict, halted, rows, counted>>
Gathered == ~MayStart /\ In(Running \cup {"ended", "panicked"}) = {}

\* A case's evidence and then its row are written; one at a time, as it ends.
Writable(i) ==
    /\ run = "running"
    /\ IF jobs = 1 THEN stage[i] = "ended"
       ELSE Gathered /\ i \in In({"kept"}) \ rows /\ \A k \in In({"kept"}) \ rows : i <= k
StoreRow(i) ==
    /\ Writable(i)
    /\ rows' = rows \cup {i} /\ stage' = [stage EXCEPT ![i] = "kept"]
    /\ halted' = (halted \/ verdict[i] = "fatal")
    /\ UNCHANGED <<corpus, jobs, attempt, verdict, counted, run>>

\* Mutant: an error while storing is logged, and the case counted all the same.
StoreFailsUnseen(i) ==
    /\ Writable(i) /\ jobs = 1
    /\ stage' = [stage EXCEPT ![i] = "kept"] /\ halted' = (halted \/ verdict[i] = "fatal")
    /\ UNCHANGED <<corpus, jobs, attempt, verdict, rows, counted, run>>
StoreFails(i) ==
    /\ Writable(i) /\ run' = "failed"
    /\ UNCHANGED <<corpus, jobs, stage, attempt, verdict, halted, rows, counted>>

\* The prompts of a run one at a time have a summary of their own, and after a fatal
\* error the only one; the prompt set is then copied after it, which may fail.
PromptsAreDone ==
    /\ run = "running" /\ jobs = 1 /\ Prompts # {} /\ counted = NoSummary
    /\ In(Running \cup {"ended"}) = {} /\ (halted \/ Prompts \subseteq In({"kept"}))
SummarizePrompts ==
    /\ PromptsAreDone
    /\ counted' = In({"kept"}) /\ run' \in IF halted THEN {"ended", "failed"} ELSE {run}
    /\ UNCHANGED <<corpus, jobs, stage, attempt, verdict, halted, rows>>

CasesAreDone ==
    /\ run = "running" /\ Gathered /\ (jobs = 1 /\ Prompts # {} => counted # NoSummary)
    /\ jobs > 1 => In({"kept"}) \subseteq rows
Summarize ==
    /\ CasesAreDone
    /\ counted' = In({"kept"}) /\ run' = "ended"
    /\ UNCHANGED <<corpus, jobs, stage, attempt, verdict, halted, rows>>

\* The prompt set cannot be copied, or the summary not be appended.
SummaryFails ==
    /\ PromptsAreDone \/ CasesAreDone
    /\ run' = "failed"
    /\ UNCHANGED <<corpus, jobs, stage, attempt, verdict, halted, rows, counted>>

BenchmarkInit ==
    /\ corpus \in Corpora /\ jobs \in JobCounts
    /\ stage = [i \in Cases |-> "pending"] /\ attempt = [i \in Cases |-> Fresh]
    /\ verdict = [i \in Cases |-> "none"]
    /\ halted = FALSE /\ rows = {} /\ counted = NoSummary /\ run = "running"

CaseStep(i) ==
    \/ PromptOnce(i) \/ Ungradable(i) \/ PromptsEnd(i) \/ DispatchChange(i) \/ StepQueue(i) \/ Repair(i)
    \/ AskAgain(i) \/ TestsEnd(i) \/ Grade(i) \/ Panic(i) \/ TimeOut(i)
    \/ Join(i) \/ JoinPanicked(i) \/ StoreRow(i) \/ StoreFails(i)
BenchmarkNext ==
    \/ \E i \in Cases : CaseStep(i)
    \/ StartCase \/ SummarizePrompts \/ Summarize \/ SummaryFails

BenchmarkSpec == BenchmarkInit /\ [][BenchmarkNext]_bvars
-----------------------------------------------------------------------------
\* Wherever a store fails, a case panics or the process dies, no summary counts a
\* result that is not stored.  A command that ends has counted every stored one; and
\* if it left selected cases out, one of those that ran had a fatal error.
SummariesCountResults ==
    /\ counted # NoSummary => counted \subseteq rows
    /\ run = "ended" =>
           /\ counted = rows
           /\ rows # Cases => \E i \in rows : verdict[i] = "fatal"
=============================================================================
