---------------------------- MODULE BenchmarkProofs ----------------------------
(***************************************************************************)
(* Proofs about Benchmark, for every selection of cases, every number of jobs  *)
(* and of queue steps.  What a case does on its way is summed up in one lemma   *)
(* (CaseAdvances); the argument about rows and summaries is about the end.    *)
(***************************************************************************)
EXTENDS Benchmark, WellFoundedInduction, FiniteSetTheorems, TLAPS

Attempt == [passes : 0..Attempts, fails : 0..Attempts, errors : 0..Attempts,
            last : {"none", "plain", "fatal", "done", "failed", "broken"},
            steps : 0..MaxSteps, stalls : 0..2, planned : BOOLEAN, grades : 0..2]
Stages == Running \cup {"pending", "ended", "panicked", "kept"}
Early == {"pending", "working", "repairing", "retrying"}

\* While the queue still works on a case, it has a step left and may stall once more.
Ongoing(a) == a.steps < MaxSteps /\ a.stalls < 2
StepsAreLeft == \A i \in Cases : stage[i] \in Early => Ongoing(attempt[i])

BenchTypeInv == BenchmarkTypeOK /\ StepsAreLeft

LEMMA FreshIsOngoing == Fresh \in Attempt /\ Ongoing(Fresh)
  BY BenchmarkAssumption DEF Fresh, Attempt, Attempts, Ongoing

LEMMA TypeFacts ==
    ASSUME BenchmarkTypeOK
    PROVE  /\ stage \in [Cases -> Stages] /\ attempt \in [Cases -> Attempt]
           /\ verdict \in [Cases -> Verdicts] /\ rows \subseteq Cases
           /\ jobs \in Nat /\ jobs >= 1 /\ Cases \subseteq Nat /\ IsFiniteSet(Cases)
  <1>1. corpus \in Seq({"prompt", "change", "decompose", "greenfield"})
    BY BenchmarkAssumption DEF BenchmarkTypeOK
  <1>2. Len(corpus) \in Nat /\ Cases = 1..Len(corpus)  BY <1>1 DEF Cases
  <1>3. Cases \subseteq Nat /\ IsFiniteSet(Cases)  BY <1>2, FS_Interval
  <1>4. jobs \in Nat /\ jobs >= 1  BY BenchmarkAssumption DEF BenchmarkTypeOK
  <1>5. QED  BY <1>3, <1>4 DEF BenchmarkTypeOK, Stages, Attempt

\* One prompt more.
LEMMA PromptedType ==
    ASSUME NEW a \in Attempt, Made(a) < Attempts, Ongoing(a), NEW b \in Prompted(a)
    PROVE  b \in Attempt /\ Ongoing(b)
  <1>1. a.passes \in 0..2 /\ a.fails \in 0..2 /\ a.errors \in 0..2
    BY DEF Made, Attempts, Attempt
  <1>2. a.passes + 1 \in 0..3 /\ a.fails + 1 \in 0..3 /\ a.errors + 1 \in 0..3  BY <1>1
  <1>3. [a EXCEPT !.passes = @ + 1] \in Attempt /\ [a EXCEPT !.fails = @ + 1] \in Attempt
    BY <1>2 DEF Attempt, Attempts
  <1>4. [a EXCEPT !.fails = @ + 1, !.last = "plain"] \in Attempt  BY <1>2 DEF Attempt, Attempts
  <1>5. \A l \in {"plain", "fatal"} : [a EXCEPT !.errors = @ + 1, !.last = l] \in Attempt
    BY <1>2 DEF Attempt, Attempts
  <1>6. b \in Attempt  BY <1>3, <1>4, <1>5 DEF Prompted
  <1>7. b.steps = a.steps /\ b.stalls = a.stalls  BY DEF Prompted, Attempt
  <1>8. QED  BY <1>6, <1>7 DEF Ongoing

\* One step of the queue more.
LEMMA SteppedType ==
    ASSUME NEW a \in Attempt, Ongoing(a)
    PROVE  Stepped(a) \in Attempt /\ Stalled(a) \in Attempt
  <1>1. a.steps + 1 \in 0..MaxSteps /\ a.stalls + 1 \in 0..2
    BY BenchmarkAssumption DEF Attempt, Ongoing
  <1> DEFINE s == a.steps + 1  t == a.stalls + 1
  <1>2. Stepped(a) = [a EXCEPT !.steps = s, !.stalls = 0]
        /\ Stalled(a) = [a EXCEPT !.steps = s, !.stalls = t]
    BY DEF Stepped, Stalled
  <1>3. s \in 0..MaxSteps /\ t \in 0..2 /\ 0 \in 0..2  BY <1>1
  <1> HIDE DEF s, t
  <1>4. [a EXCEPT !.steps = s, !.stalls = 0] \in Attempt  BY <1>3 DEF Attempt
  <1>5. [a EXCEPT !.steps = s, !.stalls = t] \in Attempt  BY <1>3 DEF Attempt
  <1>6. QED  BY <1>2, <1>4, <1>5

LEMMA OneStepType ==
    ASSUME NEW a \in Attempt, Ongoing(a), NEW b \in OneStep(a)
    PROVE  b \in Attempt
  <1>1. Stepped(a) \in Attempt /\ Stalled(a) \in Attempt  BY SteppedType
  <1> HIDE DEF Stepped
  <1>2. \A l \in {"failed", "broken", "done"} : [Stepped(a) EXCEPT !.last = l] \in Attempt
    BY <1>1 DEF Attempt
  <1>3. [Stepped(a) EXCEPT !.planned = TRUE] \in Attempt  BY <1>1 DEF Attempt
  <1>4. QED  BY <1>1, <1>2, <1>3 DEF OneStep

LEMMA SettledType ==
    ASSUME NEW a \in Attempt
    PROVE  /\ Settled(a) \in Attempt /\ StageOf(Settled(a)) \in {"working", "testing"}
           /\ StageOf(Settled(a)) = "working" => Ongoing(Settled(a))
  <1>1. [a EXCEPT !.last = "broken"] \in Attempt /\ [a EXCEPT !.last = "broken"].last = "broken"
    BY DEF Attempt
  <1>2. CASE Stuck(a)  BY <1>1, <1>2 DEF Settled, StageOf
  <1>3. CASE ~Stuck(a)
    <2>1. Settled(a) = a  BY <1>3 DEF Settled
    <2>2. a.last = "none" => Ongoing(a)
      BY <1>3, BenchmarkAssumption DEF Stuck, Ongoing, Attempt
    <2>3. QED  BY <2>1, <2>2 DEF StageOf
  <1>4. QED  BY <1>2, <1>3

\* A case under way advances or ends, or its command is over.
Advances(i) == \E s \in Running, a \in Attempt : (s \in Early => Ongoing(a)) /\ To(i, s, a)
Ends(i) == \E v \in Verdicts : EndsWith(i, v)
Breaks(i) ==
    /\ stage' \in {stage, [stage EXCEPT ![i] = "panicked"]} /\ run' \in {run, "failed", "panicked"}
    /\ UNCHANGED <<corpus, jobs, attempt, verdict, halted, rows, counted>>

OnItsWay(i) ==
    \/ PromptOnce(i) \/ Ungradable(i) \/ PromptsEnd(i) \/ DispatchChange(i) \/ StepQueue(i)
    \/ Repair(i) \/ AskAgain(i) \/ TestsEnd(i) \/ Grade(i) \/ Panic(i) \/ TimeOut(i)

LEMMA PlanAdvances ==
    ASSUME BenchTypeInv, NEW i \in Cases, stage[i] \in Early, Planned(i) \/ Unplanned(i)
    PROVE  Advances(i)
  <1>1. attempt[i] \in Attempt /\ Ongoing(attempt[i])
    BY TypeFacts DEF BenchTypeInv, StepsAreLeft
  <1>2. Stepped(attempt[i]) \in Attempt  BY <1>1, SteppedType
  <1>3. [Stepped(attempt[i]) EXCEPT !.planned = TRUE] \in Attempt
        /\ [Stepped(attempt[i]) EXCEPT !.last = "failed"] \in Attempt
    <2> HIDE DEF Stepped
    <2>1. QED  BY <1>2 DEF Attempt
  <1>4. CASE Planned(i)
    <2> DEFINE a == Settled([Stepped(attempt[i]) EXCEPT !.planned = TRUE])
    <2>1. /\ a \in Attempt /\ StageOf(a) \in {"working", "testing"}
          /\ StageOf(a) = "working" => Ongoing(a)
      BY <1>3, SettledType
    <2>2. To(i, StageOf(a), a)  BY <1>4 DEF Planned
    <2> HIDE DEF a
    <2>3. QED  BY <2>1, <2>2 DEF Advances, Running, Waiting, Early
  <1>5. CASE Unplanned(i)
    BY <1>3, <1>5 DEF Unplanned, Advances, Running, Waiting, Early
  <1>6. QED  BY <1>4, <1>5

LEMMA CaseAdvances ==
    ASSUME BenchTypeInv, NEW i \in Cases, OnItsWay(i)
    PROVE  /\ run = "running" /\ stage[i] \in Running
           /\ Advances(i) \/ Ends(i) \/ Breaks(i)
  <1>1. attempt[i] \in Attempt /\ (stage[i] \in Early => Ongoing(attempt[i]))
    BY TypeFacts DEF BenchTypeInv, StepsAreLeft
  <1>2. run = "running" /\ stage[i] \in Running
    BY DEF OnItsWay, PromptOnce, Ungradable, PromptsEnd, DispatchChange, StepQueue, Repair, AskAgain,
           TestsEnd, Grade, Panic, TimeOut, Is, Running, Waiting
  <1>3. CASE PromptOnce(i)
    <2>1. PICK a \in Prompted(attempt[i]) : To(i, "working", a)  BY <1>3 DEF PromptOnce
    <2>2. a \in Attempt /\ Ongoing(a)
      BY <1>1, <1>3, PromptedType DEF PromptOnce, Is, Early
    <2>3. QED  BY <1>2, <2>1, <2>2 DEF Advances, Running, Waiting
  <1>4. CASE Ungradable(i) \/ PromptsEnd(i) \/ TimeOut(i) \/ Panic(i)
    BY <1>2, <1>4
    DEF Ungradable, PromptsEnd, PromptVerdict, TimeOut, Panic, Ends, Verdicts, Breaks
  <1>5. CASE DispatchChange(i)
    <2>1. \A l \in {"done", "failed"} : [attempt[i] EXCEPT !.last = l] \in Attempt
      BY <1>1 DEF Attempt
    <2>2. QED
      BY <1>2, <1>5, <2>1
      DEF DispatchChange, HarnessFails, Ends, Verdicts, Advances, Running, Waiting, Early
  <1>6. CASE StepQueue(i)
    <2>1. CASE \E a \in OneStep(attempt[i]) : To(i, StageOf(Settled(a)), Settled(a))
      <3>1. PICK a \in OneStep(attempt[i]) : To(i, StageOf(Settled(a)), Settled(a))  BY <2>1
      <3>2. a \in Attempt  BY <1>1, <1>6, OneStepType DEF StepQueue, Is, Early
      <3>3. /\ Settled(a) \in Attempt /\ StageOf(Settled(a)) \in {"working", "testing"}
            /\ StageOf(Settled(a)) = "working" => Ongoing(Settled(a))
        BY <3>2, SettledType
      <3>4. QED  BY <1>2, <3>1, <3>3 DEF Advances, Running, Waiting, Early
    <2>2. CASE To(i, "repairing", attempt[i])
      BY <1>1, <1>2, <1>6, <2>2 DEF StepQueue, Is, Advances, Running, Waiting, Early
    <2>3. CASE HarnessFails(i)  BY <1>2, <2>3 DEF HarnessFails, Ends, Verdicts
    <2>4. QED  BY <1>6, <2>1, <2>2, <2>3 DEF StepQueue
  <1>7. CASE Repair(i) \/ AskAgain(i)
    <2>1. stage[i] \in Early  BY <1>7 DEF Repair, AskAgain, Is, Early
    <2>2. CASE Planned(i) \/ Unplanned(i)  BY <1>2, <2>1, <2>2, PlanAdvances
    <2>3. CASE To(i, "retrying", attempt[i])
      BY <1>1, <1>2, <2>1, <2>3 DEF Advances, Running, Waiting, Early
    <2>4. CASE HarnessFails(i)  BY <1>2, <2>4 DEF HarnessFails, Ends, Verdicts
    <2>5. QED  BY <1>7, <2>2, <2>3, <2>4 DEF Repair, AskAgain
  <1>8. CASE TestsEnd(i)
    BY <1>1, <1>2, <1>8 DEF TestsEnd, Ends, Verdicts, Advances, Running, Waiting, Early
  <1>9. CASE Grade(i)
    <2>1. [attempt[i] EXCEPT !.grades = 1] \in Attempt  BY <1>1 DEF Attempt
    <2>2. QED
      BY <1>2, <1>9, <2>1 DEF Grade, Ends, Verdicts, Advances, Running, Waiting, Early
  <1>10. QED
    BY <1>3, <1>4, <1>5, <1>6, <1>7, <1>8, <1>9 DEF OnItsWay
-----------------------------------------------------------------------------
(* Type correctness.                                                       *)

LEMMA LeastExists == ASSUME NEW T \in SUBSET Nat, T # {} PROVE \E x \in T : \A y \in T : x <= y
  <1> DEFINE R == OpToRel(<, Nat)
  <1>1. IsWellFoundedOn(R, Nat)  BY NatLessThanWellFounded
  <1>2. \A x, y \in Nat : y < x => <<y, x>> \in R  BY DEF OpToRel
  <1> HIDE DEF R
  <1>3. PICK x \in T : \A y \in T : <<y, x>> \notin R  BY <1>1, WFMin
  <1>4. ASSUME NEW y \in T  PROVE x <= y
    <2>1. y \in Nat /\ x \in Nat  OBVIOUS
    <2>2. ~(y < x)  BY <2>1, <1>2, <1>3
    <2>3. QED  BY <2>1, <2>2
  <1>5. QED  BY <1>4

LEMMA MinBelongs == ASSUME NEW T \in SUBSET Nat, T # {} PROVE Min(T) \in T
  BY LeastExists DEF Min

LEMMA StartsAPending ==
    ASSUME BenchTypeInv, In({"pending"}) # {}
    PROVE  Next1(In({"pending"})) \in Cases /\ stage[Next1(In({"pending"}))] = "pending"
  <1> DEFINE P == In({"pending"})
  <1>1. P \in SUBSET Nat /\ P \cap Prompts \in SUBSET Nat
    BY TypeFacts DEF BenchTypeInv, In
  <1>2. Next1(P) \in P  BY <1>1, MinBelongs DEF Next1
  <1>3. QED  BY <1>2 DEF In

LEMMA InitTypes == BenchmarkInit => BenchTypeInv
  <1> SUFFICES ASSUME BenchmarkInit PROVE BenchTypeInv  OBVIOUS
  <1>1. Fresh \in Attempt /\ Ongoing(Fresh)  BY FreshIsOngoing
  <1>2. stage \in [Cases -> Stages]  BY DEF BenchmarkInit, Stages
  <1>3. attempt \in [Cases -> Attempt] /\ verdict \in [Cases -> Verdicts]
    BY <1>1 DEF BenchmarkInit, Verdicts
  <1>4. StepsAreLeft  BY <1>1 DEF BenchmarkInit, StepsAreLeft
  <1>5. QED
    BY <1>2, <1>3, <1>4 DEF BenchTypeInv, BenchmarkTypeOK, BenchmarkInit, Stages, Attempt, NoSummary

\* What a step does to the stages and attempts.
LEMMA TypeStep ==
    ASSUME BenchTypeInv, corpus' = corpus, jobs' = jobs,
           stage' \in [Cases -> Stages], attempt' \in [Cases -> Attempt],
           verdict' \in [Cases -> Verdicts], halted' \in BOOLEAN, rows' \subseteq Cases,
           counted' = NoSummary \/ counted' \subseteq Cases,
           run' \in {"running", "ended", "failed", "panicked"},
           \A i \in Cases : stage'[i] \in Early => Ongoing(attempt'[i])
    PROVE  BenchTypeInv'
  <1>1. Cases' = Cases  BY DEF Cases
  <1>2. BenchmarkTypeOK'
    BY <1>1 DEF BenchTypeInv, BenchmarkTypeOK, Stages, Attempt, Attempts, Running, Waiting, NoSummary,
                Verdicts
  <1>3. StepsAreLeft'  BY <1>1 DEF StepsAreLeft
  <1>4. QED  BY <1>2, <1>3 DEF BenchTypeInv

LEMMA StepTypes == BenchTypeInv /\ [BenchmarkNext]_bvars => BenchTypeInv'
  <1> SUFFICES ASSUME BenchTypeInv, [BenchmarkNext]_bvars PROVE BenchTypeInv'  OBVIOUS
  <1>1. /\ stage \in [Cases -> Stages] /\ attempt \in [Cases -> Attempt]
        /\ verdict \in [Cases -> Verdicts] /\ rows \subseteq Cases
    BY TypeFacts DEF BenchTypeInv
  <1>2. /\ halted \in BOOLEAN /\ (counted = NoSummary \/ counted \subseteq Cases)
        /\ run \in {"running", "ended", "failed", "panicked"}
    BY DEF BenchTypeInv, BenchmarkTypeOK
  <1>3. \A i \in Cases : stage[i] \in Early => Ongoing(attempt[i])  BY DEF BenchTypeInv, StepsAreLeft
  <1>4. ASSUME NEW i \in Cases, OnItsWay(i) PROVE BenchTypeInv'
    <2>1. CASE Advances(i)
      <3>1. PICK s \in Running, a \in Attempt : (s \in Early => Ongoing(a)) /\ To(i, s, a)
        BY <2>1 DEF Advances
      <3>2. s \in Stages  BY DEF Stages
      <3>3. stage' \in [Cases -> Stages] /\ attempt' \in [Cases -> Attempt]
        BY <1>1, <3>1, <3>2 DEF To
      <3>4. \A k \in Cases : stage'[k] \in Early => Ongoing(attempt'[k])
        BY <1>1, <1>3, <3>1 DEF To
      <3>5. corpus' = corpus /\ jobs' = jobs /\ verdict' = verdict /\ halted' = halted
            /\ rows' = rows /\ counted' = counted /\ run' = run
        BY <3>1 DEF To, ended
      <3>6. QED  BY <1>1, <1>2, <3>3, <3>4, <3>5, TypeStep
    <2>2. CASE Ends(i)
      <3>1. PICK v \in Verdicts : EndsWith(i, v)  BY <2>2 DEF Ends
      <3>2. "ended" \in Stages /\ "ended" \notin Early  BY DEF Stages, Early
      <3>3. stage' \in [Cases -> Stages] /\ attempt' \in [Cases -> Attempt] /\ verdict' \in [Cases -> Verdicts]
        BY <1>1, <3>1, <3>2, FreshIsOngoing DEF EndsWith
      <3>4. \A k \in Cases : stage'[k] \in Early => Ongoing(attempt'[k])
        BY <1>1, <1>3, <3>1, <3>2 DEF EndsWith
      <3>5. corpus' = corpus /\ jobs' = jobs /\ halted' = halted
            /\ rows' = rows /\ counted' = counted /\ run' = run
        BY <3>1 DEF EndsWith, ended
      <3>6. QED  BY <1>1, <1>2, <3>3, <3>4, <3>5, TypeStep
    <2>3. CASE Breaks(i)
      <3>1. "panicked" \in Stages /\ "panicked" \notin Early  BY DEF Stages, Early
      <3>2. stage' \in [Cases -> Stages]  BY <1>1, <2>3, <3>1 DEF Breaks
      <3>3. \A k \in Cases : stage'[k] \in Early => Ongoing(attempt'[k])
        BY <1>1, <1>3, <2>3, <3>1 DEF Breaks
      <3>4. QED  BY <1>1, <1>2, <2>3, <3>2, <3>3, TypeStep DEF Breaks
    <2>4. QED  BY <1>4, <2>1, <2>2, <2>3, CaseAdvances
  <1>5. ASSUME NEW i \in Cases, Join(i) \/ StoreRow(i) PROVE BenchTypeInv'
    <2>1. stage' = [stage EXCEPT ![i] = "kept"] /\ halted' = (halted \/ verdict[i] = "fatal")
          /\ rows' \in {rows, rows \cup {i}}
          /\ UNCHANGED <<corpus, jobs, attempt, verdict, counted, run>>
      BY <1>5 DEF Join, StoreRow
    <2>2. "kept" \in Stages /\ "kept" \notin Early  BY DEF Stages, Early
    <2>3. stage' \in [Cases -> Stages]  BY <1>1, <2>1, <2>2
    <2>4. \A k \in Cases : stage'[k] \in Early => Ongoing(attempt'[k])  BY <1>1, <1>3, <2>1, <2>2
    <2>5. rows' \subseteq Cases  BY <1>1, <2>1
    <2>6. halted' \in BOOLEAN  BY <1>2, <2>1
    <2>7. QED  BY <1>1, <1>2, <2>1, <2>3, <2>4, <2>5, <2>6, TypeStep
  <1>6. ASSUME NEW i \in Cases, JoinPanicked(i) \/ StoreFails(i) PROVE BenchTypeInv'
    <2>1. UNCHANGED <<corpus, jobs, stage, attempt, verdict, halted, rows, counted>>
          /\ run' \in {"failed", "panicked"}
      BY <1>6 DEF JoinPanicked, StoreFails
    <2>2. QED  BY <1>1, <1>2, <1>3, <2>1, TypeStep
  <1>7. CASE StartCase
    <2> DEFINE n == Next1(In({"pending"}))
    <2>1. n \in Cases /\ stage[n] = "pending"
      BY <1>7, StartsAPending DEF StartCase, MayStart
    <2>2. /\ stage' = [stage EXCEPT ![n] = "working"]
          /\ corpus' = corpus /\ jobs' = jobs /\ attempt' = attempt /\ verdict' = verdict
          /\ halted' = halted /\ rows' = rows /\ counted' = counted /\ run' = run
      BY <1>7 DEF StartCase, ended
    <2> HIDE DEF n
    <2>3. "working" \in Stages /\ "pending" \in Early  BY DEF Stages, Early, Running, Waiting
    <2>4. stage' \in [Cases -> Stages]  BY <1>1, <2>1, <2>2, <2>3
    <2>5. \A k \in Cases : stage'[k] \in Early => Ongoing(attempt'[k])
      BY <1>1, <1>3, <2>1, <2>2, <2>3
    <2>6. QED  BY <1>1, <1>2, <2>2, <2>4, <2>5, TypeStep
  <1>8. CASE SummarizePrompts \/ Summarize \/ SummaryFails
    <2>1. UNCHANGED <<corpus, jobs, stage, attempt, verdict, halted, rows>>
          /\ (counted' \subseteq Cases \/ counted' = counted) /\ run' \in {run, "ended", "failed"}
      BY <1>8 DEF SummarizePrompts, Summarize, SummaryFails, In
    <2>2. QED  BY <1>1, <1>2, <1>3, <2>1, TypeStep
  <1>9. CASE UNCHANGED bvars
    BY <1>1, <1>2, <1>3, <1>9, TypeStep DEF bvars
  <1>10. QED
    BY <1>4, <1>5, <1>6, <1>7, <1>8, <1>9 DEF BenchmarkNext, CaseStep, OnItsWay

\* The state keeps its type: no case asks for a prompt, takes a queue step or asks
\* the grader more often than the runner allows it.
THEOREM BenchmarkTypeCorrect == BenchmarkSpec => []BenchmarkTypeOK
  <1>1. BenchTypeInv => BenchmarkTypeOK  BY DEF BenchTypeInv
  <1>2. QED  BY InitTypes, StepTypes, <1>1, PTL DEF BenchmarkSpec

\* ... because it never has a step of the queue to take that it may not take.
THEOREM RunnersAreInvariant == BenchmarkSpec => []BenchTypeInv
  BY InitTypes, StepTypes, PTL DEF BenchmarkSpec
-----------------------------------------------------------------------------
(* Rows and summaries.                                                     *)

Kept == In({"kept"})

\* A result is kept before or when it is stored; one at a time, a kept one is stored.
\* The cases stop being started for a reason that is among the results kept.
ResultInv ==
    /\ rows \subseteq Kept
    /\ jobs = 1 => Kept \subseteq rows
    /\ halted => \E i \in Kept : verdict[i] = "fatal"
    /\ SummariesCountResults

LEMMA InitResults == BenchmarkInit => ResultInv
  BY DEF BenchmarkInit, ResultInv, Kept, In, SummariesCountResults

\* Most steps touch no kept case, and write nothing.
LEMMA NothingKept ==
    ASSUME BenchTypeInv, ResultInv, run = "running",
           UNCHANGED <<corpus, jobs, halted, rows, counted>>, run' \in {run, "failed", "panicked"},
           \A k \in Cases : stage'[k] = "kept" <=> stage[k] = "kept",
           \A k \in Kept : verdict'[k] = verdict[k]
    PROVE  ResultInv'
  <1>1. Cases' = Cases  BY DEF Cases
  <1>2. Kept' = Kept  BY <1>1 DEF Kept, In
  <1>3. SummariesCountResults'
    BY <1>1 DEF ResultInv, SummariesCountResults, NoSummary
  <1>4. QED  BY <1>2, <1>3 DEF ResultInv

LEMMA StepResults == BenchTypeInv /\ ResultInv /\ [BenchmarkNext]_bvars => ResultInv'
  <1> SUFFICES ASSUME BenchTypeInv, ResultInv, [BenchmarkNext]_bvars PROVE ResultInv'  OBVIOUS
  <1>1. /\ stage \in [Cases -> Stages] /\ verdict \in [Cases -> Verdicts] /\ rows \subseteq Cases
        /\ jobs \in Nat /\ jobs >= 1
    BY TypeFacts DEF BenchTypeInv
  <1>2. ASSUME NEW i \in Cases, OnItsWay(i) PROVE ResultInv'
    <2>1. run = "running" /\ stage[i] # "kept" /\ (Advances(i) \/ Ends(i) \/ Breaks(i))
      BY <1>2, CaseAdvances DEF Running, Waiting
    <2>2. /\ UNCHANGED <<corpus, jobs, halted, rows, counted>> /\ run' \in {run, "failed", "panicked"}
          /\ \A k \in Cases : stage'[k] = "kept" <=> stage[k] = "kept"
          /\ \A k \in Kept : verdict'[k] = verdict[k]
      BY <1>1, <2>1 DEF Advances, Ends, Breaks, To, EndsWith, ended, Kept, In, Running, Waiting
    <2>3. QED  BY <2>1, <2>2, NothingKept
  <1>3. ASSUME NEW i \in Cases, JoinPanicked(i) \/ StoreFails(i) PROVE ResultInv'
    BY <1>3, NothingKept DEF JoinPanicked, StoreFails, Writable
  <1>4. CASE StartCase
    <2> DEFINE n == Next1(In({"pending"}))
    <2>1. n \in Cases /\ stage[n] = "pending"
      BY <1>4, StartsAPending DEF StartCase, MayStart
    <2>2. /\ run = "running" /\ stage' = [stage EXCEPT ![n] = "working"]
          /\ UNCHANGED <<corpus, jobs, verdict, halted, rows, counted, run>>
      BY <1>4 DEF StartCase, MayStart, ended
    <2> HIDE DEF n
    <2>3. \A k \in Cases : stage'[k] = "kept" <=> stage[k] = "kept"  BY <1>1, <2>1, <2>2
    <2>4. QED  BY <2>2, <2>3, NothingKept
  <1>5. ASSUME NEW i \in Cases, Join(i) \/ StoreRow(i) PROVE ResultInv'
    <2>1. /\ run = "running" /\ stage' = [stage EXCEPT ![i] = "kept"]
          /\ halted' = (halted \/ verdict[i] = "fatal")
          /\ UNCHANGED <<corpus, jobs, attempt, verdict, counted, run>>
      BY <1>5 DEF Join, StoreRow, Writable
    <2>2. Cases' = Cases  BY <2>1 DEF Cases
    <2>3. Kept' = Kept \cup {i}  BY <1>1, <2>1, <2>2 DEF Kept, In
    <2>4. rows \subseteq rows' /\ rows' \subseteq rows \cup {i} /\ (jobs = 1 => i \in rows')
      BY <1>1, <1>5 DEF Join, StoreRow
    <2>5. SummariesCountResults'  BY <2>1, <2>4 DEF ResultInv, SummariesCountResults, NoSummary
    <2>6. halted' => \E k \in Kept' : verdict'[k] = "fatal"  BY <2>1, <2>3 DEF ResultInv
    <2>7. QED  BY <2>1, <2>3, <2>4, <2>5, <2>6 DEF ResultInv
  <1>6. CASE SummarizePrompts
    <2>1. Kept = rows  BY <1>6 DEF SummarizePrompts, PromptsAreDone, ResultInv
    <2>2. Cases' = Cases /\ Kept' = Kept  BY <1>6 DEF SummarizePrompts, Cases, Kept, In
    <2>3. SummariesCountResults'
      BY <1>6, <2>1, <2>2 DEF SummarizePrompts, PromptsAreDone, SummariesCountResults, ResultInv, Kept
    <2>4. QED  BY <1>6, <2>2, <2>3 DEF SummarizePrompts, ResultInv
  <1>7. CASE Summarize
    <2>1. Kept = rows  BY <1>1, <1>7 DEF Summarize, CasesAreDone, ResultInv, Kept
    <2>2. Cases' = Cases /\ Kept' = Kept  BY <1>7 DEF Summarize, Cases, Kept, In
    <2>3. ASSUME rows # Cases PROVE halted
      <3>1. PICK k \in Cases : k \notin rows  BY <1>1, <2>3
      <3>2. stage[k] = "pending"
        BY <1>1, <1>7, <2>1, <3>1 DEF Summarize, CasesAreDone, Gathered, In, Stages, Kept
      <3>3. Cardinality(In(Running \cup {"ended", "panicked"})) < jobs
        <4>1. In(Running \cup {"ended", "panicked"}) = {}  BY <1>7 DEF Summarize, CasesAreDone, Gathered
        <4>2. Cardinality({}) = 0  BY FS_EmptySet
        <4>3. 0 < jobs  BY <1>1
        <4>4. QED  BY <4>1, <4>2, <4>3, Zenon
      <3>4. In({"pending"}) # {}  BY <3>2 DEF In
      <3>5. QED  BY <1>7, <3>3, <3>4 DEF Summarize, CasesAreDone, Gathered, MayStart
    <2>4. SummariesCountResults'
      BY <1>7, <2>1, <2>2, <2>3 DEF Summarize, CasesAreDone, SummariesCountResults, ResultInv, Kept
    <2>5. QED  BY <1>7, <2>2, <2>4 DEF Summarize, ResultInv
  <1>8. CASE SummaryFails
    BY <1>8, NothingKept DEF SummaryFails, PromptsAreDone, CasesAreDone
  <1>9. CASE UNCHANGED bvars
    BY <1>9 DEF bvars, ResultInv, SummariesCountResults, Kept, In, Cases, NoSummary
  <1>10. QED
    BY <1>2, <1>3, <1>4, <1>5, <1>6, <1>7, <1>8, <1>9 DEF BenchmarkNext, CaseStep, OnItsWay

\* No summary counts a result that is not stored, and what an ended command left out
\* it left out because of a fatal error among the results it stored.
THEOREM SummariesAreOfResults == BenchmarkSpec => []SummariesCountResults
  <1>1. ResultInv => SummariesCountResults  BY DEF ResultInv
  <1>2. QED
    BY RunnersAreInvariant, InitResults, StepResults, <1>1, PTL DEF BenchmarkSpec
=============================================================================
