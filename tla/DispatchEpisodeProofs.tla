------------------------- MODULE DispatchEpisodeProofs -------------------------
(***************************************************************************)
(* Proofs about DispatchEpisode, for every configuration, every number of     *)
(* episodes and faults, and any sequence of them.  Each layer is an inductive  *)
(* invariant that the next one uses:                                        *)
(*   TypeInv    the types, and what keeps round numbers and bounces bounded;  *)
(*   ClaimInv   the claim, the stored target and a worker left behind;       *)
(*   PathInv    how an outcome is earned: the commit, the accepted text;     *)
(*   BounceInv  the rejections the ledger holds for every bounce;            *)
(*   ResumeInv  the rounds the ledger credits against those the text has.     *)
(***************************************************************************)
EXTENDS DispatchEpisode, FiniteSetTheorems, WellFoundedInduction, TLAPS

LOCAL INSTANCE FiniteSetsExt

\* A nonempty set of naturals has a least member.
LEMMA NatMin == ASSUME NEW T \in SUBSET Nat, T # {} PROVE \E x \in T : \A y \in T : x <= y
  <1> DEFINE R == OpToRel(<, Nat)
  <1>1. IsWellFoundedOn(R, Nat)  BY NatLessThanWellFounded
  <1>2. \A x, y \in Nat : y < x => <<y, x>> \in R  BY DEF OpToRel
  <1> HIDE DEF R
  <1>3. PICK x \in T : \A y \in T : <<y, x>> \notin R  BY <1>1, WFMin
  <1>4. ASSUME NEW y \in T  PROVE x <= y
    <2>1. y \in Nat /\ x \in Nat  OBVIOUS
    <2>2. ~(y < x)  BY <2>1, <1>2, <1>3
    <2>3. QED  BY <2>1, <2>2
  <1>5. QED  BY <1>4

\* A nonempty set of naturals up to n has a greatest member.
LEMMA BoundedMax ==
    ASSUME NEW n \in Nat, NEW T \in SUBSET (0..n), T # {}
    PROVE  \E x \in T : \A y \in T : x >= y
  <1> DEFINE U == {n - x : x \in T}
  <1>1. \A x \in T : x \in Int /\ 0 <= x /\ x <= n /\ n - x \in Nat  OBVIOUS
  <1>2. U \in SUBSET Nat  BY <1>1
  <1>3. U # {}
    <2>1. PICK x \in T : TRUE  OBVIOUS
    <2>2. n - x \in U  BY <2>1
    <2>3. QED  BY <2>2
  <1>4. \A y \in T : n - y \in U  OBVIOUS
  <1>5. \A u \in U : \E x \in T : u = n - x  OBVIOUS
  <1> HIDE DEF U
  <1>6. PICK u \in U : \A y \in U : u <= y  BY <1>2, <1>3, NatMin
  <1>7. PICK x \in T : u = n - x  BY <1>5, <1>6
  <1>8. ASSUME NEW y \in T  PROVE x >= y
    <2>1. n - x <= n - y  BY <1>4, <1>6, <1>7
    <2>2. QED  BY <1>1, <2>1
  <1>9. QED  BY <1>8

-----------------------------------------------------------------------------
\* The credits that CompletedRound takes the maximum of.
Credits(l, c) == {0} \cup {Credit(l[i]) : i \in LatestOfRounds(l, c)}

LEMMA CreditsAreRounds ==
    ASSUME NEW B \in Nat, NEW l \in Seq(Diagnostics(B)), NEW c \in 0..Len(l)
    PROVE  /\ \A i \in 1..c : l[i].round \in 1..B /\ l[i].reason \in Reasons
           /\ \A i \in 1..c : Credit(l[i]) \in {l[i].round, l[i].round - 1}
           /\ Credits(l, c) \in SUBSET (0..B)
  <1>1. \A i \in 1..c : l[i] \in Diagnostics(B)  OBVIOUS
  <1>2. \A i \in 1..c : l[i].round \in 1..B /\ l[i].reason \in Reasons  BY <1>1 DEF Diagnostics
  <1>3. \A i \in 1..c : Credit(l[i]) \in {l[i].round, l[i].round - 1}  BY DEF Credit
  <1>4. \A i \in LatestOfRounds(l, c) : i \in 1..c  BY DEF LatestOfRounds
  <1>5. \A i \in 1..c : Credit(l[i]) \in 0..B  BY <1>2, <1>3
  <1>6. Credits(l, c) \in SUBSET (0..B)  BY <1>4, <1>5 DEF Credits
  <1>7. QED  BY <1>2, <1>3, <1>6

\* The completed round is one of the credits, and the greatest.
LEMMA CompletedRoundIsMax ==
    ASSUME NEW B \in Nat, NEW l \in Seq(Diagnostics(B)), NEW c \in 0..Len(l)
    PROVE  /\ CompletedRound(l, c) \in Credits(l, c)
           /\ \A y \in Credits(l, c) : CompletedRound(l, c) >= y
           /\ CompletedRound(l, c) \in 0..B
  <1>1. Credits(l, c) \in SUBSET (0..B)  BY CreditsAreRounds
  <1>2. Credits(l, c) # {}  BY DEF Credits
  <1>3. \E x \in Credits(l, c) : \A y \in Credits(l, c) : x >= y  BY <1>1, <1>2, BoundedMax
  <1>4. CompletedRound(l, c) = CHOOSE x \in Credits(l, c) : \A y \in Credits(l, c) : x >= y
    BY DEF CompletedRound, Max, Credits
  <1>5. QED  BY <1>1, <1>3, <1>4

\* No credit exceeds what every diagnostic stays within.
LEMMA CompletedRoundBound ==
    ASSUME NEW B \in Nat, NEW l \in Seq(Diagnostics(B)), NEW c \in 0..Len(l),
           NEW n \in Nat, \A i \in 1..c : l[i].round <= n
    PROVE  CompletedRound(l, c) \in 0..n
  <1>1. CompletedRound(l, c) \in Credits(l, c) /\ CompletedRound(l, c) \in 0..B
    BY CompletedRoundIsMax
  <1>2. \A i \in 1..c : Credit(l[i]) <= n  BY CreditsAreRounds
  <1>3. \A i \in LatestOfRounds(l, c) : i \in 1..c  BY DEF LatestOfRounds
  <1>4. \A y \in Credits(l, c) : y <= n  BY <1>2, <1>3 DEF Credits
  <1>5. QED  BY <1>1, <1>4

LEMMA RejectionsAreFinite ==
    ASSUME NEW l, NEW c \in Nat
    PROVE  /\ IsFiniteSet({i \in 1..c : l[i].reason \in Rejected})
           /\ QualityRejections(l, c) \in Nat
  <1>1. IsFiniteSet(1..c)  BY FS_Interval
  <1>2. IsFiniteSet({i \in 1..c : l[i].reason \in Rejected})  BY <1>1, FS_Subset
  <1>3. QED  BY <1>2, FS_CardinalityType DEF QualityRejections

\* What Append does to the ledger, read pointwise.
LEMMA LedgerAppend ==
    ASSUME NEW S, NEW l \in Seq(S), NEW d \in S
    PROVE  /\ Append(l, d) \in Seq(S)
           /\ Len(Append(l, d)) = Len(l) + 1
           /\ Append(l, d)[Len(l) + 1] = d
           /\ \A i \in 1..Len(l) : Append(l, d)[i] = l[i]
  OBVIOUS
-----------------------------------------------------------------------------
(* Type correctness.  Round numbers grow past the configured count by at most *)
(* one with every episode, and an episode bounces at most once.             *)

Active == pc \notin Resting \cup {"stored"}
Started == IF pc = "claimed" THEN episodes - 1 ELSE episodes

RoundsAreBounded ==
    /\ \A i \in 1..Len(ledger) : ledger[i].round <= cfg.rounds + Started
    /\ rd.round <= cfg.rounds + episodes
    /\ pc = "claimed" => episodes >= 1

BouncesFollowEpisodes ==
    /\ bounces <= episodes
    /\ Active => bounces < episodes

TypeInv == TypeOK /\ RoundsAreBounded /\ BouncesFollowEpisodes

LEMMA ConfigTypes ==
    ASSUME cfg \in Configs
    PROVE  /\ cfg \in Config
           /\ cfg.target \in Targets /\ cfg.rounds \in Nat /\ cfg.rounds >= 1
           /\ cfg.reviews \in Nat
           /\ cfg.retries \in Nat \cup {-1}
           /\ Limit \in Nat /\ MaxRound \in Nat /\ MaxEpisodes \in Nat /\ MaxFaults \in Nat
           /\ cfg.contract => cfg.target = "executing"
           /\ MaxRound = cfg.rounds + MaxEpisodes
  <1>1. cfg \in Config  BY EpisodeAssumption
  <1>2. QED  BY <1>1, EpisodeAssumption DEF Config, Limit, MaxRound

LEMMA InitType == Init => TypeInv
  <1>1. SUFFICES ASSUME Init PROVE TypeInv  OBVIOUS
  <1>2. cfg \in Configs  BY <1>1 DEF Init
  <1>3. NoCopy \in Orb  BY <1>2, ConfigTypes DEF NoCopy, Orb, States
  <1>4. NoRound \in Round  BY <1>2, ConfigTypes DEF NoRound, Round, Reasons
  <1>5. NoCall \in Calls  BY DEF NoCall, Calls, Steps, RetryLimit
  <1>6. AsFound \in Repositories(2)  BY DEF AsFound, Repositories, Tips
  <1>7. TypeOK
    <2>1. disk \in Orb /\ orb \in Orb /\ rd \in Round /\ call \in Calls /\ repo \in Repositories(2)
      BY <1>1, <1>3, <1>4, <1>5, <1>6 DEF Init
    <2>2. disk.checkpoint <= Len(ledger) /\ orb.checkpoint <= Len(ledger)
      BY <1>1 DEF Init, NoCopy
    <2>3. ledger \in Seq(Diagnostics(MaxRound))  BY <1>1 DEF Init
    <2>4. retries \in 0..Limit /\ approved \in -1..MaxRound
      BY <1>1, <1>2, ConfigTypes DEF Init
    <2>5. bounces \in 0..MaxEpisodes /\ episodes \in 0..MaxEpisodes /\ faults \in 0..MaxFaults
      BY <1>1, EpisodeAssumption DEF Init
    <2>6. QED
      BY <1>1, <1>2, <2>1, <2>2, <2>3, <2>4, <2>5 DEF Init, TypeOK, Places, Resting
  <1>8. RoundsAreBounded  BY <1>1, <1>2, ConfigTypes DEF Init, RoundsAreBounded, NoRound
  <1>9. BouncesFollowEpisodes  BY <1>1 DEF Init, BouncesFollowEpisodes, Active, Resting
  <1>10. QED  BY <1>7, <1>8, <1>9 DEF TypeInv

-----------------------------------------------------------------------------
(* A step, group by group.                                                  *)

CallOK == call \in Calls /\ running \in BOOLEAN /\ leaked \in BOOLEAN
CopyOK == orb \in Orb /\ out \in Outcomes \cup {"none"} /\ rd \in Round /\ retries \in 0..Limit
LedgerOK ==
    /\ ledger \in Seq(Diagnostics(MaxRound))
    /\ disk.checkpoint <= Len(ledger) /\ orb.checkpoint <= Len(ledger)
StoreOK == disk \in Orb /\ claim \in BOOLEAN /\ repo \in Repositories(2)
CountersOK ==
    /\ approved \in -1..MaxRound /\ bounces \in 0..MaxEpisodes /\ lost \in BOOLEAN
    /\ episodes \in 0..MaxEpisodes /\ faults \in 0..MaxFaults

LEMMA TypeParts ==
    TypeInv <=> /\ cfg \in Configs /\ pc \in Places /\ CallOK /\ CopyOK /\ LedgerOK /\ StoreOK
                /\ CountersOK /\ RoundsAreBounded /\ BouncesFollowEpisodes
  BY DEF TypeInv, TypeOK, CallOK, CopyOK, LedgerOK, StoreOK, CountersOK

LEMMA NamedValues ==
    ASSUME cfg \in Configs
    PROVE  NoCopy \in Orb /\ NoRound \in Round /\ NoCall \in Calls /\ NewCall \in Calls
  <1>1. NoCopy \in Orb  BY ConfigTypes DEF NoCopy, Orb, States
  <1>2. NoRound \in Round  BY ConfigTypes DEF NoRound, Round, Reasons
  <1>3. NoCall \in Calls  BY DEF NoCall, Calls, Steps, RetryLimit
  <1>4. NewCall \in Calls  BY <1>3 DEF NewCall, Calls, Steps
  <1>5. QED  BY <1>1, <1>2, <1>3, <1>4

\* A ladder step that moves on, and one that also sets an outcome.
LEMMA GoesOn ==
    ASSUME call \in Calls, NEW step \in Steps, Goes(step)
    PROVE  call' \in Calls /\ call'.step = step /\ call'.out = call.out
  BY DEF Goes, Calls

LEMMA YieldsOutcome ==
    ASSUME call \in Calls, NEW step \in Steps, NEW o \in Outcomes, NEW retry \in BOOLEAN,
           Yields(step, o, retry)
    PROVE  call' \in Calls /\ call'.step = step /\ call'.out = o
  <1>1. call' = [step |-> step, attempt |-> call.attempt, out |-> o, retry |-> retry]
    BY DEF Yields, Calls
  <1>2. QED  BY <1>1 DEF Calls

\* Whatever the worker ladder does, and what it costs when a teardown fails.
LEMMA LadderSteps ==
    ASSUME CallOK, LadderStep \/ LadderFault
    PROVE  /\ CallOK' /\ running' = running
           /\ call.step \notin {"idle", "returned"}
           /\ leaked' # leaked => call'.step = "returned" /\ call'.out = "fatal"
           /\ LadderStep => leaked' = leaked
  <1> DEFINE Goal == /\ CallOK' /\ running' = running
                     /\ call.step \notin {"idle", "returned"}
                     /\ leaked' # leaked => call'.step = "returned" /\ call'.out = "fatal"
  <1>1. call \in Calls /\ \A s \in {"spawn", "returned", "send", "decide", "shutdown"} : s \in Steps
    BY DEF CallOK, Steps
  <1>2. \A o \in Outcomes : o \in {"good", "bad", "silent", "error", "failed", "cancelled",
                                    "aborted", "fatal"}
    BY DEF Outcomes, Done, Failures
  <1>3. Done \cup {"cancelled", "aborted", "fatal", "error", "failed"} \subseteq Outcomes
    BY DEF Outcomes, Failures
  <1>4. CASE Gate
    BY <1>1, <1>3, <1>4, GoesOn, YieldsOutcome DEF Gate, CallOK, In
  <1>5. CASE Prepare  BY <1>1, <1>5, GoesOn DEF Prepare, CallOK, In
  <1>6. CASE Spawn  BY <1>1, <1>3, <1>6, GoesOn, YieldsOutcome DEF Spawn, CallOK, In
  <1>7. CASE Reply  BY <1>1, <1>3, <1>7, YieldsOutcome DEF Reply, CallOK, In
  <1>8. CASE Shutdown  BY <1>1, <1>8, GoesOn DEF Shutdown, CallOK, In
  <1>9. CASE Decide
    <2>1. CASE Goes("returned")  BY <1>1, <1>9, <2>1, GoesOn DEF Decide, CallOK, In
    <2>2. CASE /\ call.attempt < RetryLimit
               /\ call' = [NoCall EXCEPT !.step = "prepare", !.attempt = call.attempt + 1]
      <3>1. NoCall \in Calls  BY DEF NoCall, Calls, Steps, RetryLimit
      <3>2. call.attempt + 1 \in 0..RetryLimit  BY <1>1, <2>2 DEF Calls, RetryLimit
      <3>3. call' \in Calls  BY <2>2, <3>1, <3>2 DEF Calls, Steps
      <3>4. QED  BY <1>9, <3>3 DEF Decide, CallOK, In
    <2>3. QED  BY <1>9, <2>1, <2>2 DEF Decide
  <1>10. CASE PrepareFails  BY <1>1, <1>3, <1>10, YieldsOutcome DEF PrepareFails, CallOK, In
  <1>11. ASSUME SpawnIsFatal  PROVE Goal
    <2>1. /\ call' \in Calls /\ call'.step = "returned" /\ call'.out = "fatal"
          /\ call.step \notin {"idle", "returned"}
      BY <1>1, <1>3, <1>11, YieldsOutcome DEF SpawnIsFatal, CallOK, In
    <2>2. running' = running /\ leaked' \in BOOLEAN  BY <1>11 DEF SpawnIsFatal
    <2>3. CallOK'  BY <2>1, <2>2, Zenon DEF CallOK
    <2>4. QED  BY <2>1, <2>2, <2>3
  <1>12. ASSUME ShutdownFails  PROVE Goal
    <2>1. /\ call' \in Calls /\ call'.step = "returned" /\ call'.out = "fatal"
          /\ call.step \notin {"idle", "returned"}
      BY <1>1, <1>3, <1>12, YieldsOutcome DEF ShutdownFails, CallOK, In
    <2>2. running' = running /\ leaked' \in BOOLEAN  BY <1>12 DEF ShutdownFails
    <2>3. CallOK'  BY <2>1, <2>2, Zenon DEF CallOK
    <2>4. QED  BY <2>1, <2>2, <2>3
  <1>13. Goal
    BY <1>4, <1>5, <1>6, <1>7, <1>8, <1>9, <1>10, <1>11, <1>12 DEF LadderStep, LadderFault
  <1>14. LadderStep => leaked' = leaked
    BY DEF LadderStep, Gate, Prepare, Spawn, Reply, Shutdown, Decide
  <1>15. QED  BY <1>13, <1>14

\* Leaving a call, or starting the next one.
LEMMA CallChanges ==
    ASSUME TypeInv, call' \in {call, NoCall, NewCall}, UNCHANGED <<running, leaked>>
    PROVE  CallOK'
  <1>1. CallOK /\ NoCall \in Calls /\ NewCall \in Calls  BY TypeParts, NamedValues
  <1>2. call' \in Calls  BY <1>1 DEF CallOK
  <1>3. QED  BY <1>1, <1>2 DEF CallOK

\* A step that leaves the stored orb, the copy's text, the ledger and the counters
\* alone and starts no episode keeps the types once its own changes are typed.
LEMMA QuietKeepsType ==
    ASSUME TypeInv, UNCHANGED <<cfg, disk, orb, ledger, approved, bounces, lost, episodes>>,
           pc' \in Places, CallOK', out' \in Outcomes \cup {"none"},
           rd' \in Round, rd'.round = rd.round, retries' \in 0..Limit,
           claim' \in BOOLEAN, repo' \in Repositories(2), faults' \in 0..MaxFaults,
           pc' = "claimed" => pc = "claimed", Active' => Active
    PROVE  TypeInv'
  <1>1. /\ cfg \in Configs /\ CopyOK /\ LedgerOK /\ StoreOK /\ CountersOK
        /\ RoundsAreBounded /\ BouncesFollowEpisodes
    BY TypeParts
  <1>2. MaxRound' = MaxRound /\ Limit' = Limit  BY DEF MaxRound, Limit
  <1>3. Orb' = Orb /\ Round' = Round  BY <1>2 DEF Orb, Round
  <1>4. CopyOK'  BY <1>1, <1>2, <1>3 DEF CopyOK
  <1>5. LedgerOK'  BY <1>1, <1>2 DEF LedgerOK
  <1>6. StoreOK'  BY <1>1, <1>3 DEF StoreOK
  <1>7. CountersOK'  BY <1>1, <1>2 DEF CountersOK
  <1>8. episodes \in Nat  BY <1>1, EpisodeAssumption DEF CountersOK
  <1>9. ledger \in Seq(Diagnostics(MaxRound)) /\ MaxRound \in Nat /\ cfg.rounds \in Nat
    BY <1>1, ConfigTypes DEF LedgerOK
  <1>10. \A i \in 1..Len(ledger) : ledger[i].round \in Nat
    <2>1. \A i \in 1..Len(ledger) : ledger[i] \in Diagnostics(MaxRound)  BY <1>9
    <2>2. QED  BY <1>9, <2>1 DEF Diagnostics
  <1>11. RoundsAreBounded'
    BY <1>1, <1>8, <1>9, <1>10 DEF RoundsAreBounded, Started
  <1>12. BouncesFollowEpisodes'  BY <1>1 DEF BouncesFollowEpisodes
  <1>13. QED  BY <1>1, <1>4, <1>5, <1>6, <1>7, <1>11, <1>12 DEF TypeInv, TypeOK, CallOK, CopyOK, LedgerOK, StoreOK, CountersOK

\* The steps of an episode that move between its places.
LEMMA MovesKeepType ==
    ASSUME TypeInv,
           \/ Refuse \/ SnapshotTaken \/ BackoffElapses \/ RepairFails
           \/ RepairRound \/ RoundBackoffElapses \/ SnapshotFails
           \/ Stop \/ Restart \/ WorkerExits \/ ArchiveClaim
    PROVE  TypeInv'
  <1> USE DEF Goto, Call, Leave, Fault, ladder, local, durable, history, budget
  <1>1. /\ pc \in Places /\ CallOK /\ out \in Outcomes \cup {"none"} /\ rd \in Round
        /\ retries \in 0..Limit /\ claim \in BOOLEAN /\ repo \in Repositories(2)
        /\ faults \in 0..MaxFaults /\ MaxFaults \in Nat
    BY EpisodeAssumption DEF TypeInv, TypeOK, CallOK
  <1>2. ASSUME SnapshotTaken \/ BackoffElapses \/ RepairFails \/ RepairRound \/ RoundBackoffElapses
        PROVE  TypeInv'
    <2>1. UNCHANGED <<cfg, local, durable, history, budget, running, leaked>> /\ call' = NewCall
      BY <1>2 DEF SnapshotTaken, BackoffElapses, RepairFails, RepairRound, RoundBackoffElapses
    <2>2. pc' \in Calling /\ Active
      BY <1>2 DEF SnapshotTaken, BackoffElapses, RepairFails, RepairRound, RoundBackoffElapses,
                  Calling, Active, Resting, Judging, Returned
    <2>3. QED  BY <1>1, <2>1, <2>2, CallChanges, QuietKeepsType DEF Places, Calling
  <1>3. ASSUME Refuse \/ ArchiveClaim  PROVE TypeInv'
    <2>1. /\ UNCHANGED <<cfg, ladder, local, disk, ledger, repo, history, budget>>
          /\ claim' = FALSE /\ pc' = "free"
      BY <1>3 DEF Refuse, ArchiveClaim
    <2>2. QED  BY <1>1, <2>1, CallChanges, QuietKeepsType DEF Places, Resting, Active
  <1>4. ASSUME SnapshotFails  PROVE TypeInv'
    <2>1. /\ UNCHANGED <<cfg, ladder, orb, rd, retries, durable, history, episodes>>
          /\ pc = "snapshot" /\ pc' = "record" /\ out' = "failed" /\ faults' \in 0..MaxFaults
      BY <1>1, <1>4 DEF SnapshotFails
    <2>2. QED
      BY <1>1, <2>1, CallChanges, QuietKeepsType DEF Places, Active, Resting, Outcomes, Failures
  <1>5. ASSUME Stop \/ Restart \/ WorkerExits  PROVE TypeInv'
    <2>1. UNCHANGED <<cfg, pc, call, local, durable, history, budget>>
      BY <1>5 DEF Stop, Restart, WorkerExits
    <2>2. running' \in BOOLEAN /\ leaked' \in BOOLEAN
      BY <1>1, <1>5 DEF Stop, Restart, WorkerExits, CallOK
    <2>3. CallOK'  BY <1>1, <2>1, <2>2 DEF CallOK
    <2>4. QED  BY <1>1, <2>1, <2>3, QuietKeepsType DEF Active
  <1>6. QED  BY <1>2, <1>3, <1>4, <1>5

\* The steps inside a call of the worker ladder.
LEMMA WorkKeepsType == ASSUME TypeInv, Work \/ WorkFails  PROVE TypeInv'
  <1>1. /\ pc \in Places /\ CallOK /\ out \in Outcomes \cup {"none"} /\ rd \in Round
        /\ retries \in 0..Limit /\ claim \in BOOLEAN /\ repo \in Repositories(2)
        /\ faults \in 0..MaxFaults /\ MaxFaults \in Nat
    BY EpisodeAssumption DEF TypeInv, TypeOK, CallOK
  <1>2. /\ UNCHANGED <<cfg, pc, orb, out, rd, retries, disk, claim, ledger, history, episodes>>
        /\ LadderStep \/ LadderFault
    BY DEF Work, WorkFails, Fault, local, durable, budget
  <1>3. repo' \in Repositories(2) /\ faults' \in 0..MaxFaults
    BY <1>1 DEF Work, WorkFails, Fault, durable, budget
  <1>4. CallOK'  BY <1>1, <1>2, LadderSteps
  <1>5. QED  BY <1>1, <1>2, <1>3, <1>4, QuietKeepsType DEF history, Active

\* What a returned call yields is an outcome.
LEMMA ReturnedOutcome ==
    ASSUME TypeInv  PROVE call.out \in Outcomes \cup {"none"}
  BY DEF TypeInv, TypeOK, Calls

\* The steps that decide on an outcome, a retry or a round.
LEMMA VerdictsKeepType ==
    ASSUME TypeInv,
           \/ RetryMain \/ MainEnds \/ BackoffStops \/ Repaired \/ FreshFails \/ Verify
           \/ RetryRound \/ GiveUpRound \/ RoundBackoffStops
    PROVE  TypeInv'
  <1> USE DEF Goto, Call, Leave, Fault, ladder, local, durable, history, budget
  <1>1. /\ pc \in Places /\ CallOK /\ out \in Outcomes \cup {"none"} /\ rd \in Round
        /\ retries \in 0..Limit /\ claim \in BOOLEAN /\ repo \in Repositories(2)
        /\ faults \in 0..MaxFaults /\ cfg \in Configs /\ call.out \in Outcomes \cup {"none"}
    BY ReturnedOutcome DEF TypeInv, TypeOK, CallOK
  <1>2. /\ cfg.retries \in Nat \cup {-1} /\ Limit \in Nat
        /\ Limit = IF cfg.retries = -1 THEN 0 ELSE cfg.retries
    BY <1>1, ConfigTypes DEF Limit
  <1>3. /\ UNCHANGED <<cfg, orb, durable, history, budget, running, leaked>>
        /\ call' \in {call, NoCall, NewCall}
    BY DEF RetryMain, MainEnds, BackoffStops, Repaired, FreshFails, Verify, RetryRound,
           GiveUpRound, RoundBackoffStops
  <1>4. /\ pc' \in {"backoff", "roundBackoff", "repair", "verify", "record", "review"}
        /\ pc \in Calling \cup {"backoff", "roundBackoff", "verify"}
    <2>1. CASE RetryMain \/ Repaired \/ FreshFails \/ Verify \/ RetryRound
      BY <2>1 DEF RetryMain, Repaired, FreshFails, Verify, RetryRound, RoundFailed, Judging,
                  Returned, Calling
    <2>2. CASE MainEnds \/ BackoffStops
      BY <2>2 DEF MainEnds, BackoffStops, Returned, Calling, AfterCall
    <2>3. CASE GiveUpRound \/ RoundBackoffStops
      BY <2>3 DEF GiveUpRound, RoundBackoffStops, RoundFailed, Judging, Returned, Calling,
                  AfterRounds
    <2>4. QED  BY <2>1, <2>2, <2>3
  <1>5. out' \in Outcomes \cup {"none"}
    BY <1>1 DEF RetryMain, MainEnds, BackoffStops, Repaired, FreshFails, Verify, RetryRound,
           GiveUpRound, RoundBackoffStops, RoundResult, Outcomes, Failures, Done
  <1>6. retries' \in 0..Limit
    <2>1. CASE RetryMain
      <3>1. Allowed(retries) /\ retries' = IF cfg.retries = -1 THEN retries ELSE retries + 1
        BY <2>1 DEF RetryMain
      <3>2. retries \in 0..Limit  BY <1>1
      <3>3. QED  BY <1>2, <3>1, <3>2 DEF Allowed
    <2>2. CASE ~RetryMain
      BY <1>1, <2>2 DEF MainEnds, BackoffStops, Repaired, FreshFails, Verify, RetryRound,
             GiveUpRound, RoundBackoffStops
    <2>3. QED  BY <2>1, <2>2
  <1>7. rd' \in Round /\ rd'.round = rd.round
    <2>1. "worker_failed" \in Reasons  BY DEF Reasons, Unapplied
    <2>2. CASE RetryRound
      <3>1. rd.attempt \in 1..Limit + 1  BY <1>1 DEF Round
      <3>2. (IF cfg.retries = -1 THEN rd.attempt ELSE rd.attempt + 1) \in 1..Limit + 1
        BY <1>2, <2>2, <3>1 DEF RetryRound, Allowed
      <3>3. QED  BY <1>1, <2>2, <3>2 DEF RetryRound, Round
    <2>3. CASE GiveUpRound \/ RoundBackoffStops
      BY <1>1, <2>1, <2>3 DEF GiveUpRound, RoundBackoffStops, Round
    <2>4. CASE ~(RetryRound \/ GiveUpRound \/ RoundBackoffStops)
      BY <1>1, <2>4 DEF RetryMain, MainEnds, BackoffStops, Repaired, FreshFails, Verify
    <2>5. QED  BY <2>2, <2>3, <2>4
  <1>8. CallOK'  BY <1>3, CallChanges
  <1>9. QED
    BY <1>1, <1>3, <1>4, <1>5, <1>6, <1>7, <1>8, QuietKeepsType
    DEF Active, Places, Calling, Resting

\* Facts of the types that the remaining steps need.
LEMMA TypeFacts ==
    ASSUME TypeInv
    PROVE  /\ cfg \in Configs /\ pc \in Places /\ CallOK /\ CopyOK /\ LedgerOK /\ StoreOK
           /\ CountersOK /\ RoundsAreBounded /\ BouncesFollowEpisodes
           /\ cfg.rounds \in Nat /\ cfg.rounds >= 1 /\ MaxRound \in Nat
           /\ MaxRound = cfg.rounds + MaxEpisodes /\ MaxEpisodes \in Nat
           /\ episodes \in 0..MaxEpisodes /\ bounces \in Nat
           /\ \A i \in 1..Len(ledger) :
                 ledger[i].round \in 1..MaxRound /\ ledger[i].reason \in Reasons
           /\ rd.round \in 1..MaxRound /\ rd.reason \in Reasons
  <1>1. /\ cfg \in Configs /\ pc \in Places /\ CallOK /\ CopyOK /\ LedgerOK /\ StoreOK
        /\ CountersOK /\ RoundsAreBounded /\ BouncesFollowEpisodes
    BY TypeParts
  <1>2. /\ cfg.rounds \in Nat /\ cfg.rounds >= 1 /\ MaxRound \in Nat
        /\ MaxRound = cfg.rounds + MaxEpisodes /\ MaxEpisodes \in Nat
    BY <1>1, ConfigTypes
  <1>3. episodes \in 0..MaxEpisodes /\ bounces \in Nat  BY <1>1, <1>2 DEF CountersOK
  <1>4. \A i \in 1..Len(ledger) : ledger[i] \in Diagnostics(MaxRound)  BY <1>1 DEF LedgerOK
  <1>5. \A i \in 1..Len(ledger) :
           ledger[i].round \in 1..MaxRound /\ ledger[i].reason \in Reasons
    BY <1>4 DEF Diagnostics
  <1>6. rd.round \in 1..MaxRound /\ rd.reason \in Reasons  BY <1>1 DEF CopyOK, Round
  <1>7. QED  BY <1>1, <1>2, <1>3, <1>5, <1>6

\* The parts of the invariant, the other way round.
LEMMA TypeFromParts ==
    ASSUME cfg \in Configs, pc' \in Places, cfg' = cfg, CallOK', CopyOK', LedgerOK', StoreOK',
           CountersOK', RoundsAreBounded', BouncesFollowEpisodes'
    PROVE  TypeInv'
  BY DEF TypeInv, TypeOK, CallOK, CopyOK, LedgerOK, StoreOK, CountersOK

LEMMA ClaimKeepsType == ASSUME TypeInv, Claim PROVE TypeInv'
  <1> USE TypeFacts
  <1>1. /\ UNCHANGED <<cfg, call, running, leaked, orb, out, rd, retries, disk, ledger, repo,
                       approved, bounces, lost, faults>>
        /\ claim' = TRUE /\ pc' = "claimed" /\ pc = "free"
        /\ episodes < MaxEpisodes /\ episodes' = episodes + 1
    BY DEF Claim, Goto, ladder, local, history
  <1>2. MaxRound' = MaxRound /\ Limit' = Limit  BY <1>1 DEF MaxRound, Limit
  <1>3. Orb' = Orb /\ Round' = Round  BY <1>2 DEF Orb, Round
  <1>4. CallOK' /\ CopyOK' /\ LedgerOK' /\ StoreOK'
    BY <1>1, <1>2, <1>3 DEF CallOK, CopyOK, LedgerOK, StoreOK
  <1>5. CountersOK'  BY <1>1, <1>2 DEF CountersOK
  <1>6. RoundsAreBounded'
    <2>1. episodes \in Nat /\ cfg.rounds \in Nat /\ rd.round \in Nat  OBVIOUS
    <2>2. \A i \in 1..Len(ledger) : ledger[i].round <= cfg.rounds + episodes
      BY <1>1 DEF RoundsAreBounded, Started
    <2>3. rd.round <= cfg.rounds + episodes  BY DEF RoundsAreBounded
    <2>4. cfg'.rounds + Started' = cfg.rounds + episodes  BY <1>1, <2>1 DEF Started
    <2>5. \A i \in 1..Len(ledger') : ledger'[i].round <= cfg'.rounds + Started'
      BY <1>1, <2>2, <2>4
    <2>6. rd'.round <= cfg'.rounds + episodes' /\ episodes' >= 1  BY <1>1, <2>1, <2>3
    <2>7. QED  BY <2>5, <2>6 DEF RoundsAreBounded
  <1>7. BouncesFollowEpisodes'  BY <1>1 DEF BouncesFollowEpisodes
  <1>8. QED  BY <1>1, <1>4, <1>5, <1>6, <1>7, TypeFromParts DEF Places

\* The round an episode starts from.
LEMMA FirstRoundIsNext ==
    ASSUME TypeInv, pc = "claimed"
    PROVE  /\ FirstRound \in Round
           /\ FirstRound.round = CompletedRound(ledger, disk.checkpoint) + 1
           /\ FirstRound.round <= cfg.rounds + episodes
           /\ FirstRound.quality = QualityRejections(ledger, disk.checkpoint) + 1
           /\ FirstRound.before = -1 /\ FirstRound.bounce = FALSE
           /\ FirstRound.reason = "continues"
  <1> USE TypeFacts
  <1>1. /\ disk.checkpoint \in 0..Len(ledger) /\ disk.checkpoint \in Nat
        /\ ledger \in Seq(Diagnostics(MaxRound))
    BY DEF LedgerOK, StoreOK, Orb
  <1>2. \A i \in 1..disk.checkpoint : ledger[i].round <= cfg.rounds + episodes - 1
    BY <1>1 DEF RoundsAreBounded, Started
  <1>3. cfg.rounds + episodes - 1 \in Nat  OBVIOUS
  <1>4. CompletedRound(ledger, disk.checkpoint) \in 0..(cfg.rounds + episodes - 1)
    BY <1>1, <1>2, <1>3, CompletedRoundBound
  <1>5. QualityRejections(ledger, disk.checkpoint) \in Nat  BY <1>1, RejectionsAreFinite
  <1>6. NoRound \in Round  BY NamedValues
  <1>7. /\ CompletedRound(ledger, disk.checkpoint) + 1 \in 1..MaxRound
        /\ QualityRejections(ledger, disk.checkpoint) + 1 \in Nat
    BY <1>4, <1>5
  <1>8. FirstRound \in Round
    <2> DEFINE r == CompletedRound(ledger, disk.checkpoint) + 1
               q == QualityRejections(ledger, disk.checkpoint) + 1
    <2>1. FirstRound = [NoRound EXCEPT !.round = r, !.quality = q]  BY DEF FirstRound
    <2>2. r \in 1..MaxRound /\ q \in Nat  BY <1>7
    <2> HIDE DEF r, q
    <2>3. QED  BY <1>6, <2>1, <2>2 DEF Round
  <1>9. FirstRound.before = -1 /\ FirstRound.bounce = FALSE /\ FirstRound.reason = "continues"
    BY DEF FirstRound, NoRound
  <1>10. /\ FirstRound.round = CompletedRound(ledger, disk.checkpoint) + 1
         /\ FirstRound.quality = QualityRejections(ledger, disk.checkpoint) + 1
    BY DEF FirstRound, NoRound
  <1>11. QED  BY <1>4, <1>8, <1>9, <1>10

LEMMA AdmitKeepsType == ASSUME TypeInv, Admit PROVE TypeInv'
  <1> USE TypeFacts
  <1>1. /\ UNCHANGED <<cfg, running, leaked, disk, claim, ledger, approved, bounces, lost,
                       episodes, faults>>
        /\ call' \in {NoCall, NewCall} /\ pc = "claimed" /\ pc' \in {"snapshot", "main"}
        /\ orb' = disk /\ rd' = FirstRound /\ out' = "none" /\ retries' = 0 /\ repo' = AsFound
    BY DEF Admit, Leave, Call, Goto, history, budget
  <1>2. MaxRound' = MaxRound /\ Limit' = Limit /\ Limit \in Nat
    BY <1>1, ConfigTypes DEF MaxRound, Limit
  <1>3. Orb' = Orb /\ Round' = Round  BY <1>2 DEF Orb, Round
  <1>4. CallOK'  BY <1>1, CallChanges
  <1>5. CopyOK'  BY <1>1, <1>2, <1>3, FirstRoundIsNext DEF CopyOK, StoreOK
  <1>6. LedgerOK' /\ CountersOK'  BY <1>1, <1>2 DEF LedgerOK, CountersOK
  <1>7. AsFound \in Repositories(2)  BY DEF AsFound, Repositories, Tips
  <1>8. StoreOK'  BY <1>1, <1>3, <1>7 DEF StoreOK
  <1>9. RoundsAreBounded'
    BY <1>1, FirstRoundIsNext DEF RoundsAreBounded, Started
  <1>10. BouncesFollowEpisodes'  BY <1>1 DEF BouncesFollowEpisodes, Active, Resting
  <1>11. QED
    BY <1>1, <1>4, <1>5, <1>6, <1>8, <1>9, <1>10, TypeFromParts DEF Places, Calling

\* One more diagnostic of the running round keeps the ledger's type and bounds.
LEMMA EntryKeepsLedger ==
    ASSUME TypeInv, pc # "claimed", NEW reason \in Reasons,
           ledger' = Append(ledger, [round |-> rd.round, reason |-> reason]),
           UNCHANGED <<cfg, episodes>>
    PROVE  /\ ledger' \in Seq(Diagnostics(MaxRound')) /\ Len(ledger') = Len(ledger) + 1
           /\ MaxRound' = MaxRound
           /\ \A i \in 1..Len(ledger') : ledger'[i].round <= cfg.rounds + episodes
  <1> USE TypeFacts
  <1> DEFINE d == [round |-> rd.round, reason |-> reason]
  <1>1. d \in Diagnostics(MaxRound)  BY DEF Diagnostics
  <1>2. ledger \in Seq(Diagnostics(MaxRound))  BY DEF LedgerOK
  <1>3. d.round = rd.round  OBVIOUS
  <1> HIDE DEF d
  <1>4. ledger' = Append(ledger, d)  BY DEF d
  <1>5. /\ ledger' \in Seq(Diagnostics(MaxRound)) /\ Len(ledger') = Len(ledger) + 1
        /\ ledger'[Len(ledger) + 1] = d
        /\ \A i \in 1..Len(ledger) : ledger'[i] = ledger[i]
    BY <1>1, <1>2, <1>4, LedgerAppend
  <1>6. MaxRound' = MaxRound  BY DEF MaxRound
  <1>7. Len(ledger) \in Nat  BY <1>2
  <1>8. ASSUME NEW i \in 1..Len(ledger')  PROVE ledger'[i].round <= cfg.rounds + episodes
    <2>1. i \in 1..Len(ledger) \/ i = Len(ledger) + 1  BY <1>5, <1>7
    <2>2. QED  BY <1>3, <1>5, <2>1 DEF RoundsAreBounded, Started
  <1>9. QED  BY <1>5, <1>6, <1>8

LEMMA ApplyRoundKeepsType == ASSUME TypeInv, ApplyRound PROVE TypeInv'
  <1> USE TypeFacts
  <1>1. /\ UNCHANGED <<cfg, running, leaked, retries, disk, claim, repo, approved, bounces, lost,
                       episodes, faults>>
        /\ call' \in {NoCall, NewCall} /\ pc \in {"main", "round", "roundRepair"}
        /\ pc' \in {"review", "round"} /\ out' = "good"
    BY DEF ApplyRound, Judging, Returned, Leave, Call, Goto, history, budget
  <1>2. PICK touched, complete \in BOOLEAN, changed \in BOOLEAN :
          LET final == FinalRound(changed, complete)
              reason == IF final THEN "final" ELSE "continues"
          IN  /\ orb' = [orb EXCEPT !.edits = rd.round,
                                    !.checkpoint = IF touched THEN Len(ledger) + 1 ELSE @]
              /\ ledger' = Append(ledger, [round |-> rd.round, reason |-> reason])
              /\ IF final
                 THEN rd' = [rd EXCEPT !.reason = "final", !.before = orb.edits]
                 ELSE rd' = [rd EXCEPT !.round = @ + 1, !.attempt = 1]
    BY DEF ApplyRound
  <1>3. \E reason \in Reasons :
           ledger' = Append(ledger, [round |-> rd.round, reason |-> reason])
    BY <1>2 DEF Reasons
  <1>4. /\ ledger' \in Seq(Diagnostics(MaxRound')) /\ Len(ledger') = Len(ledger) + 1
        /\ MaxRound' = MaxRound
        /\ \A i \in 1..Len(ledger') : ledger'[i].round <= cfg.rounds + episodes
    BY <1>1, <1>3, EntryKeepsLedger
  <1>5. Limit' = Limit /\ Limit \in Nat  BY <1>1, ConfigTypes DEF Limit
  <1>6. Orb' = Orb /\ Round' = Round  BY <1>4, <1>5 DEF Orb, Round
  <1>7. orb \in Orb /\ rd \in Round /\ orb.edits \in 0..MaxRound /\ Len(ledger) \in Nat
        /\ orb.checkpoint <= Len(ledger) /\ disk.checkpoint <= Len(ledger)
        /\ orb.checkpoint \in Nat /\ disk.checkpoint \in Nat
    BY DEF CopyOK, LedgerOK, StoreOK, Orb
  <1>8. orb' \in Orb /\ orb'.checkpoint <= Len(ledger) + 1
    <2> DEFINE c == IF touched THEN Len(ledger) + 1 ELSE orb.checkpoint
    <2>1. c \in Nat /\ c <= Len(ledger) + 1  BY <1>7
    <2>2. orb' = [orb EXCEPT !.edits = rd.round, !.checkpoint = c]  BY <1>2
    <2>3. rd.round \in 0..MaxRound  OBVIOUS
    <2> HIDE DEF c
    <2>4. QED  BY <1>7, <2>1, <2>2, <2>3 DEF Orb
  <1>9. /\ rd' \in Round /\ rd'.round <= cfg.rounds + episodes
    <2>1. CASE rd' = [rd EXCEPT !.reason = "final", !.before = orb.edits]
      <3>1. "final" \in Reasons /\ orb.edits \in -1..MaxRound  BY <1>7 DEF Reasons
      <3>2. rd' \in Round /\ rd'.round = rd.round  BY <1>7, <2>1, <3>1 DEF Round
      <3>3. QED  BY <3>2 DEF RoundsAreBounded
    <2>2. CASE /\ ~(rd.round >= cfg.rounds)
               /\ rd' = [rd EXCEPT !.round = @ + 1, !.attempt = 1]
      <3>1. rd.round + 1 \in 1..MaxRound /\ rd.round + 1 <= cfg.rounds + episodes  BY <2>2
      <3>2. 1 \in 1..Limit + 1  BY <1>5
      <3>3. QED  BY <1>7, <2>2, <3>1, <3>2 DEF Round
    <2>3. QED  BY <1>2, <2>1, <2>2 DEF FinalRound
  <1>10. CallOK'  BY <1>1, CallChanges
  <1>11. CopyOK'  BY <1>1, <1>5, <1>6, <1>8, <1>9 DEF CopyOK, Outcomes, Done
  <1>12. LedgerOK'  BY <1>1, <1>4, <1>7, <1>8 DEF LedgerOK
  <1>13. StoreOK' /\ CountersOK'  BY <1>1, <1>4, <1>6 DEF StoreOK, CountersOK
  <1>14. RoundsAreBounded'  BY <1>1, <1>4, <1>9 DEF RoundsAreBounded, Started
  <1>15. BouncesFollowEpisodes'  BY <1>1 DEF BouncesFollowEpisodes, Active, Resting
  <1>16. QED
    BY <1>1, <1>10, <1>11, <1>12, <1>13, <1>14, <1>15, TypeFromParts DEF Places, Calling

LEMMA ReviewKeepsType == ASSUME TypeInv, ReviewAccepts \/ ReviewDeclines PROVE TypeInv'
  <1> USE TypeFacts
  <1>1. /\ UNCHANGED <<cfg, call, running, leaked, out, retries, disk, claim, ledger, repo,
                       bounces, lost, episodes, faults>>
        /\ pc = "review" /\ pc' = "record" /\ approved' \in {approved, orb.edits}
    BY DEF ReviewAccepts, ReviewDeclines, Goto, ladder, local, durable, history, budget
  <1>2. MaxRound' = MaxRound /\ Limit' = Limit  BY <1>1 DEF MaxRound, Limit
  <1>3. Orb' = Orb /\ Round' = Round  BY <1>2 DEF Orb, Round
  <1>4. orb \in Orb /\ rd \in Round  BY DEF CopyOK
  <1>5. orb' \in Orb /\ orb'.checkpoint = orb.checkpoint /\ rd' \in Round /\ rd'.round = rd.round
    <2>1. CASE ReviewAccepts  BY <1>4, <2>1 DEF ReviewAccepts, local
    <2>2. CASE ReviewDeclines
      <3>1. Rejected \subseteq Reasons  BY DEF Rejected, Unapplied, Reasons
      <3> DEFINE again == rd.quality < cfg.reviews
      <3>2. PICK reason \in Rejected :
              /\ rd' = [rd EXCEPT !.reason = reason, !.bounce = again]
              /\ orb' = [orb EXCEPT !.edits = IF again /\ rd.before # -1 THEN rd.before ELSE @]
        BY <2>2 DEF ReviewDeclines
      <3> HIDE DEF again
      <3>3. again \in BOOLEAN  BY DEF again
      <3>4. rd' \in Round /\ rd'.round = rd.round  BY <1>4, <3>1, <3>2, <3>3 DEF Round
      <3>5. rd.before \in -1..MaxRound /\ orb.edits \in 0..MaxRound  BY <1>4 DEF Round, Orb
      <3>6. (IF again /\ rd.before # -1 THEN rd.before ELSE orb.edits) \in 0..MaxRound  BY <3>5
      <3>7. QED  BY <1>4, <3>2, <3>4, <3>6 DEF Orb
    <2>3. QED  BY <2>1, <2>2
  <1>6. CallOK'  BY <1>1, CallChanges
  <1>7. CopyOK' /\ StoreOK'  BY <1>1, <1>2, <1>3, <1>5 DEF CopyOK, StoreOK
  <1>8. LedgerOK'  BY <1>1, <1>2, <1>5 DEF LedgerOK
  <1>9. orb.edits \in 0..MaxRound  BY <1>4 DEF Orb
  <1>10. CountersOK'  BY <1>1, <1>2, <1>9 DEF CountersOK
  <1>11. RoundsAreBounded'  BY <1>1, <1>5 DEF RoundsAreBounded, Started
  <1>12. BouncesFollowEpisodes'  BY <1>1 DEF BouncesFollowEpisodes, Active, Resting
  <1>13. QED  BY <1>1, <1>6, <1>7, <1>8, <1>10, <1>11, <1>12, TypeFromParts DEF Places

LEMMA RecordKeepsType == ASSUME TypeInv, Record PROVE TypeInv'
  <1> USE TypeFacts
  <1>1. /\ UNCHANGED <<cfg, call, running, leaked, orb, out, rd, retries, disk, claim, repo,
                       approved, bounces, lost, episodes, faults>>
        /\ pc = "record" /\ pc' = "settle"
        /\ \/ ledger' = ledger
           \/ ledger' = Append(ledger, [round |-> rd.round, reason |-> rd.reason])
    BY DEF Record, Goto, ladder, local, history, budget
  <1>2. MaxRound' = MaxRound /\ Limit' = Limit  BY <1>1 DEF MaxRound, Limit
  <1>3. Orb' = Orb /\ Round' = Round  BY <1>2 DEF Orb, Round
  <1>4. Len(ledger) \in Nat /\ orb.checkpoint \in Nat /\ disk.checkpoint \in Nat
    BY DEF LedgerOK, CopyOK, StoreOK, Orb
  <1>5. /\ ledger' \in Seq(Diagnostics(MaxRound)) /\ Len(ledger) <= Len(ledger')
        /\ Len(ledger') \in Nat
        /\ \A i \in 1..Len(ledger') : ledger'[i].round <= cfg.rounds + episodes
    <2>1. CASE ledger' = ledger
      BY <1>1, <1>4, <2>1 DEF LedgerOK, RoundsAreBounded, Started
    <2>2. CASE ledger' = Append(ledger, [round |-> rd.round, reason |-> rd.reason])
      BY <1>1, <1>2, <1>4, <2>2, EntryKeepsLedger
    <2>3. QED  BY <1>1, <2>1, <2>2
  <1>6. CallOK' /\ CopyOK' /\ StoreOK'
    BY <1>1, <1>2, <1>3 DEF CallOK, CopyOK, StoreOK
  <1>7. LedgerOK'  BY <1>1, <1>2, <1>4, <1>5 DEF LedgerOK
  <1>8. CountersOK'  BY <1>1, <1>2 DEF CountersOK
  <1>9. RoundsAreBounded'  BY <1>1, <1>5 DEF RoundsAreBounded, Started
  <1>10. BouncesFollowEpisodes'  BY <1>1 DEF BouncesFollowEpisodes, Active, Resting
  <1>11. QED  BY <1>1, <1>6, <1>7, <1>8, <1>9, <1>10, TypeFromParts DEF Places

\* Where an outcome may take the orb.
LEMMA LandingIsState ==
    ASSUME cfg \in Configs
    PROVE  /\ Landing \subseteq States
           /\ \A st \in Landing : st \in {"done", "review", "waiting"} => out \in Done
  <1>1. cfg.target \in Targets  BY ConfigTypes
  <1>2. OnDone \subseteq States
    BY <1>1 DEF OnDone, Refined, States, Targets, Structured
  <1>3. cfg.target \in States /\ cfg.target \notin {"done", "review", "waiting"}
    BY <1>1 DEF States, Targets, Structured
  <1>4. QED  BY <1>2, <1>3 DEF Landing, States, Targets, Structured

LEMMA SettleKeepsType == ASSUME TypeInv, Settle PROVE TypeInv'
  <1> USE TypeFacts
  <1>1. /\ UNCHANGED <<cfg, call, running, leaked, orb, out, rd, retries, claim, ledger, repo,
                       approved, lost, episodes, faults>>
        /\ pc = "settle" /\ pc' = "stored" /\ bounces' \in {bounces, bounces + 1}
    BY DEF Settle, Goto, ladder, local, budget
  <1>2. PICK st \in Landing :
          disk' = [orb EXCEPT !.st = st, !.checkpoint = IF out = "aborted" THEN @ ELSE Len(ledger)]
    BY DEF Settle
  <1>3. MaxRound' = MaxRound /\ Limit' = Limit  BY <1>1 DEF MaxRound, Limit
  <1>4. Orb' = Orb /\ Round' = Round  BY <1>3 DEF Orb, Round
  <1>5. orb \in Orb /\ Len(ledger) \in Nat /\ orb.checkpoint \in Nat /\ orb.checkpoint <= Len(ledger)
    BY DEF LedgerOK, CopyOK, Orb
  <1>6. st \in States  BY LandingIsState
  <1>7. disk' \in Orb /\ disk'.checkpoint <= Len(ledger)
    <2> DEFINE c == IF out = "aborted" THEN orb.checkpoint ELSE Len(ledger)
    <2>1. c \in Nat /\ c <= Len(ledger)  BY <1>5
    <2>2. disk' = [orb EXCEPT !.st = st, !.checkpoint = c]  BY <1>2
    <2> HIDE DEF c
    <2>3. QED  BY <1>5, <1>6, <2>1, <2>2 DEF Orb
  <1>8. CallOK' /\ CopyOK'  BY <1>1, <1>3, <1>4 DEF CallOK, CopyOK
  <1>9. StoreOK'  BY <1>1, <1>4, <1>7 DEF StoreOK
  <1>10. LedgerOK'  BY <1>1, <1>3, <1>7 DEF LedgerOK
  <1>11. bounces < episodes  BY <1>1 DEF BouncesFollowEpisodes, Active, Resting
  <1>12. CountersOK'  BY <1>1, <1>3, <1>11 DEF CountersOK
  <1>13. RoundsAreBounded'  BY <1>1 DEF RoundsAreBounded, Started
  <1>14. BouncesFollowEpisodes'
    BY <1>1, <1>11 DEF BouncesFollowEpisodes, Active
  <1>15. QED
    BY <1>1, <1>8, <1>9, <1>10, <1>12, <1>13, <1>14, TypeFromParts DEF Places

\* The copy of a task that is gone.
LEMMA ForgetKeepsType ==
    ASSUME TypeInv, Forget, UNCHANGED <<cfg, disk, ledger, repo, approved, bounces, episodes>>,
           CallOK', claim' \in BOOLEAN, lost' \in BOOLEAN, faults' \in 0..MaxFaults,
           pc' \in Resting
    PROVE  TypeInv'
  <1> USE TypeFacts
  <1>1. orb' = NoCopy /\ out' = "none" /\ rd' = NoRound /\ retries' = 0  BY DEF Forget
  <1>2. MaxRound' = MaxRound /\ Limit' = Limit /\ Limit \in Nat
    BY ConfigTypes DEF MaxRound, Limit
  <1>3. Orb' = Orb /\ Round' = Round  BY <1>2 DEF Orb, Round
  <1>4. NoCopy \in Orb /\ NoRound \in Round  BY NamedValues
  <1>5. CopyOK'  BY <1>1, <1>2, <1>3, <1>4 DEF CopyOK
  <1>6. NoCopy.checkpoint = 0 /\ NoRound.round = 1 /\ Len(ledger) \in Nat
    BY DEF NoCopy, NoRound, LedgerOK
  <1>7. LedgerOK'  BY <1>1, <1>2, <1>6 DEF LedgerOK
  <1>8. StoreOK' /\ CountersOK'  BY <1>2, <1>3 DEF StoreOK, CountersOK
  <1>9. RoundsAreBounded'  BY <1>1, <1>6 DEF RoundsAreBounded, Started, Resting
  <1>10. BouncesFollowEpisodes'  BY DEF BouncesFollowEpisodes, Active
  <1>11. QED  BY <1>5, <1>7, <1>8, <1>9, <1>10, TypeFromParts DEF Places

LEMMA EndsKeepType ==
    ASSUME TypeInv, Release \/ CallIsFatal \/ EpisodeError \/ Crash  PROVE TypeInv'
  <1> USE TypeFacts
  <1>1. /\ UNCHANGED <<cfg, disk, ledger, repo, approved, bounces, episodes>>
        /\ Forget /\ pc' \in Resting /\ claim' \in {claim, FALSE} /\ lost' \in {lost, TRUE}
        /\ faults' = faults \/ (faults < MaxFaults /\ faults' = faults + 1)
    BY DEF Release, CallIsFatal, EpisodeError, Crash, Drop, Goto, Fault, durable, history,
           budget, Resting
  <1>2. call' \in {call, NoCall} /\ running' \in BOOLEAN /\ leaked' \in BOOLEAN
    <2>1. running \in BOOLEAN /\ leaked \in BOOLEAN  BY DEF CallOK
    <2>2. CASE Release  BY <2>1, <2>2 DEF Release, ladder
    <2>3. CASE CallIsFatal
      <3>1. call' = NoCall /\ leaked' = leaked /\ running' = (running /\ pc # "main")
        BY <2>3 DEF CallIsFatal, Drop
      <3>2. (running /\ pc # "main") \in BOOLEAN  OBVIOUS
      <3>3. QED  BY <2>1, <3>1, <3>2
    <2>4. CASE EpisodeError
      <3>1. call' = NoCall /\ running' = running /\ leaked' = leaked
        BY <2>4 DEF EpisodeError, Drop
      <3>2. QED  BY <2>1, <3>1, Zenon
    <2>5. CASE Crash
      <3>1. call' = NoCall /\ running' = FALSE /\ leaked' \in BOOLEAN \cup {leaked}
        BY <2>5 DEF Crash, Drop
      <3>2. QED  BY <2>1, <3>1
    <2>6. QED  BY <2>2, <2>3, <2>4, <2>5
  <1>3. CallOK'
    <2>1. call' \in Calls  BY <1>2, NamedValues DEF CallOK
    <2>2. QED  BY <1>2, <2>1 DEF CallOK
  <1>4. claim' \in BOOLEAN /\ lost' \in BOOLEAN  BY <1>1 DEF StoreOK, CountersOK
  <1>5. faults' \in 0..MaxFaults
    <2>1. faults \in 0..MaxFaults  BY DEF CountersOK
    <2>2. MaxFaults \in Nat  BY EpisodeAssumption
    <2>3. QED  BY <1>1, <2>1, <2>2
  <1>6. QED  BY <1>1, <1>3, <1>4, <1>5, ForgetKeepsType

LEMMA RedoKeepsType == ASSUME TypeInv, Redo PROVE TypeInv'
  <1> USE TypeFacts
  <1>1. /\ UNCHANGED <<cfg, pc, call, running, leaked, orb, out, rd, retries, claim, ledger, repo,
                       approved, bounces, lost, episodes, faults>>
        /\ disk' = [disk EXCEPT !.st = cfg.target, !.checkpoint = Len(ledger)]
    BY DEF Redo, ladder, local, history, budget
  <1>2. MaxRound' = MaxRound /\ Limit' = Limit  BY <1>1 DEF MaxRound, Limit
  <1>3. Orb' = Orb /\ Round' = Round  BY <1>2 DEF Orb, Round
  <1>4. disk \in Orb /\ Len(ledger) \in Nat /\ cfg.target \in States
    BY ConfigTypes DEF StoreOK, LedgerOK, States
  <1>5. disk' \in Orb /\ disk'.checkpoint <= Len(ledger)
    <2> DEFINE st == cfg.target
               c == Len(ledger)
    <2>1. st \in States /\ c \in Nat /\ c <= Len(ledger)  BY <1>4
    <2>2. disk' = [disk EXCEPT !.st = st, !.checkpoint = c]  BY <1>1
    <2> HIDE DEF st, c
    <2>3. QED  BY <1>4, <2>1, <2>2 DEF Orb
  <1>6. CallOK' /\ CopyOK'  BY <1>1, <1>2, <1>3 DEF CallOK, CopyOK
  <1>7. StoreOK'  BY <1>1, <1>3, <1>5 DEF StoreOK
  <1>8. LedgerOK' /\ CountersOK'  BY <1>1, <1>2, <1>5 DEF LedgerOK, CountersOK
  <1>9. RoundsAreBounded' /\ BouncesFollowEpisodes'
    BY <1>1 DEF RoundsAreBounded, Started, BouncesFollowEpisodes, Active
  <1>10. QED  BY <1>1, <1>6, <1>7, <1>8, <1>9, TypeFromParts

LEMMA NextKeepsType == ASSUME TypeInv, [Next]_evars PROVE TypeInv'
  <1>1. CASE UNCHANGED evars
    <2>1. UNCHANGED <<cfg, pc, call, running, leaked, orb, out, rd, retries, disk, claim, ledger,
                      repo, approved, bounces, lost, episodes, faults>>
      BY <1>1 DEF evars, ladder, local, durable, history, budget
    <2>2. /\ pc \in Places /\ out \in Outcomes \cup {"none"} /\ rd \in Round /\ retries \in 0..Limit
          /\ claim \in BOOLEAN /\ repo \in Repositories(2) /\ faults \in 0..MaxFaults
      BY DEF TypeInv, TypeOK
    <2>3. CallOK'  BY <2>1, CallChanges
    <2>4. QED  BY <2>1, <2>2, <2>3, QuietKeepsType DEF Active
  <1>2. CASE Next
    BY <1>2, ClaimKeepsType, MovesKeepType, AdmitKeepsType, WorkKeepsType, VerdictsKeepType,
       ApplyRoundKeepsType, ReviewKeepsType, RecordKeepsType, SettleKeepsType, EndsKeepType,
       RedoKeepsType
    DEF Next, EpisodeStep, Rounds, Disturbance
  <1>3. QED  BY <1>1, <1>2

\* The strengthened type invariant: round numbers stay within the configured
\* count plus the episodes so far, and bounces within the finished episodes.
THEOREM RoundsStayBounded == Spec => []TypeInv
  <1>1. QED  BY InitType, NextKeepsType, PTL DEF Spec

\* Every variable of an episode keeps its type, for every configuration and any
\* number of episodes and faults.
THEOREM EpisodeTypeCorrect == Spec => []TypeOK
  <1>1. TypeInv => TypeOK  BY DEF TypeInv
  <1>2. QED  BY <1>1, RoundsStayBounded, PTL

-----------------------------------------------------------------------------
(* The claim and the worker.  Between the steps of an episode nothing but the *)
(* episode itself moves the stored orb, and a teardown that failed leaves the  *)
(* call in the fatal outcome that only the step that drops the episode takes.  *)

Stranded == pc \in Calling /\ In("returned") /\ call.out = "fatal"

ClaimInv ==
    /\ claim <=> pc # "free"
    /\ pc \notin Calling => In("idle")
    /\ leaked => pc = "held" \/ Stranded
    /\ Active => disk.st = cfg.target

ContractStep == [Contracted!Next]_(Contracted!cvars)

\* A step inside an episode, seen from outside, is no step.
LEMMA InsideKeepsClaim ==
    ASSUME ClaimInv, UNCHANGED <<cfg, disk, claim, leaked>>, Active, Active', ~leaked,
           pc' \notin Calling => In("idle")'
    PROVE  ClaimInv' /\ ContractStep
  <1>1. ClaimInv'
    <2>1. claim' <=> pc' # "free"  BY DEF ClaimInv, Active, Resting
    <2>2. ~leaked'  OBVIOUS
    <2>3. disk'.st = cfg'.target  BY DEF ClaimInv
    <2>4. QED  BY <2>1, <2>2, <2>3 DEF ClaimInv
  <1>2. Phase' = Phase  BY DEF Phase, Active
  <1>3. UNCHANGED Contracted!cvars  BY <1>2 DEF Contracted!cvars
  <1>4. QED  BY <1>1, <1>3 DEF ContractStep

LEMMA NotStranded == ASSUME ClaimInv, Active, ~Stranded  PROVE ~leaked
  BY DEF ClaimInv, Active, Resting

LEMMA InsideStepsKeepClaim ==
    ASSUME ClaimInv,
           \/ Admit \/ SnapshotTaken \/ SnapshotFails \/ Work
           \/ RetryMain \/ MainEnds \/ BackoffElapses \/ BackoffStops
           \/ Repaired \/ RepairFails \/ FreshFails \/ Rounds \/ Verify \/ Record
    PROVE  ClaimInv' /\ ContractStep
  <1> USE DEF Goto, Call, Leave, Fault, ladder, local, durable, history, budget, NoCall, NewCall
  <1>1. CASE Admit \/ SnapshotTaken \/ SnapshotFails \/ BackoffElapses \/ BackoffStops \/ Verify
             \/ Record \/ RoundBackoffElapses \/ RoundBackoffStops \/ ReviewAccepts
             \/ ReviewDeclines
    <2>1. UNCHANGED <<cfg, disk, claim, leaked>>
      BY <1>1 DEF Admit, SnapshotTaken, SnapshotFails, BackoffElapses, BackoffStops, Verify,
                  Record, RoundBackoffElapses, RoundBackoffStops, ReviewAccepts, ReviewDeclines
    <2>2. /\ pc \in {"claimed", "snapshot", "backoff", "roundBackoff", "review", "verify",
                     "record"}
          /\ pc' \in Calling \cup {"snapshot", "verify", "record", "repair", "review", "settle"}
          /\ call' \in {call, NoCall, NewCall} /\ (pc' \notin Calling => call' \in {call, NoCall})
      BY <1>1 DEF Admit, SnapshotTaken, SnapshotFails, BackoffElapses, BackoffStops, Verify,
                  Record, RoundBackoffElapses, RoundBackoffStops, ReviewAccepts, ReviewDeclines,
                  AfterCall, AfterRounds, Calling
    <2>3. Active /\ Active' /\ pc \notin Calling  BY <2>2 DEF Active, Resting, Calling
    <2>4. pc' \notin Calling => In("idle")'  BY <2>2, <2>3 DEF ClaimInv, In
    <2>5. ~leaked  BY <2>3, NotStranded DEF Stranded
    <2>6. QED  BY <2>1, <2>3, <2>4, <2>5, InsideKeepsClaim
  <1>2. CASE Work
    <2>1. /\ UNCHANGED <<cfg, disk, claim, pc>> /\ pc \in Calling /\ LadderStep
      BY <1>2 DEF Work
    <2>2. ~In("returned") /\ leaked' = leaked
      BY <2>1 DEF LadderStep, Gate, Prepare, Spawn, Reply, Shutdown, Decide, In
    <2>3. Active /\ Active'  BY <2>1 DEF Active, Resting, Calling
    <2>4. ~leaked  BY <2>2, <2>3, NotStranded DEF Stranded
    <2>5. QED  BY <2>1, <2>2, <2>3, <2>4, InsideKeepsClaim
  <1>3. CASE RetryMain \/ MainEnds \/ Repaired \/ RepairFails \/ FreshFails \/ ApplyRound
             \/ RepairRound \/ RetryRound \/ GiveUpRound
    <2>1. UNCHANGED <<cfg, disk, claim, leaked>>
      BY <1>3 DEF RetryMain, MainEnds, Repaired, RepairFails, FreshFails, ApplyRound,
                  RepairRound, RetryRound, GiveUpRound
    <2>2. pc \in Calling /\ call.out # "fatal"
      BY <1>3 DEF RetryMain, MainEnds, Repaired, RepairFails, FreshFails, ApplyRound,
                  RepairRound, RetryRound, GiveUpRound, Returned, Judging, RoundFailed, Calling,
                  Failures
    <2>3. \/ pc' \in Calling
          \/ /\ pc' \in {"backoff", "repair", "verify", "record", "review", "roundBackoff"}
             /\ call' = NoCall
      BY <1>3 DEF RetryMain, MainEnds, Repaired, RepairFails, FreshFails, ApplyRound,
                  RepairRound, RetryRound, GiveUpRound, AfterCall, AfterRounds, Calling
    <2>4. Active /\ Active'  BY <2>2, <2>3 DEF Active, Resting, Calling
    <2>5. pc' \notin Calling => In("idle")'  BY <2>3 DEF In
    <2>6. ~leaked  BY <2>2, <2>4, NotStranded DEF Stranded
    <2>7. QED  BY <2>1, <2>4, <2>5, <2>6, InsideKeepsClaim
  <1>4. QED  BY <1>1, <1>2, <1>3 DEF Rounds

\* The contract's steps, with the episode's names for its variables.
LEMMA ContractSteps ==
    ASSUME UNCHANGED cfg,
           \/ /\ Phase = "idle" /\ ~claim /\ disk.st = cfg.target
              /\ claim' = TRUE /\ Phase' = "working" /\ disk'.st = disk.st /\ leaked' = leaked
           \/ /\ Phase = "working" /\ ~leaked
              /\ claim' = FALSE /\ Phase' = "idle" /\ disk'.st = disk.st /\ leaked' = leaked
           \/ /\ Phase = "working" /\ ~leaked
              /\ disk'.st \in Contracted!Ends /\ Phase' = "stored"
              /\ claim' = claim /\ leaked' = leaked
           \/ /\ Phase = "stored"
              /\ claim' = FALSE /\ Phase' = "idle" /\ disk'.st = disk.st /\ leaked' = leaked
           \/ /\ Phase \in {"working", "stored"}
              /\ Phase' = "idle" /\ leaked' \in BOOLEAN /\ disk'.st = disk.st /\ claim' = claim
           \/ /\ Phase = "working" /\ leaked' = TRUE
              /\ disk'.st = disk.st /\ claim' = claim /\ Phase' = Phase
           \/ /\ leaked /\ leaked' = FALSE
              /\ disk'.st = disk.st /\ claim' = claim /\ Phase' = Phase
           \/ /\ Phase = "idle" /\ claim /\ ~leaked
              /\ claim' = FALSE /\ disk'.st = disk.st /\ Phase' = Phase /\ leaked' = leaked
           \/ /\ disk.st \in {"failed", "review"} /\ disk'.st = cfg.target
              /\ claim' = claim /\ Phase' = Phase /\ leaked' = leaked
           \/ disk'.st = disk.st /\ claim' = claim /\ Phase' = Phase /\ leaked' = leaked
    PROVE  ContractStep
  BY DEF ContractStep, Contracted!Next, Contracted!Step, Contracted!Claim, Contracted!GiveBack,
         Contracted!Settle, Contracted!Release, Contracted!Lose, Contracted!Strand,
         Contracted!WorkerExits, Contracted!Archive, Contracted!Operator, Contracted!cvars

LEMMA ClaimAndRelease ==
    ASSUME TypeInv, ClaimInv, Claim \/ Refuse \/ Release \/ ArchiveClaim
    PROVE  ClaimInv' /\ ContractStep
  <1> USE DEF Goto, ladder, local, history, budget
  <1>1. UNCHANGED <<cfg, disk, call, leaked>>
    BY DEF Claim, Refuse, Release, ArchiveClaim
  <1>2. CASE Claim
    <2>1. pc = "free" /\ ~claim /\ disk.st = cfg.target /\ claim' = TRUE /\ pc' = "claimed"
      BY <1>2 DEF Claim
    <2>2. ~leaked /\ In("idle")  BY <2>1 DEF ClaimInv, Calling, Stranded
    <2>3. ClaimInv'  BY <1>1, <2>1, <2>2 DEF ClaimInv, In, Calling
    <2>4. Phase = "idle" /\ Phase' = "working"  BY <2>1 DEF Phase, Resting
    <2>5. QED  BY <1>1, <2>1, <2>3, <2>4, ContractSteps
  <1>3. CASE Refuse
    <2>1. pc = "claimed" /\ claim' = FALSE /\ pc' = "free"  BY <1>3 DEF Refuse
    <2>2. ~leaked /\ In("idle")  BY <2>1 DEF ClaimInv, Calling, Stranded
    <2>3. ClaimInv'  BY <1>1, <2>1, <2>2 DEF ClaimInv, In, Calling, Active, Resting
    <2>4. Phase = "working" /\ Phase' = "idle"  BY <2>1 DEF Phase, Resting
    <2>5. QED  BY <1>1, <2>1, <2>2, <2>3, <2>4, ContractSteps
  <1>4. CASE Release
    <2>1. pc = "stored" /\ claim' = FALSE /\ pc' = "free"  BY <1>4 DEF Release
    <2>2. ~leaked /\ In("idle")  BY <2>1 DEF ClaimInv, Calling, Stranded
    <2>3. ClaimInv'  BY <1>1, <2>1, <2>2 DEF ClaimInv, In, Calling, Active, Resting
    <2>4. Phase = "stored" /\ Phase' = "idle"  BY <2>1 DEF Phase, Resting
    <2>5. QED  BY <1>1, <2>1, <2>2, <2>3, <2>4, ContractSteps
  <1>5. CASE ArchiveClaim
    <2>1. pc = "held" /\ claim' = FALSE /\ pc' = "free" /\ ~leaked  BY <1>5 DEF ArchiveClaim
    <2>2. claim /\ In("idle")  BY <2>1 DEF ClaimInv, Calling
    <2>3. ClaimInv'  BY <1>1, <2>1, <2>2 DEF ClaimInv, In, Calling, Active, Resting
    <2>4. Phase = "idle" /\ Phase' = "idle"  BY <2>1 DEF Phase, Resting
    <2>5. QED  BY <1>1, <2>1, <2>2, <2>3, <2>4, ContractSteps
  <1>6. QED  BY <1>2, <1>3, <1>4, <1>5

LEMMA SettleKeepsClaim ==
    ASSUME TypeInv, ClaimInv, Settle  PROVE ClaimInv' /\ ContractStep
  <1>1. /\ UNCHANGED <<cfg, call, claim, leaked>> /\ pc = "settle" /\ pc' = "stored"
    BY DEF Settle, Goto, ladder
  <1>2. PICK st \in Landing :
          disk' = [orb EXCEPT !.st = st, !.checkpoint = IF out = "aborted" THEN @ ELSE Len(ledger)]
    BY DEF Settle
  <1>3. orb \in Orb /\ cfg.target \in Targets  BY ConfigTypes DEF TypeInv, TypeOK
  <1>4. disk'.st = st  BY <1>2, <1>3 DEF Orb
  <1>5. st \in Contracted!Ends
    <2>1. OnDone \subseteq Contracted!OnDone
      BY <1>3 DEF OnDone, Contracted!OnDone, Refined, Targets, Structured
    <2>2. QED  BY <2>1 DEF Landing, Contracted!Ends
  <1>6. ~leaked /\ claim /\ In("idle")  BY <1>1 DEF ClaimInv, Calling, Stranded
  <1>7. ClaimInv'  BY <1>1, <1>6 DEF ClaimInv, In, Calling, Active
  <1>8. Phase = "working" /\ Phase' = "stored"  BY <1>1 DEF Phase, Resting
  <1>9. QED  BY <1>1, <1>4, <1>5, <1>6, <1>7, <1>8, ContractSteps

\* A dropped episode keeps its claim, and with it the worker it may have left.
LEMMA DropsKeepClaim ==
    ASSUME TypeInv, ClaimInv, CallIsFatal \/ EpisodeError \/ Crash
    PROVE  ClaimInv' /\ ContractStep
  <1>1. UNCHANGED <<cfg, disk, claim>> /\ pc' = "held" /\ call' = NoCall
    BY DEF CallIsFatal, EpisodeError, Crash, Drop, Goto, durable
  <1>2. leaked' \in BOOLEAN
    BY DEF CallIsFatal, EpisodeError, Crash, TypeInv, TypeOK
  <1>3. pc \in Places \ Resting
    BY DEF CallIsFatal, EpisodeError, Crash, TypeInv, TypeOK, Calling, Resting
  <1>4. claim  BY <1>3 DEF ClaimInv, Resting
  <1>5. ClaimInv'
    BY <1>1, <1>4 DEF ClaimInv, In, NoCall, Active, Resting
  <1>6. Phase \in {"working", "stored"} /\ Phase' = "idle"
    BY <1>1, <1>3 DEF Phase, Resting
  <1>7. QED  BY <1>1, <1>2, <1>5, <1>6, ContractSteps

LEMMA OtherStepsKeepClaim ==
    ASSUME TypeInv, ClaimInv,
           WorkFails \/ Stop \/ Restart \/ WorkerExits \/ Redo \/ UNCHANGED evars
    PROVE  ClaimInv' /\ ContractStep
  <1> USE DEF ladder, local, durable, history, budget
  <1>1. UNCHANGED <<cfg, pc, claim>>
    BY DEF WorkFails, Stop, Restart, WorkerExits, Redo, evars
  <1>2. Phase' = Phase  BY <1>1 DEF Phase
  <1>3. CASE WorkFails
    <2>1. UNCHANGED disk /\ pc \in Calling /\ LadderFault  BY <1>3 DEF WorkFails
    <2>2. ~In("returned")
      BY <2>1 DEF LadderFault, PrepareFails, SpawnIsFatal, ShutdownFails, In
    <2>3. Active /\ Phase = "working"  BY <2>1 DEF Active, Resting, Calling, Phase
    <2>4. ~leaked  BY <2>2, <2>3, NotStranded DEF Stranded
    <2>5. CallOK  BY TypeFacts
    <2>6. CallOK' /\ (leaked' # leaked => In("returned")' /\ call'.out = "fatal")
      BY <2>1, <2>5, LadderSteps DEF In
    <2>7. leaked' = leaked \/ leaked' = TRUE  BY <2>4, <2>5, <2>6 DEF CallOK
    <2>8. ClaimInv'  BY <1>1, <2>1, <2>4, <2>6 DEF ClaimInv, Stranded, Active
    <2>9. QED  BY <1>1, <1>2, <2>1, <2>3, <2>7, <2>8, ContractSteps
  <1>4. CASE Stop \/ Restart \/ UNCHANGED evars
    <2>1. UNCHANGED <<disk, call, leaked>>  BY <1>4 DEF Stop, Restart, evars
    <2>2. ClaimInv'  BY <1>1, <2>1 DEF ClaimInv, Stranded, In, Active
    <2>3. QED  BY <1>1, <1>2, <2>1, <2>2, ContractSteps
  <1>5. CASE WorkerExits
    <2>1. UNCHANGED <<disk, call>> /\ leaked /\ leaked' = FALSE  BY <1>5 DEF WorkerExits
    <2>2. ClaimInv'  BY <1>1, <2>1 DEF ClaimInv, In, Active
    <2>3. QED  BY <1>1, <1>2, <2>1, <2>2, ContractSteps
  <1>6. CASE Redo
    <2>1. UNCHANGED <<call, leaked>> /\ disk.st \in {"failed", "review"}  BY <1>6 DEF Redo
    <2>2. disk'.st = cfg.target
      BY <1>6 DEF Redo, TypeInv, TypeOK, Orb
    <2>3. ClaimInv'  BY <1>1, <2>1, <2>2 DEF ClaimInv, Stranded, In, Active
    <2>4. QED  BY <1>1, <1>2, <2>1, <2>2, <2>3, ContractSteps
  <1>7. QED  BY <1>3, <1>4, <1>5, <1>6

LEMMA NextKeepsClaim ==
    ASSUME TypeInv, ClaimInv, [Next]_evars  PROVE ClaimInv' /\ ContractStep
  BY InsideStepsKeepClaim, ClaimAndRelease, SettleKeepsClaim, DropsKeepClaim,
     OtherStepsKeepClaim
  DEF Next, EpisodeStep, Disturbance

\* An orb leaves its target only under its claim, and a worker left behind keeps
\* that claim: the inductive invariant behind the next two theorems.
THEOREM ClaimIsInvariant == Spec => []ClaimInv
  <1>1. Init => ClaimInv
    BY DEF Init, ClaimInv, Calling, In, NoCall, Active, Resting
  <1>2. QED  BY <1>1, NextKeepsClaim, RoundsStayBounded, PTL DEF Spec

\* While a worker whose teardown failed may live, its claim stays and nothing
\* else is started, whatever fails where.
THEOREM LeftWorkersBlock == Spec => []LeftWorkerBlocksReplacement
  <1>1. ClaimInv => LeftWorkerBlocksReplacement
    BY DEF ClaimInv, LeftWorkerBlocksReplacement, Stranded, Calling
  <1>2. QED  BY <1>1, ClaimIsInvariant, PTL

\* All the retries, rounds, repairs and reviews of an episode, its errors and
\* crashes included, implement the contract of one dispatch.
THEOREM EpisodesKeepContract == Spec => ImplementsContract
  <1>1. Init => Contracted!Init
    BY DEF Init, Contracted!Init, NoCopy, Phase, Resting
  <1>2. TypeInv /\ ClaimInv /\ [Next]_evars => [Contracted!Next]_(Contracted!cvars)
    BY NextKeepsClaim DEF ContractStep
  <1>3. QED
    BY <1>1, <1>2, RoundsStayBounded, ClaimIsInvariant, PTL
    DEF Spec, ImplementsContract, Contracted!Contract

-----------------------------------------------------------------------------
(* The way to an outcome.  Only a verified commit, or a text that a reviewer   *)
(* has accepted as it stands, reaches the record of a completed episode.     *)

RoundPlaces == {"round", "roundRepair", "roundBackoff", "review"}
RepairPlaces == {"repair", "fresh"}

OnTheWay ==
    /\ pc \in RoundPlaces => Refining
    /\ pc \in RepairPlaces => cfg.target \in Structured
    /\ pc \in {"backoff", "verify"} => ~Refining

Committed == repo.residual = "as_found" /\ (repo.ahead = 0 \/ (repo.ahead = 1 /\ repo.tip = "clean"))

OutcomeIsEarned ==
    (pc \in {"record", "settle"} /\ out \in Done) =>
        /\ cfg.contract => Committed
        /\ (Refining /\ rd.reason \notin Rejected) => approved = orb.edits

PathInv == OnTheWay /\ OutcomeIsEarned /\ DoneIsCommitted /\ OnlyReviewedSpecsAdvance

LEMMA TargetIsOpen ==
    ASSUME TypeInv
    PROVE  /\ cfg.target \notin {"done", "review", "waiting"}
           /\ cfg.contract => ~Refining /\ cfg.target \notin Structured
           /\ Refining => cfg.target \notin Structured
  <1>1. cfg.target \in Targets /\ (cfg.contract => cfg.target = "executing")
    BY ConfigTypes, TypeFacts
  <1>2. QED  BY <1>1 DEF Targets, Structured, Refining

\* Until its outcome is stored an episode leaves the stored orb at its target.
LEMMA TargetUntilStored ==
    ASSUME TypeInv, ClaimInv, Active, UNCHANGED <<cfg, disk>>
    PROVE  DoneIsCommitted' /\ OnlyReviewedSpecsAdvance'
  BY TargetIsOpen DEF ClaimInv, DoneIsCommitted, OnlyReviewedSpecsAdvance

\* Steps that stay short of the record.
LEMMA ShortOfRecord ==
    ASSUME TypeInv, ClaimInv, PathInv,
           \/ Admit \/ SnapshotTaken \/ Work \/ WorkFails \/ RetryMain \/ BackoffElapses
           \/ RepairFails \/ ApplyRound \/ RepairRound \/ RetryRound \/ RoundBackoffElapses
    PROVE  PathInv'
  <1> USE DEF Goto, Call, Leave, local, durable
  <1>1. /\ UNCHANGED <<cfg, disk>>
        /\ pc \in Calling \cup {"claimed", "snapshot", "backoff", "roundBackoff"}
        /\ pc' \in Calling \cup {"snapshot", "backoff", "roundBackoff", "review"}
    BY DEF Admit, SnapshotTaken, Work, WorkFails, RetryMain, BackoffElapses, RepairFails,
           ApplyRound, RepairRound, RetryRound, RoundBackoffElapses, Judging, Returned,
           RoundFailed, Calling
  <1>2. Active  BY <1>1 DEF Active, Resting, Calling
  <1>3. OutcomeIsEarned'  BY <1>1 DEF OutcomeIsEarned, Calling
  <1>4. OnTheWay'
    <2>1. Refining' = Refining  BY <1>1 DEF Refining
    <2>2. CASE Admit \/ SnapshotTaken \/ BackoffElapses
      <3>1. pc' \in {"snapshot", "main"}  BY <2>2 DEF Admit, SnapshotTaken, BackoffElapses
      <3>2. QED  BY <3>1 DEF OnTheWay, RoundPlaces, RepairPlaces
    <2>3. CASE Work \/ WorkFails
      BY <1>1, <2>1, <2>3 DEF Work, WorkFails, PathInv, OnTheWay
    <2>4. CASE RetryMain
      BY <1>1, <2>1, <2>4 DEF RetryMain, OnTheWay, RoundPlaces, RepairPlaces
    <2>5. CASE RepairFails
      <3>1. pc = "repair" /\ pc' = "fresh"  BY <2>5 DEF RepairFails, Returned
      <3>2. QED  BY <1>1, <2>1, <3>1 DEF PathInv, OnTheWay, RoundPlaces, RepairPlaces
    <2>6. CASE ApplyRound \/ RepairRound \/ RetryRound \/ RoundBackoffElapses
      <3>1. pc' \in RoundPlaces
        BY <2>6 DEF ApplyRound, RepairRound, RetryRound, RoundBackoffElapses, RoundPlaces
      <3>2. Refining
        BY <2>6 DEF ApplyRound, RepairRound, RetryRound, RoundBackoffElapses, Judging, Returned,
                    RoundFailed, PathInv, OnTheWay, RoundPlaces
      <3>3. QED  BY <2>1, <3>1, <3>2 DEF OnTheWay, RoundPlaces, RepairPlaces
    <2>7. QED  BY <2>2, <2>3, <2>4, <2>5, <2>6
  <1>5. QED  BY <1>1, <1>2, <1>3, <1>4, TargetUntilStored DEF PathInv

\* Steps on to the commit contract, the review or the record.
LEMMA OnToRecord ==
    ASSUME TypeInv, ClaimInv, PathInv,
           \/ SnapshotFails \/ MainEnds \/ BackoffStops \/ Repaired \/ FreshFails
           \/ GiveUpRound \/ RoundBackoffStops \/ ReviewAccepts \/ ReviewDeclines \/ Verify
    PROVE  PathInv'
  <1> USE DEF Goto, Call, Leave, ladder, local, durable, history, budget
  <1>1. /\ UNCHANGED <<cfg, disk, repo>>
        /\ pc \in Calling \cup {"snapshot", "backoff", "roundBackoff", "review", "verify"}
        /\ pc' \in {"record", "repair", "verify", "review"}
    BY DEF SnapshotFails, MainEnds, BackoffStops, Repaired, FreshFails, GiveUpRound,
           RoundBackoffStops, ReviewAccepts, ReviewDeclines, Verify, Judging, Returned,
           RoundFailed, Calling, AfterCall, AfterRounds
  <1>2. Active  BY <1>1 DEF Active, Resting, Calling
  <1>3. Refining' = Refining  BY <1>1 DEF Refining
  <1>4. CASE SnapshotFails \/ FreshFails
    <2>1. pc' = "record" /\ out' = "failed"  BY <1>4 DEF SnapshotFails, FreshFails
    <2>2. OnTheWay' /\ OutcomeIsEarned'
      BY <2>1 DEF OnTheWay, OutcomeIsEarned, RoundPlaces, RepairPlaces, Done
    <2>3. QED  BY <1>1, <1>2, <2>2, TargetUntilStored DEF PathInv
  <1>5. CASE MainEnds \/ BackoffStops
    <2>1. ~Refining
      BY <1>5 DEF MainEnds, BackoffStops, PathInv, OnTheWay
    <2>2. PICK result : pc' = AfterCall(result)  BY <1>5 DEF MainEnds, BackoffStops
    <2>3. pc' = "repair" => cfg.target \in Structured  BY <2>2 DEF AfterCall
    <2>4. pc' = "record" => ~cfg.contract  BY <2>2 DEF AfterCall
    <2>5. pc' # "review"  BY <2>2 DEF AfterCall
    <2>6. OnTheWay'  BY <1>1, <1>3, <2>1, <2>3, <2>5 DEF OnTheWay, RoundPlaces, RepairPlaces
    <2>7. OutcomeIsEarned'  BY <1>1, <1>3, <2>1, <2>4 DEF OutcomeIsEarned
    <2>8. QED  BY <1>1, <1>2, <2>6, <2>7, TargetUntilStored DEF PathInv
  <1>6. CASE Repaired
    <2>1. pc \in RepairPlaces /\ pc' = "record"  BY <1>6 DEF Repaired, RepairPlaces
    <2>2. ~Refining /\ ~cfg.contract  BY <2>1, TargetIsOpen DEF PathInv, OnTheWay
    <2>3. OnTheWay' /\ OutcomeIsEarned'
      BY <1>1, <1>3, <2>1, <2>2 DEF OnTheWay, OutcomeIsEarned, RoundPlaces, RepairPlaces
    <2>4. QED  BY <1>1, <1>2, <2>3, TargetUntilStored DEF PathInv
  <1>7. CASE GiveUpRound \/ RoundBackoffStops
    <2>1. Refining /\ ~cfg.contract
      BY <1>7, TargetIsOpen DEF GiveUpRound, RoundBackoffStops, RoundFailed, Judging, Returned,
              PathInv, OnTheWay, RoundPlaces
    <2>2. pc' = AfterRounds(out')  BY <1>7 DEF GiveUpRound, RoundBackoffStops
    <2>3. pc' \in {"record", "review"} /\ (pc' = "record" => out' \notin Done)
      BY <2>2 DEF AfterRounds
    <2>4. OnTheWay' /\ OutcomeIsEarned'
      BY <1>1, <1>3, <2>1, <2>3 DEF OnTheWay, OutcomeIsEarned, RoundPlaces, RepairPlaces
    <2>5. QED  BY <1>1, <1>2, <2>4, TargetUntilStored DEF PathInv
  <1>8. CASE ReviewAccepts \/ ReviewDeclines
    <2>1. pc = "review" /\ pc' = "record"  BY <1>8 DEF ReviewAccepts, ReviewDeclines
    <2>2. Refining /\ ~cfg.contract  BY <2>1, TargetIsOpen DEF PathInv, OnTheWay, RoundPlaces
    <2>3. approved' = orb'.edits \/ rd'.reason \in Rejected
      <3>1. CASE ReviewAccepts  BY <3>1 DEF ReviewAccepts
      <3>2. CASE ReviewDeclines
        <4> DEFINE again == rd.quality < cfg.reviews
        <4>1. PICK reason \in Rejected : rd' = [rd EXCEPT !.reason = reason, !.bounce = again]
          BY <3>2 DEF ReviewDeclines
        <4>2. rd \in Round  BY TypeFacts DEF CopyOK
        <4>3. QED  BY <4>1, <4>2 DEF Round
      <3>3. QED  BY <1>8, <3>1, <3>2
    <2>4. OnTheWay' /\ OutcomeIsEarned'
      BY <1>1, <2>1, <2>2, <2>3 DEF OnTheWay, OutcomeIsEarned, RoundPlaces, RepairPlaces
    <2>5. QED  BY <1>1, <1>2, <2>4, TargetUntilStored DEF PathInv
  <1>9. CASE Verify
    <2>1. pc = "verify" /\ pc' = "record"  BY <1>9 DEF Verify
    <2>2. ~Refining  BY <2>1 DEF PathInv, OnTheWay
    <2>3. PICK report \in SUBSET Lines :
            out' = IF out \in Done /\ ~Verified(repo, TRUE, report) THEN "failed" ELSE out
      BY <1>9 DEF Verify
    <2>4. out' \in Done => Committed  BY <2>3 DEF Done, Verified, Committed
    <2>5. Committed' = Committed  BY <1>1 DEF Committed
    <2>6. OnTheWay' /\ OutcomeIsEarned'
      BY <1>1, <1>3, <2>1, <2>2, <2>4, <2>5
      DEF OnTheWay, OutcomeIsEarned, RoundPlaces, RepairPlaces
    <2>7. QED  BY <1>1, <1>2, <2>6, TargetUntilStored DEF PathInv
  <1>10. QED  BY <1>4, <1>5, <1>6, <1>7, <1>8, <1>9

LEMMA RecordKeepsPath == ASSUME TypeInv, ClaimInv, PathInv, Record  PROVE PathInv'
  <1>1. /\ UNCHANGED <<cfg, disk, repo, orb, out, rd, approved>> /\ pc = "record" /\ pc' = "settle"
    BY DEF Record, Goto, local, history
  <1>2. Active  BY <1>1 DEF Active, Resting
  <1>3. OnTheWay' /\ OutcomeIsEarned'
    BY <1>1 DEF PathInv, OnTheWay, OutcomeIsEarned, RoundPlaces, RepairPlaces, Committed,
                Refining
  <1>4. QED  BY <1>1, <1>2, <1>3, TargetUntilStored DEF PathInv

LEMMA SettleKeepsPath == ASSUME TypeInv, ClaimInv, PathInv, Settle  PROVE PathInv'
  <1>1. /\ UNCHANGED <<cfg, repo, orb, out, rd, approved>> /\ pc = "settle" /\ pc' = "stored"
    BY DEF Settle, Goto, local
  <1>2. PICK st \in Landing :
          disk' = [orb EXCEPT !.st = st, !.checkpoint = IF out = "aborted" THEN @ ELSE Len(ledger)]
    BY DEF Settle
  <1>3. orb \in Orb /\ cfg \in Configs  BY DEF TypeInv, TypeOK
  <1>4. disk'.st = st /\ disk'.edits = orb.edits  BY <1>2, <1>3 DEF Orb
  <1>5. OnTheWay' /\ OutcomeIsEarned'
    BY <1>1 DEF OnTheWay, OutcomeIsEarned, RoundPlaces, RepairPlaces
  <1>6. st \in {"done", "review", "waiting"} => out \in Done  BY <1>3, LandingIsState
  <1>7. DoneIsCommitted'
    <2>1. SUFFICES ASSUME cfg.contract, st \in {"done", "review"}  PROVE Committed
      BY <1>1, <1>4 DEF DoneIsCommitted, Committed
    <2>2. QED  BY <1>1, <1>6, <2>1 DEF PathInv, OutcomeIsEarned
  <1>8. OnlyReviewedSpecsAdvance'
    <2>1. SUFFICES ASSUME st = "waiting"  PROVE approved = orb.edits
      BY <1>1, <1>4 DEF OnlyReviewedSpecsAdvance
    <2>2. out \in Done /\ st \in OnDone
      BY <1>6, <2>1, TargetIsOpen DEF Landing
    <2>3. cfg.target \in Targets  BY <1>3, ConfigTypes
    <2>4. Refining /\ rd.reason \notin Rejected
      BY <2>1, <2>2, <2>3 DEF OnDone, Refined, Refining, Targets, Structured
    <2>5. QED  BY <1>1, <2>2, <2>4 DEF PathInv, OutcomeIsEarned
  <1>9. QED  BY <1>5, <1>7, <1>8 DEF PathInv

\* The steps that leave or enter an episode, and those beside it.
LEMMA AroundKeepsPath ==
    ASSUME TypeInv, ClaimInv, PathInv,
           \/ Claim \/ Refuse \/ Release \/ CallIsFatal \/ EpisodeError \/ Crash
           \/ ArchiveClaim \/ Stop \/ Restart \/ WorkerExits \/ Redo \/ UNCHANGED evars
    PROVE  PathInv'
  <1> USE DEF Goto, Drop, ladder, local, durable, history, budget
  <1>1. UNCHANGED <<cfg, repo, approved>>
    BY DEF Claim, Refuse, Release, CallIsFatal, EpisodeError, Crash, ArchiveClaim, Stop, Restart,
           WorkerExits, Redo, evars
  <1>2. \/ pc' \in {"claimed", "free", "held"}
        \/ UNCHANGED <<pc, orb, out, rd>>
    BY DEF Claim, Refuse, Release, CallIsFatal, EpisodeError, Crash, ArchiveClaim, Stop, Restart,
           WorkerExits, Redo, evars
  <1>3. OnTheWay' /\ OutcomeIsEarned'
    BY <1>1, <1>2 DEF PathInv, OnTheWay, OutcomeIsEarned, RoundPlaces, RepairPlaces, Committed,
                      Refining
  <1>4. CASE Redo
    <2>1. disk'.st = cfg.target  BY <1>4 DEF Redo, TypeInv, TypeOK, Orb
    <2>2. DoneIsCommitted' /\ OnlyReviewedSpecsAdvance'
      BY <1>1, <2>1, TargetIsOpen DEF DoneIsCommitted, OnlyReviewedSpecsAdvance
    <2>3. QED  BY <1>3, <2>2 DEF PathInv
  <1>5. CASE UNCHANGED disk
    BY <1>1, <1>3, <1>5 DEF PathInv, DoneIsCommitted, OnlyReviewedSpecsAdvance
  <1>6. QED
    BY <1>4, <1>5 DEF Claim, Refuse, Release, CallIsFatal, EpisodeError, Crash, ArchiveClaim,
                      Stop, Restart, WorkerExits, evars

\* An episode that is about to record a completion has earned it: its commit was
\* verified, or its text is the one a reviewer accepted.
THEOREM PathIsInvariant == Spec => []PathInv
  <1>1. Init => PathInv
    <2>1. SUFFICES ASSUME Init PROVE PathInv  OBVIOUS
    <2>2. pc = "free" /\ disk.st = cfg.target /\ cfg \in Configs  BY <2>1 DEF Init, NoCopy
    <2>3. cfg.target \in Targets  BY <2>2, ConfigTypes
    <2>4. QED
      BY <2>2, <2>3 DEF PathInv, OnTheWay, OutcomeIsEarned, DoneIsCommitted, RoundPlaces,
                        RepairPlaces, OnlyReviewedSpecsAdvance, Targets, Structured
  <1>2. TypeInv /\ ClaimInv /\ PathInv /\ [Next]_evars => PathInv'
    BY ShortOfRecord, OnToRecord, RecordKeepsPath, SettleKeepsPath, AroundKeepsPath
    DEF Next, EpisodeStep, Rounds, Disturbance
  <1>3. QED  BY <1>1, <1>2, RoundsStayBounded, ClaimIsInvariant, PTL DEF Spec

\* Under the commit contract a completed orb stands for one clean commit, or for
\* a justified none, whatever retries, failures and crashes came before.
THEOREM CompletionsAreCommitted == Spec => []DoneIsCommitted
  <1>1. PathInv => DoneIsCommitted  BY DEF PathInv
  <1>2. QED  BY <1>1, PathIsInvariant, PTL

\* Only a specification that a reviewer accepted in the form that is stored goes
\* on to execution.
THEOREM ReviewedSpecsAdvance == Spec => []OnlyReviewedSpecsAdvance
  <1>1. PathInv => OnlyReviewedSpecsAdvance  BY DEF PathInv
  <1>2. QED  BY <1>1, PathIsInvariant, PTL

-----------------------------------------------------------------------------
(* Rejections.  Every bounce leaves a rejection in the ledger before the next   *)
(* checkpoint, and the next episode counts its review attempts from there.    *)

RejectionsUpTo(l, c) == {i \in 1..c : l[i].reason \in Rejected}

LEMMA RejectionsGrow ==
    ASSUME NEW l, NEW c \in Nat, NEW d \in Nat, c <= d
    PROVE  QualityRejections(l, c) <= QualityRejections(l, d)
  <1>1. RejectionsUpTo(l, c) \subseteq RejectionsUpTo(l, d)  BY DEF RejectionsUpTo
  <1>2. IsFiniteSet(RejectionsUpTo(l, d))  BY RejectionsAreFinite DEF RejectionsUpTo
  <1>3. Cardinality(RejectionsUpTo(l, c)) <= Cardinality(RejectionsUpTo(l, d))
    BY <1>1, <1>2, FS_Subset
  <1>4. QED  BY <1>3 DEF QualityRejections, RejectionsUpTo

\* A rejection after the one checkpoint and before the other makes a difference.
LEMMA RejectionCounts ==
    ASSUME NEW l, NEW c \in Nat, NEW d \in Nat, NEW n \in 1..d, c < n, l[n].reason \in Rejected
    PROVE  QualityRejections(l, c) + 1 <= QualityRejections(l, d)
  <1> DEFINE S == RejectionsUpTo(l, c)
  <1>1. n \notin S /\ S \cup {n} \subseteq RejectionsUpTo(l, d)  BY DEF RejectionsUpTo
  <1>2. IsFiniteSet(S) /\ IsFiniteSet(RejectionsUpTo(l, d))
    BY RejectionsAreFinite DEF RejectionsUpTo
  <1>3. Cardinality(S \cup {n}) = Cardinality(S) + 1  BY <1>1, <1>2, FS_AddElement
  <1>4. Cardinality(S \cup {n}) <= Cardinality(RejectionsUpTo(l, d))  BY <1>1, <1>2, FS_Subset
  <1>5. QED  BY <1>3, <1>4 DEF QualityRejections, RejectionsUpTo

\* What is entered after a checkpoint does not change what was counted up to it.
LEMMA RejectionsOfPrefix ==
    ASSUME NEW S, NEW l \in Seq(S), NEW e \in S, NEW c \in 0..Len(l)
    PROVE  QualityRejections(Append(l, e), c) = QualityRejections(l, c)
  <1>1. \A i \in 1..c : Append(l, e)[i] = l[i]  OBVIOUS
  <1>2. RejectionsUpTo(Append(l, e), c) = RejectionsUpTo(l, c)  BY <1>1 DEF RejectionsUpTo
  <1>3. QED  BY <1>2 DEF QualityRejections, RejectionsUpTo

BouncesAreLedgered == bounces <= QualityRejections(ledger, disk.checkpoint)

CountingGoesOn ==
    (Active /\ pc # "claimed") => disk.checkpoint <= orb.checkpoint /\ bounces + 1 <= rd.quality

BounceIsEntered ==
    /\ rd.bounce => /\ pc \in {"record", "settle", "stored"} /\ Refining
                    /\ rd.quality < cfg.reviews /\ rd.reason \in Rejected
    /\ (pc = "settle" /\ Refining) =>
          /\ disk.checkpoint < Len(ledger)
          /\ ledger[Len(ledger)].reason = rd.reason

BounceInv == BouncesAreLedgered /\ CountingGoesOn /\ BounceIsEntered /\ BouncesAreBounded

LEMMA CheckpointFacts ==
    ASSUME TypeInv
    PROVE  /\ disk.checkpoint \in 0..Len(ledger) /\ orb.checkpoint \in 0..Len(ledger)
           /\ disk.checkpoint \in Nat /\ orb.checkpoint \in Nat /\ Len(ledger) \in Nat
           /\ ledger \in Seq(Diagnostics(MaxRound)) /\ rd.quality \in Nat /\ bounces \in Nat
           /\ cfg.reviews \in Nat /\ QualityRejections(ledger, disk.checkpoint) \in Nat
  <1>1. disk \in Orb /\ orb \in Orb /\ LedgerOK /\ rd \in Round /\ bounces \in Nat
        /\ cfg.reviews \in Nat
    BY TypeFacts, ConfigTypes DEF StoreOK, CopyOK
  <1>2. disk.checkpoint \in Nat /\ orb.checkpoint \in Nat /\ Len(ledger) \in Nat
    BY <1>1 DEF Orb, LedgerOK
  <1>3. QualityRejections(ledger, disk.checkpoint) \in Nat  BY <1>2, RejectionsAreFinite
  <1>4. QED  BY <1>1, <1>2, <1>3 DEF LedgerOK, Round

\* A step inside an episode, short of its record.
LEMMA InsideKeepsBounces ==
    ASSUME TypeInv, TypeInv', BounceInv, UNCHANGED <<cfg, disk, bounces>>,
           Active, pc \notin {"claimed", "settle"}, pc' \notin {"claimed", "settle"},
           ledger' = ledger \/ \E e \in Diagnostics(MaxRound) : ledger' = Append(ledger, e),
           orb.checkpoint <= orb'.checkpoint, rd'.quality = rd.quality,
           rd'.bounce => /\ pc' = "record" /\ Refining
                         /\ rd.quality < cfg.reviews /\ rd'.reason \in Rejected
    PROVE  BounceInv'
  <1> USE CheckpointFacts
  <1>1. QualityRejections(ledger', disk.checkpoint) = QualityRejections(ledger, disk.checkpoint)
    <2>1. ASSUME NEW e \in Diagnostics(MaxRound)
          PROVE  QualityRejections(Append(ledger, e), disk.checkpoint)
                     = QualityRejections(ledger, disk.checkpoint)
      BY RejectionsOfPrefix
    <2>2. CASE ledger' = ledger  BY <2>2
    <2>3. CASE \E e \in Diagnostics(MaxRound) : ledger' = Append(ledger, e)
      <3>1. PICK e \in Diagnostics(MaxRound) : ledger' = Append(ledger, e)  BY <2>3
      <3>2. QED  BY <2>1, <3>1
    <2>4. QED  BY <2>2, <2>3
  <1>2. BouncesAreLedgered'  BY <1>1 DEF BounceInv, BouncesAreLedgered
  <1>3. orb'.checkpoint \in Nat  BY DEF TypeInv, TypeOK, Orb
  <1>4. CountingGoesOn'  BY <1>3 DEF BounceInv, CountingGoesOn
  <1>5. BounceIsEntered'  BY DEF BounceIsEntered, Refining
  <1>6. BouncesAreBounded'  BY DEF BounceInv, BouncesAreBounded
  <1>7. QED  BY <1>2, <1>4, <1>5, <1>6 DEF BounceInv

LEMMA QuietKeepsBounces ==
    ASSUME TypeInv, TypeInv', BounceInv,
           \/ SnapshotTaken \/ SnapshotFails \/ Work \/ WorkFails \/ RetryMain \/ MainEnds
           \/ BackoffElapses \/ BackoffStops \/ Repaired \/ RepairFails \/ FreshFails \/ Verify
           \/ RepairRound \/ RetryRound \/ GiveUpRound \/ RoundBackoffElapses
           \/ RoundBackoffStops \/ ReviewAccepts
    PROVE  BounceInv'
  <1> USE DEF Goto, Call, Leave, local, durable, history
  <1>1. /\ UNCHANGED <<cfg, disk, bounces, ledger, orb>>
        /\ pc \in Calling \cup {"snapshot", "backoff", "verify", "roundBackoff", "review"}
    BY DEF SnapshotTaken, SnapshotFails, Work, WorkFails, RetryMain, MainEnds, BackoffElapses,
           BackoffStops, Repaired, RepairFails, FreshFails, Verify, RepairRound, RetryRound,
           GiveUpRound, RoundBackoffElapses, RoundBackoffStops, ReviewAccepts, Returned, Judging,
           RoundFailed, Calling
  <1>2. pc' \notin {"claimed", "settle"}
    BY <1>1 DEF SnapshotTaken, SnapshotFails, Work, WorkFails, RetryMain, MainEnds,
           BackoffElapses, BackoffStops, Repaired, RepairFails, FreshFails, Verify, RepairRound,
           RetryRound, GiveUpRound, RoundBackoffElapses, RoundBackoffStops, ReviewAccepts,
           AfterCall, AfterRounds, Calling
  <1>3. rd'.quality = rd.quality /\ rd'.bounce = rd.bounce
    <2>1. rd \in Round  BY TypeFacts DEF CopyOK
    <2>2. CASE RetryRound \/ GiveUpRound \/ RoundBackoffStops
      BY <2>1, <2>2 DEF RetryRound, GiveUpRound, RoundBackoffStops, Round
    <2>3. CASE ~(RetryRound \/ GiveUpRound \/ RoundBackoffStops)
      BY <2>3 DEF SnapshotTaken, SnapshotFails, Work, WorkFails, RetryMain, MainEnds,
                  BackoffElapses, BackoffStops, Repaired, RepairFails, FreshFails, Verify,
                  RepairRound, RoundBackoffElapses, ReviewAccepts
    <2>4. QED  BY <2>2, <2>3
  <1>4. Active /\ pc \notin {"claimed", "settle", "record", "stored"}
    BY <1>1 DEF Active, Resting, Calling
  <1>5. ~rd.bounce  BY <1>4 DEF BounceInv, BounceIsEntered
  <1>6. orb.checkpoint <= orb'.checkpoint  BY <1>1, CheckpointFacts
  <1>7. QED  BY <1>1, <1>2, <1>3, <1>4, <1>5, <1>6, InsideKeepsBounces

LEMMA RoundsKeepBounces ==
    ASSUME TypeInv, TypeInv', BounceInv, PathInv, ApplyRound \/ ReviewDeclines
    PROVE  BounceInv'
  <1>1. orb \in Orb /\ rd \in Round  BY TypeFacts DEF CopyOK
  <1>2. CASE ApplyRound
    <2>1. /\ UNCHANGED <<cfg, disk, bounces>> /\ pc \in {"main", "round", "roundRepair"}
          /\ pc' \in {"review", "round"}
      BY <1>2 DEF ApplyRound, Judging, Returned, Leave, Call, Goto, history
    <2>2. PICK touched, complete \in BOOLEAN, changed \in BOOLEAN :
            LET final == FinalRound(changed, complete)
                reason == IF final THEN "final" ELSE "continues"
            IN  /\ orb' = [orb EXCEPT !.edits = rd.round,
                                      !.checkpoint = IF touched THEN Len(ledger) + 1 ELSE @]
                /\ ledger' = Append(ledger, [round |-> rd.round, reason |-> reason])
                /\ IF final
                   THEN rd' = [rd EXCEPT !.reason = "final", !.before = orb.edits]
                   ELSE rd' = [rd EXCEPT !.round = @ + 1, !.attempt = 1]
      BY <1>2 DEF ApplyRound
    <2>3. \E e \in Diagnostics(MaxRound) : ledger' = Append(ledger, e)
      <3>1. \A reason \in {"final", "continues"} :
               [round |-> rd.round, reason |-> reason] \in Diagnostics(MaxRound)
        BY TypeFacts DEF Diagnostics, Reasons
      <3>2. QED  BY <2>2, <3>1
    <2>4. orb'.checkpoint \in {orb.checkpoint, Len(ledger) + 1}  BY <1>1, <2>2 DEF Orb
    <2>5. orb.checkpoint <= orb'.checkpoint  BY <2>4, CheckpointFacts
    <2>6. rd'.quality = rd.quality /\ rd'.bounce = rd.bounce
      <3>1. CASE rd' = [rd EXCEPT !.reason = "final", !.before = orb.edits]
        BY <1>1, <3>1 DEF Round
      <3>2. CASE rd' = [rd EXCEPT !.round = @ + 1, !.attempt = 1]  BY <1>1, <3>2 DEF Round
      <3>3. QED  BY <2>2, <3>1, <3>2
    <2>7. Active /\ ~rd.bounce  BY <2>1 DEF Active, Resting, BounceInv, BounceIsEntered
    <2>8. QED  BY <2>1, <2>3, <2>5, <2>6, <2>7, InsideKeepsBounces
  <1>3. CASE ReviewDeclines
    <2>1. /\ UNCHANGED <<cfg, disk, bounces, ledger>> /\ pc = "review" /\ pc' = "record"
      BY <1>3 DEF ReviewDeclines, Goto, durable, history
    <2> DEFINE again == rd.quality < cfg.reviews
               edits == IF again /\ rd.before # -1 THEN rd.before ELSE orb.edits
    <2>2. PICK reason \in Rejected :
            /\ rd' = [rd EXCEPT !.reason = reason, !.bounce = again]
            /\ orb' = [orb EXCEPT !.edits = edits]
      BY <1>3 DEF ReviewDeclines
    <2>3. again => rd.quality < cfg.reviews  OBVIOUS
    <2> HIDE DEF again, edits
    <2>4. rd'.quality = rd.quality /\ rd'.bounce = again /\ rd'.reason \in Rejected
      BY <1>1, <2>2 DEF Round
    <2>5. orb'.checkpoint = orb.checkpoint  BY <1>1, <2>2 DEF Orb
    <2>6. orb.checkpoint <= orb'.checkpoint  BY <2>5, CheckpointFacts
    <2>7. Active /\ Refining
      BY <2>1 DEF Active, Resting, PathInv, OnTheWay, RoundPlaces
    <2>8. QED  BY <2>1, <2>3, <2>4, <2>6, <2>7, InsideKeepsBounces
  <1>4. QED  BY <1>2, <1>3

LEMMA AdmitKeepsBounces ==
    ASSUME TypeInv, TypeInv', BounceInv, Admit  PROVE BounceInv'
  <1>1. /\ UNCHANGED <<cfg, disk, ledger, bounces>>
        /\ pc = "claimed" /\ pc' \in {"snapshot", "main"} /\ orb' = disk /\ rd' = FirstRound
    BY DEF Admit, Leave, Call, Goto, history
  <1>2. rd'.quality = QualityRejections(ledger, disk.checkpoint) + 1 /\ ~rd'.bounce
    BY <1>1, FirstRoundIsNext
  <1>3. BouncesAreLedgered' /\ BouncesAreBounded'
    BY <1>1 DEF BounceInv, BouncesAreLedgered, BouncesAreBounded
  <1>4. CountingGoesOn'
    BY <1>1, <1>2, CheckpointFacts DEF BounceInv, BouncesAreLedgered, CountingGoesOn
  <1>5. BounceIsEntered'  BY <1>1, <1>2 DEF BounceIsEntered
  <1>6. QED  BY <1>3, <1>4, <1>5 DEF BounceInv

LEMMA RecordKeepsBounces ==
    ASSUME TypeInv, TypeInv', BounceInv, Record  PROVE BounceInv'
  <1>1. /\ UNCHANGED <<cfg, disk, orb, out, rd, bounces>> /\ pc = "record" /\ pc' = "settle"
        /\ ledger' = IF Refining THEN Append(ledger, [round |-> rd.round, reason |-> rd.reason])
                     ELSE ledger
    BY DEF Record, Goto, local, history
  <1> DEFINE d == [round |-> rd.round, reason |-> rd.reason]
  <1>2. d \in Diagnostics(MaxRound) /\ d.reason = rd.reason  BY TypeFacts DEF Diagnostics
  <1> HIDE DEF d
  <1>3. ledger' = IF Refining THEN Append(ledger, d) ELSE ledger  BY <1>1 DEF d
  <1>4. /\ ledger \in Seq(Diagnostics(MaxRound)) /\ disk.checkpoint \in 0..Len(ledger)
        /\ Len(ledger) \in Nat /\ disk.checkpoint \in Nat
    BY CheckpointFacts
  <1>5. QualityRejections(Append(ledger, d), disk.checkpoint)
            = QualityRejections(ledger, disk.checkpoint)
    BY <1>2, <1>4, RejectionsOfPrefix
  <1>6. BouncesAreLedgered' /\ BouncesAreBounded'
    BY <1>1, <1>3, <1>5 DEF BounceInv, BouncesAreLedgered, BouncesAreBounded
  <1>7. CountingGoesOn'  BY <1>1 DEF BounceInv, CountingGoesOn, Active, Resting
  <1>8. Refining => disk.checkpoint < Len(ledger') /\ ledger'[Len(ledger')].reason = rd.reason
    BY <1>2, <1>3, <1>4, LedgerAppend
  <1>9. BounceIsEntered'
    BY <1>1, <1>8 DEF BounceInv, BounceIsEntered, Refining
  <1>10. QED  BY <1>6, <1>7, <1>9 DEF BounceInv

LEMMA SettleKeepsBounces ==
    ASSUME TypeInv, TypeInv', BounceInv, Settle  PROVE BounceInv'
  <1> USE CheckpointFacts
  <1>1. /\ UNCHANGED <<cfg, orb, out, rd, ledger>> /\ pc = "settle" /\ pc' = "stored"
        /\ bounces' = IF out \in Done /\ rd.bounce THEN bounces + 1 ELSE bounces
    BY DEF Settle, Goto, local
  <1>2. PICK st \in Landing :
          disk' = [orb EXCEPT !.st = st, !.checkpoint = IF out = "aborted" THEN @ ELSE Len(ledger)]
    BY DEF Settle
  <1>3. orb \in Orb  BY TypeFacts DEF CopyOK
  <1>4. disk'.checkpoint = IF out = "aborted" THEN orb.checkpoint ELSE Len(ledger)
    BY <1>2, <1>3 DEF Orb
  <1>5. disk.checkpoint <= orb.checkpoint /\ bounces + 1 <= rd.quality
    BY <1>1 DEF BounceInv, CountingGoesOn, Active, Resting
  <1>6. disk.checkpoint <= disk'.checkpoint /\ disk'.checkpoint \in Nat  BY <1>4, <1>5
  <1>7. QualityRejections(ledger, disk.checkpoint) <= QualityRejections(ledger, disk'.checkpoint)
    BY <1>6, RejectionsGrow
  <1>8. QualityRejections(ledger, disk'.checkpoint) \in Nat  BY <1>6, RejectionsAreFinite
  <1>9. BouncesAreLedgered' /\ BouncesAreBounded'
    <2>1. bounces <= QualityRejections(ledger, disk.checkpoint)
      BY DEF BounceInv, BouncesAreLedgered
    <2>2. CASE out \in Done /\ rd.bounce
      <3>1. disk'.checkpoint = Len(ledger)  BY <1>4, <2>2 DEF Done
      <3>2. /\ Refining /\ rd.quality < cfg.reviews /\ rd.reason \in Rejected
            /\ disk.checkpoint < Len(ledger) /\ ledger[Len(ledger)].reason \in Rejected
        BY <1>1, <2>2 DEF BounceInv, BounceIsEntered
      <3>3. QualityRejections(ledger, disk.checkpoint) + 1
                <= QualityRejections(ledger, Len(ledger))
        BY <3>2, RejectionCounts
      <3>4. bounces' = bounces + 1  BY <1>1, <2>2
      <3>5. bounces' <= QualityRejections(ledger, disk'.checkpoint)
        BY <1>8, <2>1, <3>1, <3>3, <3>4
      <3>6. bounces' < cfg.reviews  BY <1>5, <3>2, <3>4
      <3>7. QED  BY <1>1, <3>5, <3>6 DEF BouncesAreLedgered, BouncesAreBounded
    <2>3. CASE ~(out \in Done /\ rd.bounce)
      <3>1. bounces' = bounces  BY <1>1, <2>3
      <3>2. bounces <= QualityRejections(ledger, disk'.checkpoint)  BY <1>7, <1>8, <2>1
      <3>3. QED
        BY <1>1, <3>1, <3>2 DEF BounceInv, BouncesAreLedgered, BouncesAreBounded
    <2>4. QED  BY <2>2, <2>3
  <1>10. CountingGoesOn'  BY <1>1 DEF CountingGoesOn, Active
  <1>11. BounceIsEntered'  BY <1>1 DEF BounceInv, BounceIsEntered, Refining
  <1>12. QED  BY <1>9, <1>10, <1>11 DEF BounceInv

LEMMA AroundKeepsBounces ==
    ASSUME TypeInv, TypeInv', ClaimInv, BounceInv,
           \/ Claim \/ Refuse \/ Release \/ CallIsFatal \/ EpisodeError \/ Crash
           \/ ArchiveClaim \/ Stop \/ Restart \/ WorkerExits \/ Redo \/ UNCHANGED evars
    PROVE  BounceInv'
  <1> USE DEF Goto, Drop, ladder, local, durable, history, budget
  <1>1. UNCHANGED <<cfg, ledger, bounces>>
    BY DEF Claim, Refuse, Release, CallIsFatal, EpisodeError, Crash, ArchiveClaim, Stop, Restart,
           WorkerExits, Redo, evars
  <1>2. BouncesAreBounded'  BY <1>1 DEF BounceInv, BouncesAreBounded
  <1>3. CASE Redo
    <2>1. /\ UNCHANGED <<pc, orb, rd>> /\ disk.st \in {"failed", "review"}
          /\ disk' = [disk EXCEPT !.st = cfg.target, !.checkpoint = Len(ledger)]
      BY <1>3 DEF Redo
    <2>2. disk \in Orb  BY TypeFacts DEF StoreOK
    <2>3. disk'.checkpoint = Len(ledger)  BY <2>1, <2>2 DEF Orb
    <2>4. QualityRejections(ledger, disk.checkpoint) <= QualityRejections(ledger, Len(ledger))
      BY CheckpointFacts, RejectionsGrow
    <2>5. QualityRejections(ledger, Len(ledger)) \in Nat
      BY CheckpointFacts, RejectionsAreFinite
    <2>6. BouncesAreLedgered'
      BY <1>1, <2>3, <2>4, <2>5, CheckpointFacts DEF BounceInv, BouncesAreLedgered
    <2>7. ~Active
      <3>1. cfg.target \in Targets  BY TypeFacts, ConfigTypes
      <3>2. QED  BY <2>1, <3>1 DEF ClaimInv, Targets, Structured
    <2>8. CountingGoesOn' /\ BounceIsEntered'
      BY <1>1, <2>1, <2>7 DEF BounceInv, CountingGoesOn, BounceIsEntered, Active, Refining,
                              Resting
    <2>9. QED  BY <1>2, <2>6, <2>8 DEF BounceInv
  <1>4. CASE ~Redo
    <2>1. UNCHANGED disk
      BY <1>4 DEF Claim, Refuse, Release, CallIsFatal, EpisodeError, Crash, ArchiveClaim, Stop,
                  Restart, WorkerExits, evars
    <2>2. BouncesAreLedgered'  BY <1>1, <2>1 DEF BounceInv, BouncesAreLedgered
    <2>3. \/ pc' \in {"free", "held"} /\ rd' = NoRound
          \/ pc \in Resting \cup {"claimed"} /\ pc' \in {"claimed", "free"} /\ rd' = rd
          \/ UNCHANGED <<pc, orb, rd>>
      BY <1>4 DEF Claim, Refuse, Release, CallIsFatal, EpisodeError, Crash, ArchiveClaim, Stop,
                  Restart, WorkerExits, Forget, Resting, evars
    <2>4. ~NoRound.bounce  BY DEF NoRound
    <2>5. CountingGoesOn'
      BY <1>1, <2>1, <2>3 DEF BounceInv, CountingGoesOn, Active, Resting
    <2>6. BounceIsEntered'
      BY <1>1, <2>1, <2>3, <2>4 DEF BounceInv, BounceIsEntered, Resting, Refining
    <2>7. QED  BY <1>2, <2>2, <2>5, <2>6 DEF BounceInv
  <1>5. QED  BY <1>3, <1>4

\* The ledger holds, up to the checkpoint of the stored orb, a rejection for every
\* time the specification was sent back: that is what the next review counts from.
THEOREM BouncesAreCounted == Spec => []BounceInv
  <1>1. Init => BounceInv
    <2>1. SUFFICES ASSUME Init PROVE BounceInv  OBVIOUS
    <2>2. pc = "free" /\ bounces = 0 /\ ledger = <<>> /\ disk = NoCopy /\ ~rd.bounce
      BY <2>1 DEF Init, NoRound
    <2>3. disk.checkpoint \in Nat  BY <2>2 DEF NoCopy
    <2>4. QualityRejections(ledger, disk.checkpoint) \in Nat  BY <2>3, RejectionsAreFinite
    <2>5. QED
      BY <2>2, <2>4 DEF BounceInv, BouncesAreLedgered, CountingGoesOn, BounceIsEntered,
                        BouncesAreBounded, Active, Resting
  <1>2. TypeInv /\ TypeInv' /\ ClaimInv /\ PathInv /\ BounceInv /\ [Next]_evars => BounceInv'
    BY QuietKeepsBounces, RoundsKeepBounces, AdmitKeepsBounces, RecordKeepsBounces,
       SettleKeepsBounces, AroundKeepsBounces
    DEF Next, EpisodeStep, Rounds, Disturbance
  <1>3. QED
    BY <1>1, <1>2, RoundsStayBounded, ClaimIsInvariant, PathIsInvariant, PTL DEF Spec

\* Automatic reviews send a specification back less often than the configured
\* number of review attempts, over all its episodes, crashes and revisions.
THEOREM BouncesStayBounded == Spec => []BouncesAreBounded
  <1>1. BounceInv => BouncesAreBounded  BY DEF BounceInv
  <1>2. QED  BY <1>1, BouncesAreCounted, PTL

-----------------------------------------------------------------------------
(* Resuming.  As long as no episode is lost and every applied round moves the   *)
(* checkpoint, the ledger credits exactly the rounds the text includes, or so   *)
(* many rejections that no later review may send the specification back.       *)

Credited(c) == CompletedRound(ledger, c)
ResumesAt(copy) == Credited(copy.checkpoint) = copy.edits /\ Credited(Len(ledger)) = copy.edits

\* The diagnostics of other rounds credit less than round r.
OthersBelow(l, r) ==
    \A i \in LatestOfRounds(l, Len(l)) : l[i].round # r => Credit(l[i]) <= r - 1

Exhausted == cfg.reviews <= QualityRejections(ledger, disk.checkpoint)
Entry == [round |-> rd.round, reason |-> rd.reason]

\* A text under review: its last round was applied, or repaired in vain.
Candidate ==
    /\ OthersBelow(ledger, rd.round)
    /\ \/ rd.reason = "final" /\ orb.edits = rd.round /\ rd.before = rd.round - 1
       \/ rd.reason = "worker_failed" /\ orb.edits = rd.round - 1 /\ rd.before = -1

HeldForHuman == rd.reason \in Rejected /\ ~rd.bounce /\ cfg.reviews <= rd.quality

AbortedAtRound == out = "aborted" => Credited(orb.checkpoint) = orb.edits

Concluded ==
    OthersBelow(ledger, rd.round) /\ Credit(Entry) = orb.edits /\ AbortedAtRound

QualityIsCount ==
    (Active /\ pc # "claimed") => rd.quality = QualityRejections(ledger, disk.checkpoint) + 1

VerdictsBelong ==
    /\ rd.reason \in Rejected => pc \in {"record", "settle", "stored"} /\ out \in Done
    /\ pc = "review" => out \in Done
    /\ pc = "held" => lost
    /\ pc = "snapshot" => ~Refining

Untainted == ~lost /\ Refining /\ cfg.stopUnchanged

RoundsAreCredited ==
    /\ pc \in {"free", "claimed"} => ResumesAt(disk) \/ Exhausted
    /\ pc \in Calling \cup {"roundBackoff"} =>
          Exhausted \/ (ResumesAt(orb) /\ rd.round = orb.edits + 1 /\ rd.before = -1)
    /\ pc = "review" => Exhausted \/ Candidate
    /\ pc = "record" => Exhausted \/ HeldForHuman \/ Concluded
    /\ pc = "settle" =>
          Exhausted \/ HeldForHuman \/ (Credited(Len(ledger)) = orb.edits /\ AbortedAtRound)
    /\ pc = "stored" => ResumesAt(disk) \/ (Exhausted /\ ~rd.bounce)

ResumeInv == QualityIsCount /\ VerdictsBelong /\ (Untainted => RoundsAreCredited)

LEMMA LatestOfAppend ==
    ASSUME NEW B \in Nat, NEW l \in Seq(Diagnostics(B)), NEW d \in Diagnostics(B)
    PROVE  LatestOfRounds(Append(l, d), Len(l) + 1)
               = {Len(l) + 1} \cup {i \in LatestOfRounds(l, Len(l)) : l[i].round # d.round}
  <1> DEFINE m == Append(l, d)
             n == Len(l)
  <1>1. n \in Nat /\ m[n + 1] = d /\ \A i \in 1..n : m[i] = l[i]  BY LedgerAppend
  <1> HIDE DEF m
  <1>2. 1..(n + 1) = 1..n \cup {n + 1} /\ n + 1 \notin 1..n  BY <1>1
  <1> HIDE DEF n
  <1>3. n + 1 \in LatestOfRounds(m, n + 1)  BY <1>1, <1>2 DEF LatestOfRounds
  <1>4. ASSUME NEW i \in 1..n
        PROVE  i \in LatestOfRounds(m, n + 1) <=> i \in LatestOfRounds(l, n) /\ l[i].round # d.round
    <2>1. i \in Nat /\ ~(n + 1 <= i)  BY <1>1
    <2>2. i \in LatestOfRounds(m, n + 1) <=>
             \A j \in 1..(n + 1) : m[j].round = m[i].round => j <= i
      BY <1>2 DEF LatestOfRounds
    <2>3. i \in LatestOfRounds(l, n) <=> \A j \in 1..n : l[j].round = l[i].round => j <= i
      BY DEF LatestOfRounds
    <2>4. m[i] = l[i]  BY <1>1
    <2>5. (\A j \in 1..(n + 1) : m[j].round = m[i].round => j <= i) <=>
             /\ \A j \in 1..n : l[j].round = l[i].round => j <= i
             /\ d.round = l[i].round => n + 1 <= i
      BY <1>1, <1>2, <2>4
    <2>6. QED  BY <2>1, <2>2, <2>3, <2>5
  <1>5. LatestOfRounds(m, n + 1) \subseteq 1..n \cup {n + 1} /\ LatestOfRounds(l, n) \subseteq 1..n
    BY <1>2 DEF LatestOfRounds
  <1>6. LatestOfRounds(m, n + 1)
            = {n + 1} \cup {i \in LatestOfRounds(l, n) : l[i].round # d.round}
    BY <1>3, <1>4, <1>5
  <1>7. QED  BY <1>6 DEF m, n

\* Entering a diagnostic of round r, where the other rounds are below: the ledger
\* credits what the new entry does.
LEMMA EntryIsCredited ==
    ASSUME NEW B \in Nat, NEW l \in Seq(Diagnostics(B)), NEW d \in Diagnostics(B),
           OthersBelow(l, d.round)
    PROVE  /\ CompletedRound(Append(l, d), Len(l) + 1) = Credit(d)
           /\ OthersBelow(Append(l, d), d.round)
  <1> DEFINE m == Append(l, d)
             n == Len(l)
             S == LatestOfRounds(m, n + 1)
  <1>1. n \in Nat /\ m[n + 1] = d /\ Len(m) = n + 1 /\ m \in Seq(Diagnostics(B))
        /\ \A i \in 1..n : m[i] = l[i]
    BY LedgerAppend
  <1>2. S = {n + 1} \cup {i \in LatestOfRounds(l, n) : l[i].round # d.round}
    BY LatestOfAppend
  <1>3. LatestOfRounds(l, n) \subseteq 1..n  BY DEF LatestOfRounds
  <1>4. d.round \in 1..B /\ Credit(d) \in {d.round, d.round - 1}
    BY DEF Diagnostics, Credit
  <1> HIDE DEF m, n
  <1>5. \A i \in S : i = n + 1 \/ (m[i] = l[i] /\ Credit(l[i]) <= d.round - 1)
    BY <1>1, <1>2, <1>3 DEF OthersBelow, n
  <1>6. \A i \in S : Credit(m[i]) \in Int
    <2>1. n + 1 \in 0..Len(m)  BY <1>1
    <2>2. \A i \in 1..(n + 1) : Credit(m[i]) \in {m[i].round, m[i].round - 1} /\ m[i].round \in 1..B
      BY <1>1, <2>1, CreditsAreRounds
    <2>3. S \subseteq 1..(n + 1)  BY DEF LatestOfRounds
    <2>4. QED  BY <2>2, <2>3
  <1>7. \A y \in Credits(m, n + 1) : y <= Credit(d)
    <2>1. 0 <= Credit(d) /\ d.round - 1 <= Credit(d)  BY <1>4
    <2>2. \A i \in S : Credit(m[i]) <= Credit(d)  BY <1>1, <1>4, <1>5, <1>6, <2>1
    <2>3. QED  BY <2>1, <2>2 DEF Credits
  <1>8. Credit(d) \in Credits(m, n + 1)  BY <1>1, <1>2 DEF Credits
  <1>9. n + 1 \in 0..Len(m)  BY <1>1
  <1>10. /\ CompletedRound(m, n + 1) \in Credits(m, n + 1)
         /\ CompletedRound(m, n + 1) >= Credit(d) /\ CompletedRound(m, n + 1) \in 0..B
    BY <1>1, <1>8, <1>9, CompletedRoundIsMax
  <1>11. CompletedRound(m, n + 1) = Credit(d)  BY <1>4, <1>7, <1>10
  <1>12. OthersBelow(m, d.round)  BY <1>1, <1>5 DEF OthersBelow
  <1>13. QED  BY <1>11, <1>12 DEF m, n

\* What is entered after a checkpoint does not change what is credited up to it.
LEMMA CompletedOfPrefix ==
    ASSUME NEW S, NEW l \in Seq(S), NEW e \in S, NEW c \in 0..Len(l)
    PROVE  CompletedRound(Append(l, e), c) = CompletedRound(l, c)
  <1> DEFINE m == Append(l, e)
  <1>1. \A i \in 1..c : m[i] = l[i]  OBVIOUS
  <1> HIDE DEF m
  <1>2. LatestOfRounds(m, c) = LatestOfRounds(l, c) /\ LatestOfRounds(l, c) \subseteq 1..c
    BY <1>1 DEF LatestOfRounds
  <1>3. {Credit(m[i]) : i \in LatestOfRounds(m, c)} = {Credit(l[i]) : i \in LatestOfRounds(l, c)}
    BY <1>1, <1>2
  <1>4. CompletedRound(m, c) = CompletedRound(l, c)  BY <1>3 DEF CompletedRound
  <1>5. QED  BY <1>4 DEF m

\* When the ledger credits the round before r, every other round is below r.
LEMMA OthersAreBelow ==
    ASSUME TypeInv, NEW r \in Int, Credited(Len(ledger)) = r - 1
    PROVE  OthersBelow(ledger, r)
  <1>1. /\ ledger \in Seq(Diagnostics(MaxRound)) /\ MaxRound \in Nat
        /\ Len(ledger) \in 0..Len(ledger)
    BY CheckpointFacts, TypeFacts
  <1>2. \A y \in Credits(ledger, Len(ledger)) : CompletedRound(ledger, Len(ledger)) >= y
    BY <1>1, CompletedRoundIsMax
  <1>3. \A i \in LatestOfRounds(ledger, Len(ledger)) :
           Credit(ledger[i]) \in Credits(ledger, Len(ledger))
    BY DEF Credits
  <1>4. \A y \in Credits(ledger, Len(ledger)) : y \in Int
    BY <1>1, CreditsAreRounds
  <1>5. QED  BY <1>2, <1>3, <1>4 DEF OthersBelow, Credited

LEMMA CountIsKept ==
    ASSUME TypeInv, ResumeInv, UNCHANGED disk, Active, pc # "claimed", rd'.quality = rd.quality,
           ledger' = ledger \/ \E e \in Diagnostics(MaxRound) : ledger' = Append(ledger, e)
    PROVE  QualityIsCount'
  <1>1. disk.checkpoint \in 0..Len(ledger) /\ ledger \in Seq(Diagnostics(MaxRound))
    BY CheckpointFacts
  <1>2. QualityRejections(ledger', disk.checkpoint) = QualityRejections(ledger, disk.checkpoint)
    <2>1. CASE ledger' = ledger  BY <2>1
    <2>2. CASE \E e \in Diagnostics(MaxRound) : ledger' = Append(ledger, e)
      <3>1. PICK e \in Diagnostics(MaxRound) : ledger' = Append(ledger, e)  BY <2>2
      <3>2. QualityRejections(Append(ledger, e), disk.checkpoint)
                = QualityRejections(ledger, disk.checkpoint)
        BY <1>1, RejectionsOfPrefix
      <3>3. QED  BY <3>1, <3>2
    <2>3. QED  BY <2>1, <2>2
  <1>3. QED  BY <1>2 DEF ResumeInv, QualityIsCount

\* No verdict before the review.
LEMMA NoVerdictYet ==
    ASSUME ResumeInv, rd'.reason = rd.reason \/ rd'.reason \notin Rejected,
           pc \notin {"record", "settle", "stored"}, pc' \notin {"held", "snapshot"},
           pc' = "review" => out' \in Done
    PROVE  VerdictsBelong'
  BY DEF ResumeInv, VerdictsBelong

LEMMA OtherTargetsKeepResume ==
    ASSUME TypeInv, PathInv, ResumeInv,
           \/ SnapshotTaken \/ SnapshotFails \/ RetryMain \/ MainEnds \/ BackoffElapses
           \/ BackoffStops \/ Repaired \/ RepairFails \/ FreshFails \/ Verify
    PROVE  ResumeInv'
  <1> USE DEF Goto, Call, Leave, local, durable, Fault
  <1>1. /\ UNCHANGED <<cfg, disk, ledger, rd>>
        /\ pc \in Calling \cup {"snapshot", "backoff", "verify"}
        /\ pc' \notin {"held", "snapshot", "review"}
    BY DEF SnapshotTaken, SnapshotFails, RetryMain, MainEnds, BackoffElapses, BackoffStops,
           Repaired, RepairFails, FreshFails, Verify, Returned, Calling, AfterCall
  <1>2. ~Refining
    BY TargetIsOpen
    DEF SnapshotTaken, SnapshotFails, RetryMain, MainEnds, BackoffElapses, BackoffStops, Repaired,
        RepairFails, FreshFails, Verify, Returned, PathInv, OnTheWay, RepairPlaces, ResumeInv,
        VerdictsBelong
  <1>3. Active /\ pc \notin {"claimed", "record", "settle", "stored"}
    BY <1>1 DEF Active, Resting, Calling
  <1>4. QualityIsCount'  BY <1>1, <1>3, CountIsKept
  <1>5. VerdictsBelong'  BY <1>1, <1>3, NoVerdictYet
  <1>6. QED  BY <1>1, <1>2, <1>4, <1>5 DEF ResumeInv, Untainted, Refining

\* Steps within the rounds that touch neither the text nor the ledger.
LEMMA WithinRoundsKeepResume ==
    ASSUME TypeInv, ResumeInv,
           Work \/ WorkFails \/ RepairRound \/ RoundBackoffElapses \/ RetryRound
    PROVE  ResumeInv'
  <1> USE DEF Goto, Call, Leave, local, durable, history
  <1>1. /\ UNCHANGED <<cfg, disk, ledger, orb, lost>>
        /\ pc \in Calling \cup {"roundBackoff"} /\ pc' \in Calling \cup {"roundBackoff"}
    BY DEF Work, WorkFails, RepairRound, RoundBackoffElapses, RetryRound, Judging, Returned,
           RoundFailed, Calling
  <1>2. /\ rd'.quality = rd.quality /\ rd'.round = rd.round /\ rd'.before = rd.before
        /\ rd'.reason = rd.reason
    <2>1. CASE RetryRound
      <3>1. rd \in Round  BY TypeFacts DEF CopyOK
      <3>2. QED  BY <2>1, <3>1 DEF RetryRound, Round
    <2>2. CASE ~RetryRound
      BY <2>2 DEF Work, WorkFails, RepairRound, RoundBackoffElapses
    <2>3. QED  BY <2>1, <2>2
  <1>3. Active /\ pc \notin {"claimed", "record", "settle", "stored"}
    BY <1>1 DEF Active, Resting, Calling
  <1>4. QualityIsCount'  BY <1>1, <1>2, <1>3, CountIsKept
  <1>5. VerdictsBelong'  BY <1>1, <1>2, <1>3, NoVerdictYet DEF Calling
  <1>6. Untainted' => RoundsAreCredited'
    <2>1. SUFFICES ASSUME Untainted' PROVE RoundsAreCredited'  OBVIOUS
    <2>2. RoundsAreCredited  BY <1>1, <2>1 DEF ResumeInv, Untainted, Refining
    <2>3. Exhausted' = Exhausted /\ ResumesAt(orb)' = ResumesAt(orb)
      BY <1>1 DEF Exhausted, ResumesAt, Credited
    <2>4. QED  BY <1>1, <1>2, <2>2, <2>3 DEF RoundsAreCredited, Calling
  <1>7. QED  BY <1>4, <1>5, <1>6 DEF ResumeInv

\* A round given up: the text under review, or the outcome to record, has the
\* rounds before it.
LEMMA GivenUpKeepsResume ==
    ASSUME TypeInv, ResumeInv, GiveUpRound \/ RoundBackoffStops
    PROVE  ResumeInv'
  <1> USE DEF Goto, Call, Leave, durable, history, ladder
  <1>1. /\ UNCHANGED <<cfg, disk, ledger, orb, lost>>
        /\ pc \in Calling \cup {"roundBackoff"} /\ pc' = AfterRounds(out')
        /\ rd' = [rd EXCEPT !.reason = "worker_failed"]
    BY DEF GiveUpRound, RoundBackoffStops, Judging, Returned, RoundFailed, Calling
  <1>2. rd \in Round  BY TypeFacts DEF CopyOK
  <1>3. /\ rd'.quality = rd.quality /\ rd'.round = rd.round /\ rd'.before = rd.before
        /\ rd'.reason = "worker_failed" /\ rd'.reason \notin Rejected
    BY <1>1, <1>2 DEF Round, Rejected
  <1>4. Active /\ pc \notin {"claimed", "record", "settle", "stored"}
    BY <1>1 DEF Active, Resting, Calling
  <1>5. pc' \in {"record", "review"} /\ (pc' = "review" => out' \in Done)
    BY <1>1 DEF AfterRounds
  <1>6. QualityIsCount'  BY <1>1, <1>3, <1>4, CountIsKept
  <1>7. VerdictsBelong'  BY <1>3, <1>4, <1>5, NoVerdictYet
  <1>8. Untainted' => RoundsAreCredited'
    <2>1. SUFFICES ASSUME Untainted', ~Exhausted PROVE Candidate' /\ Concluded'
      <3>1. Exhausted' = Exhausted  BY <1>1 DEF Exhausted
      <3>2. QED  BY <1>5, <3>1 DEF RoundsAreCredited, Calling
    <2>2. ResumesAt(orb) /\ rd.round = orb.edits + 1 /\ rd.before = -1
      BY <1>1, <2>1 DEF ResumeInv, Untainted, Refining, RoundsAreCredited
    <2>3. orb.edits \in Nat /\ rd.round \in Nat  BY TypeFacts DEF CopyOK, Orb
    <2>4. Credited(Len(ledger)) = rd.round - 1 /\ orb.edits = rd.round - 1
      BY <2>2, <2>3 DEF ResumesAt
    <2>5. OthersBelow(ledger, rd.round)  BY <2>3, <2>4, OthersAreBelow
    <2>6. Candidate'  BY <1>1, <1>3, <2>2, <2>4, <2>5 DEF Candidate
    <2>7. Entry'.round = rd.round /\ Entry'.reason = "worker_failed"  BY <1>3 DEF Entry
    <2>8. Credit(Entry') = orb.edits  BY <2>4, <2>7 DEF Credit, Unapplied
    <2>9. AbortedAtRound'  BY <1>1, <2>2 DEF AbortedAtRound, ResumesAt, Credited
    <2>10. QED  BY <1>1, <1>3, <2>5, <2>6, <2>8, <2>9 DEF Concluded
  <1>9. QED  BY <1>6, <1>7, <1>8 DEF ResumeInv

\* An applied round is credited when it is entered.
LEMMA ApplyRoundKeepsResume ==
    ASSUME TypeInv, TypeInv', ResumeInv, ApplyRound
    PROVE  ResumeInv'
  <1>1. /\ UNCHANGED <<cfg, disk, lost>> /\ pc \in {"main", "round", "roundRepair"}
        /\ out' = "good"
    BY DEF ApplyRound, Judging, Returned, Leave, Call, Goto, history
  <1>2. PICK touched, complete \in BOOLEAN : \E changed \in IF touched THEN BOOLEAN ELSE {FALSE} :
          LET final == FinalRound(changed, complete)
              reason == IF final THEN "final" ELSE "continues"
          IN  /\ orb' = [orb EXCEPT !.edits = rd.round,
                                    !.checkpoint = IF touched THEN Len(ledger) + 1 ELSE @]
              /\ ledger' = Append(ledger, [round |-> rd.round, reason |-> reason])
              /\ IF final
                 THEN /\ rd' = [rd EXCEPT !.reason = "final", !.before = orb.edits]
                      /\ pc' = "review"
                 ELSE /\ rd' = [rd EXCEPT !.round = @ + 1, !.attempt = 1]
                      /\ pc' = "round"
    BY DEF ApplyRound, Leave, Call, Goto
  <1>3. PICK changed \in IF touched THEN BOOLEAN ELSE {FALSE} :
          LET final == FinalRound(changed, complete)
              reason == IF final THEN "final" ELSE "continues"
          IN  /\ orb' = [orb EXCEPT !.edits = rd.round,
                                    !.checkpoint = IF touched THEN Len(ledger) + 1 ELSE @]
              /\ ledger' = Append(ledger, [round |-> rd.round, reason |-> reason])
              /\ IF final
                 THEN /\ rd' = [rd EXCEPT !.reason = "final", !.before = orb.edits]
                      /\ pc' = "review"
                 ELSE /\ rd' = [rd EXCEPT !.round = @ + 1, !.attempt = 1]
                      /\ pc' = "round"
    BY <1>2
  <1> DEFINE final == FinalRound(changed, complete)
             d == [round |-> rd.round, reason |-> IF final THEN "final" ELSE "continues"]
  <1>4. orb \in Orb /\ rd \in Round /\ orb.edits \in Nat /\ rd.round \in Nat /\ rd.round >= 1
    BY TypeFacts DEF CopyOK, Orb
  <1>5. d.round = rd.round /\ Credit(d) = rd.round /\ d \in Diagnostics(MaxRound)
    BY TypeFacts DEF Credit, Unapplied, Rejected, Diagnostics, Reasons
  <1>6. cfg.stopUnchanged /\ ~final => touched  BY <1>3 DEF FinalRound
  <1> HIDE DEF d, final
  <1>7. ledger' = Append(ledger, d)  BY <1>3 DEF d, final
  <1>8. orb'.edits = rd.round /\ (touched => orb'.checkpoint = Len(ledger) + 1)
    BY <1>3, <1>4 DEF Orb
  <1>9. /\ final => /\ rd'.reason = "final" /\ rd'.before = orb.edits /\ rd'.round = rd.round
                    /\ rd'.quality = rd.quality /\ pc' = "review"
        /\ ~final => /\ rd'.reason = rd.reason /\ rd'.before = rd.before
                     /\ rd'.round = rd.round + 1 /\ rd'.quality = rd.quality /\ pc' = "round"
    <2>1. CASE final
      <3>1. rd' = [rd EXCEPT !.reason = "final", !.before = orb.edits] /\ pc' = "review"
        BY <1>3, <2>1 DEF final
      <3>2. QED  BY <1>4, <2>1, <3>1 DEF Round
    <2>2. CASE ~final
      <3>1. rd' = [rd EXCEPT !.round = @ + 1, !.attempt = 1] /\ pc' = "round"
        BY <1>3, <2>2 DEF final
      <3>2. QED  BY <1>4, <2>2, <3>1 DEF Round
    <2>3. QED  BY <2>1, <2>2
  <1>10. Active /\ pc \notin {"claimed", "record", "settle", "stored"} /\ pc \in Calling
    BY <1>1 DEF Active, Resting, Calling
  <1>11. QualityIsCount'  BY <1>1, <1>5, <1>7, <1>9, <1>10, CountIsKept
  <1>12. VerdictsBelong'  BY <1>1, <1>9, <1>10, NoVerdictYet DEF Done, Rejected
  <1>13. Untainted' => RoundsAreCredited'
    <2>1. /\ ledger \in Seq(Diagnostics(MaxRound)) /\ MaxRound \in Nat /\ Len(ledger) \in Nat
          /\ disk.checkpoint \in 0..Len(ledger)
      BY CheckpointFacts, TypeFacts
    <2>2. Exhausted' = Exhausted
      BY <1>1, <1>5, <1>7, <2>1, RejectionsOfPrefix DEF Exhausted
    <2>3. SUFFICES ASSUME Untainted', ~Exhausted
          PROVE  /\ pc' = "review" => Candidate'
                 /\ pc' = "round" => ResumesAt(orb)' /\ rd'.round = orb'.edits + 1 /\ rd'.before = -1
      BY <1>9, <2>2 DEF RoundsAreCredited, Calling
    <2>4. ResumesAt(orb) /\ rd.round = orb.edits + 1 /\ rd.before = -1 /\ cfg.stopUnchanged
      BY <1>1, <1>10, <2>3 DEF ResumeInv, Untainted, Refining, RoundsAreCredited
    <2>5. OthersBelow(ledger, rd.round)
      BY <1>4, <2>4, OthersAreBelow DEF ResumesAt
    <2>6. /\ CompletedRound(ledger', Len(ledger) + 1) = rd.round
          /\ OthersBelow(ledger', rd.round) /\ Len(ledger') = Len(ledger) + 1
      BY <1>5, <1>7, <2>1, <2>5, EntryIsCredited, LedgerAppend
    <2>7. CASE final
      BY <1>4, <1>8, <1>9, <2>4, <2>6, <2>7 DEF Candidate
    <2>8. CASE ~final
      <3>1. orb'.checkpoint = Len(ledger) + 1  BY <1>6, <1>8, <2>4, <2>8
      <3>2. ResumesAt(orb)'  BY <1>8, <2>6, <3>1 DEF ResumesAt, Credited
      <3>3. QED  BY <1>8, <1>9, <2>4, <2>8, <3>2
    <2>9. QED  BY <2>7, <2>8
  <1>14. QED  BY <1>11, <1>12, <1>13 DEF ResumeInv

\* A review: accepted, sent back without its last round, or held.
LEMMA ReviewKeepsResume ==
    ASSUME TypeInv, PathInv, ResumeInv, ReviewAccepts \/ ReviewDeclines
    PROVE  ResumeInv'
  <1>1. /\ UNCHANGED <<cfg, disk, ledger, out, lost>> /\ pc = "review" /\ pc' = "record"
    BY DEF ReviewAccepts, ReviewDeclines, Goto, local, durable, history
  <1>2. orb \in Orb /\ rd \in Round /\ out \in Done
    BY <1>1, TypeFacts DEF CopyOK, ResumeInv, VerdictsBelong
  <1>3. rd'.quality = rd.quality /\ rd'.round = rd.round
    <2>1. CASE ReviewAccepts  BY <2>1 DEF ReviewAccepts, local
    <2>2. CASE ReviewDeclines
      <3> DEFINE again == rd.quality < cfg.reviews
      <3>1. PICK reason \in Rejected : rd' = [rd EXCEPT !.reason = reason, !.bounce = again]
        BY <2>2 DEF ReviewDeclines
      <3> HIDE DEF again
      <3>2. QED  BY <1>2, <3>1 DEF Round
    <2>3. QED  BY <2>1, <2>2
  <1>4. Active  BY <1>1 DEF Active, Resting
  <1>5. QualityIsCount'  BY <1>1, <1>3, <1>4, CountIsKept
  <1>6. VerdictsBelong'  BY <1>1, <1>2 DEF VerdictsBelong
  <1>7. Untainted' => RoundsAreCredited'
    <2>1. Exhausted' = Exhausted  BY <1>1 DEF Exhausted
    <2>2. SUFFICES ASSUME Untainted', ~Exhausted PROVE HeldForHuman' \/ Concluded'
      BY <1>1, <2>1 DEF RoundsAreCredited, Calling
    <2>3. Candidate
      BY <1>1, <2>2 DEF ResumeInv, Untainted, Refining, RoundsAreCredited
    <2>4. AbortedAtRound'  BY <1>1, <1>2 DEF AbortedAtRound, Done
    <2>5. orb.edits \in Nat /\ rd.round \in Nat /\ rd.round >= 1  BY TypeFacts DEF CopyOK, Orb
    <2>6. CASE ReviewAccepts
      <3>1. rd' = rd /\ orb' = orb  BY <2>6 DEF ReviewAccepts, local
      <3>2. Entry.round = rd.round /\ Entry.reason = rd.reason  BY DEF Entry
      <3>3. Credit(Entry) = orb.edits
        BY <2>3, <3>2 DEF Candidate, Credit, Unapplied, Rejected
      <3>4. OthersBelow(ledger, rd.round)  BY <2>3 DEF Candidate
      <3>5. QED  BY <1>1, <2>4, <3>1, <3>3, <3>4 DEF Concluded, Entry
    <2>7. CASE ReviewDeclines
      <3> DEFINE again == rd.quality < cfg.reviews
                 edits == IF again /\ rd.before # -1 THEN rd.before ELSE orb.edits
      <3>1. PICK reason \in Rejected :
              /\ rd' = [rd EXCEPT !.reason = reason, !.bounce = again]
              /\ orb' = [orb EXCEPT !.edits = edits]
        BY <2>7 DEF ReviewDeclines
      <3>2. again \in BOOLEAN  OBVIOUS
      <3>3. ~again => cfg.reviews <= rd.quality  BY CheckpointFacts
      <3>4. again => edits = rd.round - 1
        BY <2>3, <2>5 DEF Candidate
      <3> HIDE DEF again, edits
      <3>5. rd'.reason \in Rejected /\ rd'.bounce = again  BY <1>2, <3>1, <3>2 DEF Round
      <3>6. orb'.edits = edits  BY <1>2, <3>1 DEF Orb
      <3>7. CASE again
        <4>1. Entry'.round = rd.round /\ Entry'.reason \in Rejected
          BY <1>3, <3>5 DEF Entry
        <4>2. Credit(Entry') = orb'.edits
          BY <3>4, <3>6, <3>7, <4>1 DEF Credit, Unapplied
        <4>3. OthersBelow(ledger, rd.round)  BY <2>3 DEF Candidate
        <4>4. QED  BY <1>1, <1>3, <2>4, <4>2, <4>3 DEF Concluded
      <3>8. CASE ~again
        BY <1>1, <1>3, <3>3, <3>5, <3>8 DEF HeldForHuman
      <3>9. QED  BY <3>7, <3>8
    <2>8. QED  BY <2>6, <2>7
  <1>8. QED  BY <1>5, <1>6, <1>7 DEF ResumeInv

LEMMA AdmitKeepsResume ==
    ASSUME TypeInv, ResumeInv, Admit  PROVE ResumeInv'
  <1>1. /\ UNCHANGED <<cfg, disk, ledger, lost>>
        /\ pc = "claimed" /\ pc' = IF cfg.contract THEN "snapshot" ELSE "main"
        /\ orb' = disk /\ rd' = FirstRound
    BY DEF Admit, Leave, Call, Goto, history
  <1>2. QualityIsCount'  BY <1>1, FirstRoundIsNext DEF QualityIsCount
  <1>3. VerdictsBelong'
    <2>1. rd'.reason \notin Rejected  BY <1>1, FirstRoundIsNext DEF Rejected
    <2>2. pc' = "snapshot" => ~Refining  BY <1>1, TargetIsOpen
    <2>3. QED  BY <1>1, <2>1, <2>2 DEF VerdictsBelong, Refining
  <1>4. Untainted' => RoundsAreCredited'
    <2>1. SUFFICES ASSUME Untainted' PROVE RoundsAreCredited'  OBVIOUS
    <2>2. pc' = "main" /\ (ResumesAt(disk) \/ Exhausted)
      BY <1>1, <2>1, TargetIsOpen DEF ResumeInv, Untainted, Refining, RoundsAreCredited
    <2>3. Exhausted' = Exhausted /\ ResumesAt(orb)' = ResumesAt(disk)
      BY <1>1 DEF Exhausted, ResumesAt, Credited
    <2>4. ResumesAt(disk) => rd'.round = orb'.edits + 1 /\ rd'.before = -1
      BY <1>1, FirstRoundIsNext DEF ResumesAt, Credited
    <2>5. QED  BY <2>2, <2>3, <2>4 DEF RoundsAreCredited, Calling
  <1>5. QED  BY <1>2, <1>3, <1>4 DEF ResumeInv

LEMMA RecordKeepsResume ==
    ASSUME TypeInv, ResumeInv, Record  PROVE ResumeInv'
  <1>1. /\ UNCHANGED <<cfg, disk, orb, out, rd, lost>> /\ pc = "record" /\ pc' = "settle"
        /\ ledger' = IF Refining THEN Append(ledger, Entry) ELSE ledger
    BY DEF Record, Goto, local, history, Entry
  <1>2. Entry \in Diagnostics(MaxRound) /\ Entry.round = rd.round
    BY TypeFacts DEF Diagnostics, Entry
  <1>3. Active  BY <1>1 DEF Active, Resting
  <1>4. ledger' = ledger \/ \E e \in Diagnostics(MaxRound) : ledger' = Append(ledger, e)
    BY <1>1, <1>2
  <1>5. QualityIsCount'  BY <1>1, <1>3, <1>4, CountIsKept
  <1>6. VerdictsBelong'  BY <1>1 DEF ResumeInv, VerdictsBelong
  <1>7. Untainted' => RoundsAreCredited'
    <2>1. /\ ledger \in Seq(Diagnostics(MaxRound)) /\ MaxRound \in Nat /\ Len(ledger) \in Nat
          /\ disk.checkpoint \in 0..Len(ledger) /\ orb.checkpoint \in 0..Len(ledger)
      BY CheckpointFacts, TypeFacts
    <2>2. SUFFICES ASSUME Untainted'
          PROVE  \/ Exhausted' \/ HeldForHuman'
                 \/ Credited(Len(ledger))' = orb'.edits /\ AbortedAtRound'
      BY <1>1 DEF RoundsAreCredited, Calling
    <2>3. Exhausted \/ HeldForHuman \/ Concluded
      BY <1>1, <2>2 DEF ResumeInv, Untainted, Refining, RoundsAreCredited
    <2>4. ledger' = Append(ledger, Entry)  BY <1>1, <2>2 DEF Untainted, Refining
    <2>5. CASE Exhausted
      BY <1>1, <1>2, <2>1, <2>4, <2>5, RejectionsOfPrefix DEF Exhausted
    <2>6. CASE HeldForHuman  BY <1>1, <2>6 DEF HeldForHuman
    <2>7. CASE Concluded
      <3>1. OthersBelow(ledger, Entry.round)  BY <1>2, <2>7 DEF Concluded
      <3>2. /\ CompletedRound(ledger', Len(ledger) + 1) = Credit(Entry)
            /\ Len(ledger') = Len(ledger) + 1
        BY <1>2, <2>1, <2>4, <3>1, EntryIsCredited, LedgerAppend
      <3>3. Credited(Len(ledger))' = orb'.edits
        BY <1>1, <2>7, <3>2 DEF Credited, Concluded
      <3>4. CompletedRound(ledger', orb.checkpoint) = CompletedRound(ledger, orb.checkpoint)
        BY <1>2, <2>1, <2>4, CompletedOfPrefix
      <3>5. AbortedAtRound'
        BY <1>1, <2>7, <3>4 DEF Concluded, AbortedAtRound, Credited
      <3>6. QED  BY <3>3, <3>5
    <2>8. QED  BY <2>3, <2>5, <2>6, <2>7
  <1>8. QED  BY <1>5, <1>6, <1>7 DEF ResumeInv

\* What is stored resumes where its text ends; a text held for a human has used
\* up the review attempts.
LEMMA SettleKeepsResume ==
    ASSUME TypeInv, BounceInv, ResumeInv, Settle  PROVE ResumeInv'
  <1> USE CheckpointFacts
  <1>1. /\ UNCHANGED <<cfg, orb, out, rd, ledger, lost>> /\ pc = "settle" /\ pc' = "stored"
    BY DEF Settle, Goto, local
  <1>2. PICK st \in Landing :
          disk' = [orb EXCEPT !.st = st, !.checkpoint = IF out = "aborted" THEN @ ELSE Len(ledger)]
    BY DEF Settle
  <1>3. orb \in Orb  BY TypeFacts DEF CopyOK
  <1>4. /\ disk'.checkpoint = IF out = "aborted" THEN orb.checkpoint ELSE Len(ledger)
        /\ disk'.edits = orb.edits
    BY <1>2, <1>3 DEF Orb
  <1>5. QualityIsCount'  BY <1>1 DEF QualityIsCount, Active
  <1>6. VerdictsBelong'  BY <1>1 DEF ResumeInv, VerdictsBelong
  <1>7. Untainted' => RoundsAreCredited'
    <2>1. SUFFICES ASSUME Untainted' PROVE ResumesAt(disk)' \/ (Exhausted' /\ ~rd.bounce)
      BY <1>1 DEF RoundsAreCredited, Calling
    <2>2. \/ Exhausted \/ HeldForHuman
          \/ Credited(Len(ledger)) = orb.edits /\ AbortedAtRound
      BY <1>1, <2>1 DEF ResumeInv, Untainted, Refining, RoundsAreCredited
    <2>3. /\ rd.quality = QualityRejections(ledger, disk.checkpoint) + 1
          /\ disk.checkpoint <= orb.checkpoint
      BY <1>1 DEF ResumeInv, QualityIsCount, BounceInv, CountingGoesOn, Active, Resting
    <2>4. disk'.checkpoint \in Nat /\ disk.checkpoint <= disk'.checkpoint  BY <1>4, <2>3
    <2>5. QualityRejections(ledger, disk'.checkpoint) \in Nat  BY <2>4, RejectionsAreFinite
    <2>6. CASE Exhausted
      <3>1. QualityRejections(ledger, disk.checkpoint) <= QualityRejections(ledger, disk'.checkpoint)
        BY <2>4, RejectionsGrow
      <3>2. Exhausted'  BY <1>1, <2>5, <2>6, <3>1 DEF Exhausted
      <3>3. ~rd.bounce  BY <2>3, <2>6 DEF Exhausted, BounceInv, BounceIsEntered
      <3>4. QED  BY <3>2, <3>3
    <2>7. CASE HeldForHuman
      <3>1. /\ disk.checkpoint < Len(ledger) /\ ledger[Len(ledger)].reason \in Rejected
        BY <1>1, <2>1, <2>7 DEF HeldForHuman, BounceInv, BounceIsEntered, Untainted, Refining
      <3>2. out \in Done  BY <2>7 DEF HeldForHuman, ResumeInv, VerdictsBelong
      <3>3. disk'.checkpoint = Len(ledger)  BY <1>4, <3>2 DEF Done
      <3>4. QualityRejections(ledger, disk.checkpoint) + 1 <= QualityRejections(ledger, Len(ledger))
        BY <3>1, RejectionCounts
      <3>5. cfg.reviews <= rd.quality /\ ~rd.bounce  BY <2>7 DEF HeldForHuman
      <3>6. Exhausted'  BY <1>1, <2>3, <2>5, <3>3, <3>4, <3>5 DEF Exhausted
      <3>7. QED  BY <3>5, <3>6
    <2>8. CASE Credited(Len(ledger)) = orb.edits /\ AbortedAtRound
      BY <1>1, <1>4, <2>8 DEF ResumesAt, Credited, AbortedAtRound
    <2>9. QED  BY <2>2, <2>6, <2>7, <2>8
  <1>8. QED  BY <1>5, <1>6, <1>7 DEF ResumeInv

\* The claim and the end of an episode, and what happens beside it: an error or a
\* crash loses the episode, a reset or a revision writes no text.
LEMMA AroundKeepsResume ==
    ASSUME TypeInv, ClaimInv, ResumeInv,
           \/ Claim \/ Refuse \/ Release \/ CallIsFatal \/ EpisodeError \/ Crash
           \/ ArchiveClaim \/ Stop \/ Restart \/ WorkerExits \/ Redo \/ UNCHANGED evars
    PROVE  ResumeInv'
  <1> USE DEF Goto, Drop, ladder, local, durable, history, budget
  <1>1. UNCHANGED <<cfg, ledger>>
    BY DEF Claim, Refuse, Release, CallIsFatal, EpisodeError, Crash, ArchiveClaim, Stop, Restart,
           WorkerExits, Redo, evars
  <1>2. CASE Redo
    <2>1. /\ UNCHANGED <<pc, orb, out, rd, lost>> /\ disk.st \in {"failed", "review"}
          /\ disk' = [disk EXCEPT !.st = cfg.target, !.checkpoint = Len(ledger)]
      BY <1>2 DEF Redo
    <2>2. disk \in Orb  BY TypeFacts DEF StoreOK
    <2>3. disk'.checkpoint = Len(ledger) /\ disk'.edits = disk.edits  BY <2>1, <2>2 DEF Orb
    <2>4. pc \in Resting \cup {"stored"}
      <3>1. cfg.target \in Targets  BY TypeFacts, ConfigTypes
      <3>2. QED  BY <2>1, <3>1 DEF ClaimInv, Targets, Structured, Active
    <2>5. QualityIsCount'  BY <2>1, <2>4 DEF QualityIsCount, Active
    <2>6. VerdictsBelong'  BY <1>1, <2>1 DEF ResumeInv, VerdictsBelong, Refining
    <2>7. Untainted' => RoundsAreCredited'
      <3>1. SUFFICES ASSUME Untainted'
            PROVE  ResumesAt(disk)' \/ (Exhausted' /\ (pc = "stored" => ~rd.bounce))
        BY <2>1, <2>4 DEF RoundsAreCredited, Calling, Resting
      <3>2. RoundsAreCredited /\ pc # "held"
        BY <1>1, <2>1, <3>1 DEF ResumeInv, Untainted, Refining, VerdictsBelong
      <3>3. ResumesAt(disk) \/ (Exhausted /\ (pc = "stored" => ~rd.bounce))
        BY <2>4, <3>2 DEF RoundsAreCredited, Resting
      <3>4. ResumesAt(disk) => ResumesAt(disk)'
        BY <1>1, <2>3 DEF ResumesAt, Credited
      <3>5. QualityRejections(ledger, disk.checkpoint) <= QualityRejections(ledger, Len(ledger))
        BY CheckpointFacts, RejectionsGrow
      <3>6. QualityRejections(ledger, Len(ledger)) \in Nat  BY CheckpointFacts, RejectionsAreFinite
      <3>7. Exhausted => Exhausted'
        BY <1>1, <2>3, <3>5, <3>6, CheckpointFacts DEF Exhausted
      <3>8. QED  BY <3>3, <3>4, <3>7
    <2>8. QED  BY <2>5, <2>6, <2>7 DEF ResumeInv
  <1>3. CASE ~Redo
    <2>1. UNCHANGED disk
      BY <1>3 DEF Claim, Refuse, Release, CallIsFatal, EpisodeError, Crash, ArchiveClaim, Stop,
                  Restart, WorkerExits, evars
    <2>2. \/ pc' = "held" /\ lost' /\ rd' = NoRound
          \/ pc = "stored" /\ pc' = "free" /\ rd' = NoRound /\ UNCHANGED lost
          \/ pc \in {"free", "claimed"} /\ pc' \in {"free", "claimed"} /\ UNCHANGED <<rd, lost>>
          \/ pc = "held" /\ pc' = "free" /\ UNCHANGED <<rd, lost>>
          \/ UNCHANGED <<pc, orb, out, rd, lost>>
      BY <1>3 DEF Claim, Refuse, Release, CallIsFatal, EpisodeError, Crash, ArchiveClaim, Stop,
                  Restart, WorkerExits, Forget, evars
    <2>3. NoRound.reason \notin Rejected  BY DEF NoRound, Rejected
    <2>4. QualityIsCount'
      BY <1>1, <2>1, <2>2 DEF ResumeInv, QualityIsCount, Active, Resting
    <2>5. VerdictsBelong'
      BY <1>1, <2>2, <2>3 DEF ResumeInv, VerdictsBelong, Refining
    <2>6. Untainted' => RoundsAreCredited'
      <3>1. SUFFICES ASSUME Untainted' PROVE RoundsAreCredited'  OBVIOUS
      <3>2. ~lost' /\ (~lost => RoundsAreCredited) /\ (pc = "held" => lost)
        BY <1>1, <3>1 DEF ResumeInv, Untainted, Refining, VerdictsBelong
      <3>3. ResumesAt(disk)' = ResumesAt(disk) /\ Exhausted' = Exhausted
        BY <1>1, <2>1 DEF ResumesAt, Credited, Exhausted
      <3>4. CASE pc = "stored" /\ pc' = "free" /\ UNCHANGED lost
        BY <3>2, <3>3, <3>4 DEF RoundsAreCredited, Calling
      <3>5. CASE pc \in {"free", "claimed"} /\ pc' \in {"free", "claimed"} /\ UNCHANGED lost
        BY <3>2, <3>3, <3>5 DEF RoundsAreCredited, Calling
      <3>6. CASE UNCHANGED <<pc, orb, out, rd, lost>>
        BY <1>1, <2>1, <3>2, <3>3, <3>6
        DEF RoundsAreCredited, ResumesAt, Credited, Candidate, OthersBelow, HeldForHuman,
            Concluded, AbortedAtRound, Entry
      <3>7. QED  BY <2>2, <3>2, <3>4, <3>5, <3>6
    <2>7. QED  BY <2>4, <2>5, <2>6 DEF ResumeInv
  <1>4. QED  BY <1>2, <1>3

\* Unless an episode's copy was lost, the ledger credits a specification with the
\* rounds its text includes, or with so many rejections that none sends it back.
THEOREM ResumeIsInvariant == Spec => []ResumeInv
  <1>1. Init => ResumeInv
    <2>1. SUFFICES ASSUME Init PROVE ResumeInv  OBVIOUS
    <2>2. pc = "free" /\ ledger = <<>> /\ disk = NoCopy /\ rd = NoRound  BY <2>1 DEF Init
    <2>3. QualityIsCount /\ VerdictsBelong
      BY <2>2 DEF QualityIsCount, VerdictsBelong, Active, Resting, NoRound, Rejected
    <2>4. Credited(0) = 0
      <3>1. ledger \in Seq(Diagnostics(0)) /\ Len(ledger) = 0  BY <2>2
      <3>2. CompletedRound(ledger, 0) \in 0..0
        <4>1. 0 \in 0..Len(ledger) /\ 0 \in Nat  BY <3>1
        <4>2. QED  BY <3>1, <4>1, CompletedRoundIsMax
      <3>3. QED  BY <3>2 DEF Credited
    <2>5. ResumesAt(disk)  BY <2>2, <2>4 DEF ResumesAt, NoCopy
    <2>6. QED  BY <2>2, <2>3, <2>5 DEF ResumeInv, RoundsAreCredited, Calling
  <1>2. /\ TypeInv /\ TypeInv' /\ ClaimInv /\ PathInv /\ BounceInv /\ ResumeInv /\ [Next]_evars
        => ResumeInv'
    BY OtherTargetsKeepResume, WithinRoundsKeepResume, GivenUpKeepsResume, ApplyRoundKeepsResume,
       ReviewKeepsResume, AdmitKeepsResume, RecordKeepsResume, SettleKeepsResume, AroundKeepsResume
    DEF Next, EpisodeStep, Rounds, Disturbance
  <1>3. QED
    BY <1>1, <1>2, RoundsStayBounded, ClaimIsInvariant, PathIsInvariant, BouncesAreCounted, PTL
    DEF Spec

\* A specification that a rejection sends back is stored without the rejected
\* candidate, and the ledger resumes it at the round its text has reached.
THEOREM RejectedCandidatesAreUndone == Spec => []RejectedCandidateIsUndone
  <1>1. BounceInv /\ ResumeInv => RejectedCandidateIsUndone
    <2>1. SUFFICES ASSUME BounceInv, ResumeInv, cfg.stopUnchanged, pc = "stored", rd.bounce, ~lost
                   PROVE  disk.edits = CompletedRound(ledger, disk.checkpoint)
      BY DEF RejectedCandidateIsUndone
    <2>2. Refining  BY <2>1 DEF BounceInv, BounceIsEntered
    <2>3. ResumesAt(disk)  BY <2>1, <2>2 DEF ResumeInv, Untainted, RoundsAreCredited
    <2>4. QED  BY <2>3 DEF ResumesAt, Credited
  <1>2. QED  BY <1>1, BouncesAreCounted, ResumeIsInvariant, PTL
======================================================================
