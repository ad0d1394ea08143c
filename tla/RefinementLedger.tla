---------------------------- MODULE RefinementLedger ----------------------------
(***************************************************************************)
(* What a refinement episode reads from the execution ledger: the round to   *)
(* resume from and the automatic rejections so far.  The ledger is the        *)
(* sequence of records that carry a round diagnostic; a checkpoint is the     *)
(* number of them completed when the orb was last written (its updated_at).   *)
(***************************************************************************)
EXTENDS Naturals, Sequences, FiniteSets

LOCAL INSTANCE FiniteSetsExt

Rejected == {"quality_rejected", "quality_reviewer_failed"}
Unapplied == {"worker_failed"} \cup Rejected
Reasons == {"continues", "final"} \cup Unapplied
Diagnostics(rounds) == [round : 1..rounds, reason : Reasons]

\* Only the last diagnostic of a round counts: a rejection is entered after the
\* record of the candidate it rejects.
LatestOfRounds(ledger, checkpoint) ==
    {i \in 1..checkpoint : \A j \in 1..checkpoint : ledger[j].round = ledger[i].round => j <= i}

\* A round that was not applied is run again under the same number.
Credit(diagnostic) ==
    IF diagnostic.reason \in Unapplied THEN diagnostic.round - 1 ELSE diagnostic.round

\* Mutant: the first diagnostic of a round counts.
CompletedRoundOfFirst(ledger, checkpoint) ==
    Max({0} \cup {Credit(ledger[i]) : i \in {k \in 1..checkpoint :
            \A j \in 1..checkpoint : ledger[j].round = ledger[k].round => k <= j}})

CompletedRound(ledger, checkpoint) ==
    Max({0} \cup {Credit(ledger[i]) : i \in LatestOfRounds(ledger, checkpoint)})

\* Mutant: only the reviewer's own verdicts count, not its failures.
RejectionsByVerdict(ledger, checkpoint) ==
    Cardinality({i \in 1..checkpoint : ledger[i].reason = "quality_rejected"})

QualityRejections(ledger, checkpoint) ==
    Cardinality({i \in 1..checkpoint : ledger[i].reason \in Rejected})
=============================================================================
