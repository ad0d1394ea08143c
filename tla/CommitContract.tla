----------------------------- MODULE CommitContract -----------------------------
(***************************************************************************)
(* The completion-commit contract: what Snapshot::verify accepts of the      *)
(* repository a worker leaves behind.  A repository is seen relative to the  *)
(* snapshot: the commits added on its head, what is wrong with the newest    *)
(* one, and whether the changes that were there before are untouched.       *)
(***************************************************************************)
EXTENDS Naturals

Tips == {"clean", "merge", "empty", "overlap", "unnamed"}
Lines == {"validation", "no_changes", "commit"}

Repositories(n) ==
    {r \in [ahead : 0..n, tip : Tips, residual : {"as_found", "altered"}] :
        r.ahead = 0 => r.tip = "clean"}
AsFound == [ahead |-> 0, tip |-> "clean", residual |-> "as_found"]

\* Mutant: any commit on the old head will do, however many there are.
VerifiedByTip(repo, successful, report) ==
    IF ~successful THEN repo.ahead = 0
    ELSE "validation" \in report /\ repo.residual = "as_found" /\ repo.tip = "clean"

\* A successful attempt must leave one clean commit, or say why there is none;
\* one that did not succeed must not have moved the head.
Verified(repo, successful, report) ==
    IF ~successful THEN repo.ahead = 0
    ELSE /\ "validation" \in report
         /\ repo.residual = "as_found"
         /\ \/ repo.ahead = 0 /\ "no_changes" \in report
            \/ repo.ahead = 1 /\ repo.tip = "clean" /\ "commit" \in report
=============================================================================
