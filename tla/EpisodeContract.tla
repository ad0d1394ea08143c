----------------------------- MODULE EpisodeContract -----------------------------
(***************************************************************************)
(* What one dispatch episode of an orb promises, whatever ladder of retries,  *)
(* rounds, repairs and reviews it runs inside: the orb leaves its target only *)
(* through a holder of the claim, to a state its outcome may lead to, and a   *)
(* claim whose worker may still live is not given up.                        *)
(***************************************************************************)
VARIABLES
    target,     \* the state the orb is dispatched in
    st, claim, phase, left

cvars == <<target, st, claim, phase, left>>

OnDone ==
    CASE target = "speccing" -> {"decomposing"}
      [] target = "decomposing" -> {"refining"}
      [] target = "refining" -> {"refining", "review", "waiting"}
      [] target = "reevaluating" -> {"executing", "refining", "failed"}
      [] target = "executing" -> {"done", "review"}

Ends == OnDone \cup {target, "failed", "cancelled"}

Init == st = target /\ claim = FALSE /\ phase = "idle" /\ left = FALSE

Claim ==
    /\ phase = "idle" /\ ~claim /\ st = target
    /\ claim' = TRUE /\ phase' = "working" /\ UNCHANGED <<st, left>>

GiveBack ==
    /\ phase = "working" /\ ~left
    /\ claim' = FALSE /\ phase' = "idle" /\ UNCHANGED <<st, left>>

Settle ==
    /\ phase = "working" /\ ~left
    /\ st' \in Ends /\ phase' = "stored" /\ UNCHANGED <<claim, left>>

Release ==
    /\ phase = "stored"
    /\ claim' = FALSE /\ phase' = "idle" /\ UNCHANGED <<st, left>>

\* An error, a failed teardown or a crash: the claim outlives the episode.
Lose ==
    /\ phase \in {"working", "stored"}
    /\ phase' = "idle" /\ left' \in BOOLEAN /\ UNCHANGED <<st, claim>>

\* A worker's teardown fails, and the call that ran it has yet to return.
Strand == phase = "working" /\ left' = TRUE /\ UNCHANGED <<st, claim, phase>>

WorkerExits == left /\ left' = FALSE /\ UNCHANGED <<st, claim, phase>>

Archive ==
    /\ phase = "idle" /\ claim /\ ~left
    /\ claim' = FALSE /\ UNCHANGED <<st, phase, left>>

Operator == st \in {"failed", "review"} /\ st' = target /\ UNCHANGED <<claim, phase, left>>

Step ==
    \/ Claim \/ GiveBack \/ Settle \/ Release \/ Lose \/ Strand
    \/ WorkerExits \/ Archive \/ Operator

Next == Step /\ UNCHANGED target

Contract == Init /\ [][Next]_cvars
=============================================================================
