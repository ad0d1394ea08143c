----------------------------- MODULE MCStateJournal -----------------------------
(* An instance of StateJournal: a client c1 stores a plan, the parent orb       *)
(* p and its child k, in one batch while an operator c2 resets p.            *)
EXTENDS StateJournal, TLC

CONSTANTS c1, c2, p, k

PlanAndReset == {<<c1, "batch", <<p, k>>>>, <<c2, "reset", <<p>>>>}
=============================================================================
