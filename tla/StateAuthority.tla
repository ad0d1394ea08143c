----------------------------- MODULE StateAuthority -----------------------------
(***************************************************************************)
(* What the shared-state authority of a project promises its clients: one   *)
(* sequence of operations, each entered once and on top of exactly the      *)
(* revision its client named, and receipts that stay true.                 *)
(***************************************************************************)
EXTENDS Naturals, Sequences

CONSTANT Operation      \* records with at least the fields id and base

VARIABLES
    log,     \* the accepted operations; the revision of one is its index
    receipts \* <<id, revision>> pairs that clients were given

Ids == {log[i].id : i \in DOMAIN log}

Init == log = <<>> /\ receipts = {}

Commit(op) ==
    /\ op.id \notin Ids
    /\ op.base = Len(log)
    /\ log' = Append(log, op)
    /\ UNCHANGED receipts

Acknowledge(i) ==
    /\ receipts' = receipts \cup {<<log[i].id, i>>}
    /\ UNCHANGED log

Next ==
    \/ \E op \in Operation : Commit(op)
    \/ \E i \in DOMAIN log : Acknowledge(i)

Spec == Init /\ [][Next]_<<log, receipts>>
=============================================================================
