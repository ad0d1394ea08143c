------------------------- MODULE DecompositionContract -------------------------
(***************************************************************************)
(* What the decomposition of a parent promises, however often it is           *)
(* interrupted and answered again: one plan is decided on, every child that a  *)
(* worker's plan begins is begun from that plan and from no other, and the     *)
(* parent goes on with the whole graph of it, which from then on is what it is. *)
(* A child that had no need to be begun may be begun late: one that the parent  *)
(* had before the plan, when it is deleted and the plan applied again.        *)
(***************************************************************************)
CONSTANTS
    Positions,  \* of the children in a plan
    Graphs,     \* per valid plan: the children and edges it asks for
    NoPlan

VARIABLES
    decision,   \* the plan, or NoPlan
    begun,      \* per position: the plan its child was begun from, or NoPlan
    released    \* {}, or the one graph the parent has gone on with

Init == decision = NoPlan /\ begun = [i \in Positions |-> NoPlan] /\ released = {}

Decide ==
    /\ decision = NoPlan /\ decision' \in DOMAIN Graphs
    /\ UNCHANGED <<begun, released>>

Begin(i) ==
    /\ decision # NoPlan
    /\ i \in Graphs[decision].children /\ begun[i] = NoPlan
    /\ begun' = [begun EXCEPT ![i] = decision]
    /\ UNCHANGED <<decision, released>>

GoOn ==
    /\ decision # NoPlan /\ released = {}
    /\ released' = {Graphs[decision]}
    /\ UNCHANGED <<decision, begun>>

Next == Decide \/ (\E i \in Positions : Begin(i)) \/ GoOn

Contract == Init /\ [][Next]_<<decision, begun, released>>
=============================================================================
