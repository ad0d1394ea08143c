--------------------------- MODULE DecompositionProofs ---------------------------
(***************************************************************************)
(* Proofs about Decomposition, for every set of plans and every number of     *)
(* interruptions.  The first part is about materialize_plan alone: what a      *)
(* valid plan's graph looks like.  The second shows that what is written is    *)
(* always part of the graph of the one plan that is pinned.                  *)
(***************************************************************************)
EXTENDS Decomposition, WellFoundedInduction, TLAPS

\* A nonempty set of naturals has a least member.
LEMMA NatMin == ASSUME NEW T \in SUBSET Nat, T # {} PROVE \E x \in T : \A y \in T : x <= y
  <1> DEFINE R == OpToRel(<, Nat)
  <1>1. IsWellFoundedOn(R, Nat)  BY NatLessThanWellFounded
  <1>2. \A x, y \in Nat : y < x => <<y, x>> \in R  BY DEF OpToRel
  <1> HIDE DEF R
  <1>3. PICK x \in T : \A y \in T : <<y, x>> \notin R  BY <1>1, WFMin
  <1>4. ASSUME NEW y \in T  PROVE x <= y
    <2>1. y \in Nat /\ x \in Nat  OBVIOUS
    <2>2. ~(y < x)  BY <2>1, <1>2, <1>3
    <2>3. QED  BY <2>1, <2>2
  <1>5. QED  BY <1>4

\* A nonempty set of naturals below n has a greatest member.
LEMMA BelowMax ==
    ASSUME NEW n \in Nat, NEW T \in SUBSET Nat, T # {}, \A x \in T : x < n
    PROVE  \E x \in T : \A y \in T : y <= x
  <1> DEFINE U == {n - x : x \in T}
  <1>1. \A x \in T : x \in Nat /\ x < n /\ n - x \in Nat  OBVIOUS
  <1>2. U \in SUBSET Nat  BY <1>1
  <1>3. U # {}
    <2>1. PICK x \in T : TRUE  OBVIOUS
    <2>2. n - x \in U  BY <2>1
    <2>3. QED  BY <2>2
  <1>4. \A y \in T : n - y \in U  OBVIOUS
  <1>5. \A u \in U : \E x \in T : u = n - x  OBVIOUS
  <1> HIDE DEF U
  <1>6. PICK u \in U : \A y \in U : u <= y  BY <1>2, <1>3, NatMin
  <1>7. PICK x \in T : u = n - x  BY <1>5, <1>6
  <1>8. ASSUME NEW y \in T  PROVE y <= x
    <2>1. n - x <= n - y  BY <1>4, <1>6, <1>7
    <2>2. QED  BY <1>1, <2>1
  <1>9. QED  BY <1>8

LEMMA MinIsMember == ASSUME NEW T \in SUBSET Nat, T # {} PROVE Min(T) \in T
  BY NatMin DEF Min

LEMMA PlanFacts ==
    ASSUME NEW p \in Plans
    PROVE  /\ Len(p) \in Nat /\ Len(p) <= MaxChildren
           /\ Tasks(p) = 1..Len(p) /\ Tasks(p) \subseteq Children
           /\ \A i \in Tasks(p) : p[i] \in Task /\ p[i].order \in Nat /\ i \in Nat
  <1>1. p \in Seq(Task) /\ Len(p) <= MaxChildren /\ MaxChildren \in Nat
    BY DecompositionAssumption
  <1>2. Len(p) \in Nat /\ Tasks(p) = 1..Len(p)  BY <1>1 DEF Tasks
  <1>3. \A i \in Tasks(p) : p[i] \in Task  BY <1>1, <1>2
  <1>4. QED  BY <1>1, <1>2, <1>3 DEF Task, Children

-----------------------------------------------------------------------------
(* materialize_plan.                                                          *)

\* The function of Completed exists: each of its values follows from the one before.
Passes(p, n) ==
    {f \in [0..n -> SUBSET Tasks(p)] :
        \A k \in 0..n : f[k] = IF k = 0 THEN {} ELSE {i \in Tasks(p) : Prerequisites(p, i) \subseteq f[k - 1]}}

LEMMA PassesExist == ASSUME NEW p, NEW n \in Nat PROVE Passes(p, n) # {}
  <1> DEFINE T == {m \in Nat : Passes(p, m) = {}}
  <1>1. SUFFICES ASSUME T # {} PROVE FALSE  OBVIOUS
  <1>2. PICK m \in T : \A k \in T : m <= k  BY <1>1, NatMin
  <1>3. CASE m = 0
    <2>1. [k \in 0..0 |-> {}] \in Passes(p, 0)  BY DEF Passes
    <2>2. QED  BY <1>3, <2>1
  <1>4. CASE m # 0
    <2>1. m \in Nat /\ m - 1 \in Nat /\ ~(m <= m - 1)  BY <1>4
    <2>2. m - 1 \notin T  BY <1>2, <2>1
    <2>3. PICK f \in Passes(p, m - 1) : TRUE  BY <2>1, <2>2
    <2>4. /\ f \in [0..(m - 1) -> SUBSET Tasks(p)]
          /\ \A k \in 0..(m - 1) : f[k] = IF k = 0 THEN {}
                 ELSE {i \in Tasks(p) : Prerequisites(p, i) \subseteq f[k - 1]}
      BY <2>3 DEF Passes
    <2> DEFINE last == {i \in Tasks(p) : Prerequisites(p, i) \subseteq f[m - 1]}
               g == [k \in 0..m |-> IF k = m THEN last ELSE f[k]]
    <2>5. g \in [0..m -> SUBSET Tasks(p)]
      <3>1. \A k \in 0..m : k = m \/ k \in 0..(m - 1)  BY <2>1
      <3>2. last \in SUBSET Tasks(p)  OBVIOUS
      <3> HIDE DEF last
      <3>3. \A k \in 0..(m - 1) : f[k] \in SUBSET Tasks(p)  BY <2>4
      <3>4. \A k \in 0..m : (IF k = m THEN last ELSE f[k]) \in SUBSET Tasks(p)
        BY <3>1, <3>2, <3>3
      <3>5. QED  BY <3>4
    <2>6. ASSUME NEW k \in 0..m
          PROVE  g[k] = IF k = 0 THEN {} ELSE {i \in Tasks(p) : Prerequisites(p, i) \subseteq g[k - 1]}
      <3>1. CASE k = m
        <4>1. m - 1 \in 0..m /\ m - 1 # m /\ m \in 0..m  BY <2>1
        <4>2. g[m - 1] = f[m - 1] /\ g[m] = last  BY <4>1
        <4>3. QED  BY <1>4, <3>1, <4>2
      <3>2. CASE k # m
        <4>1. k \in 0..(m - 1) /\ g[k] = f[k]  BY <2>1, <3>2
        <4>2. k # 0 => k - 1 \in 0..m /\ k - 1 # m  BY <2>1, <4>1
        <4>3. k # 0 => g[k - 1] = f[k - 1]  BY <4>2
        <4>4. QED  BY <2>4, <4>1, <4>3
      <3>3. QED  BY <3>1, <3>2
    <2>7. g \in Passes(p, m)
      <3> HIDE DEF g
      <3>1. QED  BY <2>5, <2>6 DEF Passes
    <2>8. QED  BY <2>7
  <1>5. QED  BY <1>3, <1>4

\* When every task is completed, each set of tasks has one that waits for no other of it.
LEMMA CompletedIsAcyclic ==
    ASSUME NEW p \in Plans, Completed(p) = Tasks(p),
           NEW S \in SUBSET Tasks(p), S # {}
    PROVE  \E i \in S : \A j \in S : j \notin Prerequisites(p, i)
  <1> DEFINE done[n \in 0..Len(p)] ==
                IF n = 0 THEN {} ELSE {i \in Tasks(p) : Prerequisites(p, i) \subseteq done[n - 1]}
  <1>1. Len(p) \in Nat  BY PlanFacts
  <1>2. Completed(p) = done[Len(p)]  BY DEF Completed
  <1>3. \A n \in 0..Len(p) :
           done[n] = IF n = 0 THEN {} ELSE {i \in Tasks(p) : Prerequisites(p, i) \subseteq done[n - 1]}
    <2>1. PICK f \in Passes(p, Len(p)) : TRUE  BY <1>1, PassesExist
    <2>2. f = [n \in 0..Len(p) |->
                  IF n = 0 THEN {} ELSE {i \in Tasks(p) : Prerequisites(p, i) \subseteq f[n - 1]}]
      BY <2>1 DEF Passes
    <2>3. done = [n \in 0..Len(p) |->
                  IF n = 0 THEN {} ELSE {i \in Tasks(p) : Prerequisites(p, i) \subseteq done[n - 1]}]
      BY <2>2
    <2> HIDE DEF done
    <2>4. QED  BY <2>3
  <1> HIDE DEF done
  <1> DEFINE T == {n \in 0..Len(p) : done[n] \cap S # {}}
  <1>4. Len(p) \in T  BY <1>1, <1>2
  <1>5. PICK n \in T : \A k \in T : n <= k
    <2>1. T \in SUBSET Nat /\ T # {}  BY <1>4
    <2> HIDE DEF T
    <2>2. QED  BY <2>1, NatMin
  <1>6. n # 0  BY <1>3
  <1>7. PICK i \in S : i \in done[n]  OBVIOUS
  <1>8. Prerequisites(p, i) \subseteq done[n - 1]  BY <1>3, <1>6, <1>7
  <1>9. n - 1 \in 0..Len(p) /\ ~(n <= n - 1)  BY <1>1, <1>6
  <1>10. done[n - 1] \cap S = {}  BY <1>5, <1>9
  <1>11. QED  BY <1>8, <1>10

LEMMA FollowsOf ==
    ASSUME NEW p, NEW i, NEW j
    PROVE  Follows(i, j) \in Orderings(p) <=>
              /\ i \in Tasks(p)
              /\ IF HasIds(p) THEN j \in Prerequisites(p, i) ELSE j \in Tasks(p) /\ NextGroup(p, j, i)
  <1>1. \A k, l : Follows(i, j) = Follows(k, l) => i = k /\ j = l  BY DEF Follows
  <1>2. CASE HasIds(p)
    <2>1. Follows(i, j) \in Orderings(p) <=>
             \E k \in Tasks(p) : \E l \in Prerequisites(p, k) : Follows(i, j) = Follows(k, l)
      BY <1>2 DEF Orderings
    <2>2. QED  BY <1>1, <1>2, <2>1
  <1>3. CASE ~HasIds(p)
    <2>1. Follows(i, j) \in Orderings(p) <=>
             \E k \in Tasks(p) : \E l \in {m \in Tasks(p) : NextGroup(p, m, k)} :
                Follows(i, j) = Follows(k, l)
      BY <1>3 DEF Orderings
    <2>2. QED  BY <1>1, <1>3, <2>1
  <1>4. QED  BY <1>2, <1>3

LEMMA OrderingsAreFollows ==
    ASSUME NEW p, NEW e \in Orderings(p)
    PROVE  \E i, j \in Tasks(p) : e = Follows(i, j)
  BY DEF Orderings, Prerequisites

\* The graph of a valid plan has no cycle: no set of children waits for itself.
LEMMA ValidIsAcyclic ==
    ASSUME NEW p \in Plans, Valid(p), NEW S \in SUBSET Tasks(p), S # {}
    PROVE  \E i \in S : \A j \in S : Follows(i, j) \notin Orderings(p)
  <1>1. CASE OrderOnly(p)
    <2>1. ~HasIds(p)  BY <1>1 DEF OrderOnly, HasIds
    <2> DEFINE T == {p[i].order : i \in S}
    <2>2. T \in SUBSET Nat /\ T # {}  BY PlanFacts
    <2>3. PICK x \in T : \A y \in T : x <= y
      <3> HIDE DEF T
      <3>1. QED  BY <2>2, NatMin
    <2>4. PICK i \in S : p[i].order = x  OBVIOUS
    <2>5. ASSUME NEW j \in S PROVE ~NextGroup(p, j, i)
      <3>1. p[j].order \in T /\ p[j].order \in Nat /\ p[i].order \in Nat  BY PlanFacts
      <3>2. p[i].order <= p[j].order  BY <2>3, <2>4, <3>1
      <3>3. ~(p[j].order < p[i].order)  BY <3>1, <3>2
      <3>4. QED  BY <3>3 DEF NextGroup
    <2>6. QED  BY <2>1, <2>5, FollowsOf
  <1>2. CASE ~OrderOnly(p)
    <2>1. /\ Completed(p) = Tasks(p) /\ p # <<>>
          /\ \A i \in Tasks(p) : p[i].id # 0
      BY <1>2 DEF Valid, ValidGraph
    <2>2. HasIds(p)  BY <2>1 DEF HasIds
    <2>3. QED  BY <2>1, <2>2, CompletedIsAcyclic, FollowsOf
  <1>3. QED  BY <1>1, <1>2

\* A set of children that holds what its members wait for, holds with a child of one
\* order group every child of an earlier one.
LEMMA EarlierGroupsComeFirst ==
    ASSUME NEW p \in Plans, OrderOnly(p), NEW S \in SUBSET Tasks(p),
           \A a \in S : \A b \in Tasks(p) : Follows(a, b) \in Orderings(p) => b \in S,
           NEW i \in S, NEW j \in Tasks(p), p[j].order < p[i].order
    PROVE  j \in S
  <1>1. ~HasIds(p)  BY DEF OrderOnly, HasIds
  <1>2. \A a \in S : \A b \in Tasks(p) : NextGroup(p, b, a) => b \in S  BY <1>1, FollowsOf
  <1>3. \A k \in Tasks(p) : p[k].order \in Nat  BY PlanFacts
  <1> DEFINE later == {p[k].order : k \in {l \in S : p[j].order < p[l].order}}
  <1>4. PICK x \in later : \A y \in later : x <= y
    <2>1. later \in SUBSET Nat /\ later # {}  BY <1>3
    <2> HIDE DEF later
    <2>2. QED  BY <2>1, NatMin
  <1>5. PICK k \in S : p[j].order < p[k].order /\ p[k].order = x  OBVIOUS
  <1> DEFINE earlier == {p[l].order : l \in {m \in Tasks(p) : p[m].order < p[k].order}}
  <1>6. p[k].order \in Nat /\ earlier \in SUBSET Nat /\ \A y \in earlier : y < p[k].order
    BY <1>3
  <1>7. p[j].order \in earlier  BY <1>5
  <1>8. PICK z \in earlier : \A y \in earlier : y <= z
    <2> HIDE DEF earlier
    <2>1. earlier # {}  BY <1>7
    <2>2. QED  BY <1>6, <2>1, BelowMax
  <1>9. PICK l \in Tasks(p) : p[l].order < p[k].order /\ p[l].order = z  OBVIOUS
  <1>10. \A m \in Tasks(p) : p[m].order < p[k].order => p[m].order <= p[l].order  BY <1>8, <1>9
  <1>11. l \in S
    <2>1. NextGroup(p, l, k)  BY <1>3, <1>9, <1>10 DEF NextGroup
    <2>2. QED  BY <1>2, <2>1
  <1>12. p[j].order <= p[l].order  BY <1>5, <1>10
  <1>13. ~(p[j].order < p[l].order)
    <2>1. SUFFICES ASSUME p[j].order < p[l].order PROVE FALSE  OBVIOUS
    <2>2. p[l].order \in later  BY <1>11, <2>1
    <2>3. p[k].order <= p[l].order  BY <1>4, <1>5, <2>2
    <2>4. QED  BY <1>3, <1>9, <2>3
  <1>14. p[j].order = p[l].order  BY <1>3, <1>12, <1>13
  <1>15. NextGroup(p, j, k)  BY <1>3, <1>5, <1>10, <1>14 DEF NextGroup
  <1>16. QED  BY <1>2, <1>15

-----------------------------------------------------------------------------
(* Type correctness.                                                        *)

ChildRecord == [st : {"absent", "scaffold", "planned", "edited", "deleted"}, of : Plans \cup {NoPlan}]

LEMMA ScaffoldFacts ==
    ASSUME NEW n \in 0..MaxChildren, Scaffold(n)
    PROVE  /\ child \in [Children -> ChildRecord] /\ edges \subseteq Edge
           /\ \A i \in Children : child[i].of = NoPlan
  <1>1. MaxChildren \in Nat /\ n \in Nat /\ n <= MaxChildren  BY DecompositionAssumption
  <1>2. 1..n \subseteq Children  BY <1>1 DEF Children
  <1>3. child = [i \in Children |-> Child(IF i <= n THEN "scaffold" ELSE "absent", NoPlan)]
    BY DEF Scaffold
  <1>4. child \in [Children -> ChildRecord] /\ \A i \in Children : child[i].of = NoPlan
    BY <1>3 DEF Child, ChildRecord
  <1>5. \A e \in edges : \/ \E i \in 1..n : e \in Hierarchy(i)
                         \/ \E i \in 2..n : e = Follows(i, i - 1)
    BY DEF Scaffold
  <1>6. \A i \in 2..n : i \in 1..n /\ i - 1 \in 1..n  BY <1>1
  <1>7. edges \subseteq Edge  BY <1>2, <1>5, <1>6 DEF Hierarchy, Follows, Edge
  <1>8. QED  BY <1>4, <1>7

LEMMA GraphIsOfChildren == ASSUME NEW p \in Plans PROVE Graph(p) \subseteq Edge
  <1>1. \A i \in Tasks(p) : Hierarchy(i) \subseteq Edge  BY PlanFacts DEF Hierarchy, Edge
  <1>2. Orderings(p) \subseteq Edge  BY OrderingsAreFollows, PlanFacts DEF Follows, Edge
  <1>3. QED  BY <1>1, <1>2 DEF Graph

\* The next child to be appended is one of those to do.
LEMMA NextTodo == ASSUME DecompositionTypeOK, todo # {} PROVE Min(todo) \in todo /\ Min(todo) \in Children
  <1>1. todo \in SUBSET Children /\ Children \subseteq Nat
    BY DEF DecompositionTypeOK, Children
  <1>2. todo \in SUBSET Nat  BY <1>1
  <1>3. Min(todo) \in todo  BY <1>2, MinIsMember
  <1>4. QED  BY <1>1, <1>3

PlanIsKnown == pc # "idle" => plan \in Plans

LEMMA StepKeepsType ==
    ASSUME DecompositionTypeOK, PlanIsKnown, [DecompositionNext]_dvars
    PROVE  DecompositionTypeOK' /\ PlanIsKnown'
  <1> USE DEF DecompositionTypeOK, PlanIsKnown, graph
  <1>1. ASSUME NEW p \in Plans, Decompose(p) \/ Recover(p)
        PROVE  DecompositionTypeOK' /\ PlanIsKnown'
    <2>1. Apply(p)  BY <1>1 DEF Decompose, Recover
    <2>2. todo' \subseteq Children  BY <2>1, PlanFacts DEF Apply, MissingChildren
    <2>3. QED  BY <2>1, <2>2 DEF Apply, Pin
  <1>2. CASE SyncPlan  BY <1>2 DEF SyncPlan, Pin
  <1>3. ASSUME AppendChild PROVE DecompositionTypeOK' /\ PlanIsKnown'
    <2>1. Min(todo) \in Children /\ plan \in Plans
      BY <1>3, NextTodo DEF AppendChild
    <2>2. Child("planned", plan) \in ChildRecord  BY <2>1 DEF Child, ChildRecord
    <2>3. child' \in [Children -> ChildRecord]
      BY <1>3, <2>1, <2>2 DEF AppendChild, ChildRecord
    <2>4. QED  BY <1>3, <2>3 DEF AppendChild, ChildRecord
  <1>4. ASSUME AddEdge PROVE DecompositionTypeOK' /\ PlanIsKnown'
    <2>1. edges' \subseteq Edge
      BY <1>4, GraphIsOfChildren DEF AddEdge, MissingEdges
    <2>2. QED  BY <1>4, <2>1 DEF AddEdge
  <1>5. CASE Release  BY <1>5 DEF Release
  <1>6. CASE Interrupt
    <2>1. interruptions' \in 0..MaxInterruptions
      BY <1>6, DecompositionAssumption DEF Interrupt
    <2>2. QED  BY <1>6, <2>1 DEF Interrupt
  <1>7. ASSUME NEW i \in Children, EditChild(i) \/ DeleteChild(i)
        PROVE  DecompositionTypeOK' /\ PlanIsKnown'
    <2>1. child' \in [Children -> ChildRecord]  BY <1>7 DEF EditChild, DeleteChild, ChildRecord
    <2>2. QED  BY <1>7, <2>1 DEF EditChild, DeleteChild, ChildRecord
  <1>8. CASE UNCHANGED dvars  BY <1>8 DEF dvars
  <1>9. QED  BY <1>1, <1>2, <1>3, <1>4, <1>5, <1>6, <1>7, <1>8 DEF DecompositionNext

LEMMA InitHasType == DecompositionInit => DecompositionTypeOK /\ PlanIsKnown
  <1>1. SUFFICES ASSUME DecompositionInit PROVE DecompositionTypeOK /\ PlanIsKnown  OBVIOUS
  <1>2. \E n \in 0..MaxChildren : Scaffold(n)
    BY <1>1, DecompositionAssumption DEF DecompositionInit
  <1>3. child \in [Children -> ChildRecord] /\ edges \subseteq Edge  BY <1>2, ScaffoldFacts
  <1>4. interruptions \in 0..MaxInterruptions
    BY <1>1, DecompositionAssumption DEF DecompositionInit
  <1>5. QED
    BY <1>1, <1>3, <1>4 DEF DecompositionInit, DecompositionTypeOK, PlanIsKnown, ChildRecord, Pin

\* Every reachable state is of the declared types.
THEOREM DecompositionTypeCorrect == DecompositionSpec => []DecompositionTypeOK
  BY InitHasType, StepKeepsType, PTL DEF DecompositionSpec
-----------------------------------------------------------------------------
(* What is written belongs to one plan, and what is released is all of it.    *)

\* The pin holds the plan that is being written, and only a valid one.
PinHoldsPlan ==
    /\ pc = "pinning" => pin.st = "torn"
    /\ pc = "writing" => pin = Pin("written", plan)
    /\ pc # "idle" => plan \in Plans /\ Valid(plan)
    /\ pin.st = "written" => pin.of \in Plans /\ Valid(pin.of)

\* While a plan is applied, nothing shows that it does not have, and what is stored
\* between its children is part of its graph.
StoredIsPlanned == pc # "idle" => Present \subseteq Tasks(plan) /\ Inside(plan) \subseteq Graph(plan)

\* A child of the plan that has no record is still to be appended.
TodoIsMissing ==
    pc # "idle" => todo \subseteq Tasks(plan) /\ \A i \in Tasks(plan) \ todo : child[i].st # "absent"

ChildrenAreOfPin == \A i \in Children : child[i].of # NoPlan => pin = Pin("written", child[i].of)

GraphInv ==
    PinHoldsPlan /\ StoredIsPlanned /\ TodoIsMissing /\ ChildrenAreOfPin /\ ReleasedGraphIsWhole

\* The reconciliation lets only a plan through that has all that shows.
LEMMA ReconciledIsPlanned ==
    ASSUME DecompositionTypeOK, NEW p \in Plans, Reconciles(p)
    PROVE  Present \subseteq Tasks(p) /\ Inside(p) \subseteq Graph(p)
  <1>1. Present \subseteq Tasks(p)  BY DEF Reconciles
  <1>2. ASSUME NEW e \in Inside(p)  PROVE e \in Graph(p)
    <2>1. e \in edges /\ e \in Edge /\ e[2] \in Tasks(p) /\ e[3] \in Tasks(p) \cup {0}
      BY DEF Inside, DecompositionTypeOK
    <2>2. CASE e \in {"parent", "child"} \X Children \X {0}
      <3>1. e \in Hierarchy(e[2])  BY <2>2 DEF Hierarchy
      <3>2. QED  BY <2>1, <3>1 DEF Graph
    <2>3. CASE e \in {"follows"} \X Children \X Children
      <3>1. e[1] = "follows" /\ e[3] # 0  BY <2>3 DEF Children
      <3>2. e \in StoredOrderings /\ {e[2], e[3]} \subseteq Tasks(p)
        BY <2>1, <3>1 DEF StoredOrderings
      <3>3. e \in Orderings(p)  BY <3>2 DEF Reconciles
      <3>4. QED  BY <3>3 DEF Graph
    <2>4. QED  BY <2>1, <2>2, <2>3 DEF Edge
  <1>3. QED  BY <1>1, <1>2

\* A graph lies among the children of its plan.
LEMMA GraphIsInside ==
    ASSUME NEW p \in Plans, NEW e \in Graph(p)
    PROVE  e[2] \in Tasks(p) /\ e[3] \in Tasks(p) \cup {0}
  <1>1. CASE e \in Orderings(p)  BY <1>1, OrderingsAreFollows DEF Follows
  <1>2. CASE \E i \in Tasks(p) : e \in Hierarchy(i)  BY <1>2 DEF Hierarchy
  <1>3. QED  BY <1>1, <1>2 DEF Graph

LEMMA ApplyKeepsGraph ==
    ASSUME DecompositionTypeOK, GraphInv, NEW p \in Plans, Decompose(p) \/ Recover(p)
    PROVE  GraphInv'
  <1>1. /\ pc = "idle" /\ Valid(p) /\ Reconciles(p) /\ Pinned(p)
        /\ plan' = p /\ todo' = MissingChildren(p) /\ UNCHANGED <<parent, child, edges, legacy>>
        /\ IF pin.st = "written" THEN pc' = "writing" /\ pin' = pin
                                 ELSE pc' = "pinning" /\ pin' = Pin("torn", NoPlan)
    BY DEF Decompose, Recover, Apply, graph
  <1>2. PinHoldsPlan'
    <2>1. pin.st = "written" => pin = Pin("written", p) /\ pin.of = p
      BY <1>1 DEF Pinned, Pin
    <2>2. QED  BY <1>1, <2>1 DEF PinHoldsPlan, Pin
  <1>3. StoredIsPlanned'
    <2>1. Present \subseteq Tasks(p) /\ Inside(p) \subseteq Graph(p)
      BY <1>1, ReconciledIsPlanned
    <2>2. QED  BY <1>1, <2>1 DEF StoredIsPlanned, Present, Inside
  <1>4. TodoIsMissing'
    <2>1. \A i \in Tasks(p) : i \notin MissingChildren(p) => child[i].st # "absent"
      BY DEF MissingChildren, Present
    <2>2. QED  BY <1>1, <2>1 DEF TodoIsMissing, MissingChildren
  <1>5. ASSUME pin.st # "written"
        PROVE  (\A i \in Children : child[i].of = NoPlan) /\ ~Whole
    BY <1>5 DEF GraphInv, ChildrenAreOfPin, ReleasedGraphIsWhole, Pin
  <1>6. ChildrenAreOfPin' /\ ReleasedGraphIsWhole'
    <2>1. CASE pin.st = "written"
      BY <1>1, <2>1
         DEF GraphInv, ChildrenAreOfPin, ReleasedGraphIsWhole, Whole, Present, Inside
    <2>2. CASE pin.st # "written"
      BY <1>1, <1>5, <2>2 DEF ChildrenAreOfPin, ReleasedGraphIsWhole, Whole
    <2>3. QED  BY <2>1, <2>2
  <1>7. QED  BY <1>2, <1>3, <1>4, <1>6 DEF GraphInv

LEMMA SyncKeepsGraph ==
    ASSUME DecompositionTypeOK, GraphInv, SyncPlan
    PROVE  GraphInv'
  <1>1. /\ pc = "pinning" /\ pc' = "writing" /\ pin' = Pin("written", plan)
        /\ UNCHANGED <<parent, child, edges, plan, todo, legacy>>
    BY DEF SyncPlan, graph
  <1>2. pin.st # "written"  BY <1>1 DEF GraphInv, PinHoldsPlan
  <1>3. (\A i \in Children : child[i].of = NoPlan) /\ ~Whole
    BY <1>2 DEF GraphInv, ChildrenAreOfPin, ReleasedGraphIsWhole, Pin
  <1>4. PinHoldsPlan'  BY <1>1 DEF GraphInv, PinHoldsPlan, Pin
  <1>5. StoredIsPlanned' /\ TodoIsMissing'
    BY <1>1 DEF GraphInv, StoredIsPlanned, TodoIsMissing, Present, Inside
  <1>6. ChildrenAreOfPin' /\ ReleasedGraphIsWhole'
    BY <1>1, <1>3 DEF ChildrenAreOfPin, ReleasedGraphIsWhole, Whole
  <1>7. QED  BY <1>4, <1>5, <1>6 DEF GraphInv

\* A child is appended from the pinned plan: one that has no record, or a deleted one.
LEMMA AppendPointwise ==
    ASSUME DecompositionTypeOK, GraphInv, AppendChild
    PROVE  /\ pc = "writing" /\ plan \in Plans /\ pin = Pin("written", plan)
           /\ UNCHANGED <<parent, edges, pin, plan, pc, legacy>>
           /\ \E new \in Tasks(plan) :
                  /\ new \in Children /\ new \in todo /\ todo' = todo \ {new}
                  /\ \A i \in Children : child'[i] = IF i = new THEN Child("planned", plan) ELSE child[i]
  <1>1. /\ pc = "writing" /\ plan \in Plans /\ pin = Pin("written", plan) /\ todo # {}
        /\ child' = [child EXCEPT ![Min(todo)] = Child("planned", plan)]
        /\ todo' = todo \ {Min(todo)} /\ todo \subseteq Tasks(plan)
        /\ UNCHANGED <<parent, edges, pin, plan, pc, legacy>>
    BY DEF AppendChild, GraphInv, PinHoldsPlan, TodoIsMissing
  <1>2. PICK new \in todo : new = Min(todo) /\ new \in Children  BY <1>1, NextTodo
  <1>3. \A i \in Children : child'[i] = IF i = new THEN Child("planned", plan) ELSE child[i]
    BY <1>1, <1>2 DEF DecompositionTypeOK
  <1>4. QED  BY <1>1, <1>2, <1>3

LEMMA AppendKeepsGraph ==
    ASSUME DecompositionTypeOK, GraphInv, AppendChild
    PROVE  GraphInv'
  <1>1. /\ pc = "writing" /\ plan \in Plans /\ pin = Pin("written", plan) /\ pin.of = plan
        /\ UNCHANGED <<parent, edges, pin, plan, pc, legacy>>
    BY AppendPointwise DEF Pin
  <1>2. PICK new \in Tasks(plan) :
           /\ new \in Children /\ new \in todo /\ todo' = todo \ {new}
           /\ \A i \in Children : child'[i] = IF i = new THEN Child("planned", plan) ELSE child[i]
    BY AppendPointwise
  <1>3. Present' = Present \cup {new}  BY <1>2 DEF Present, Child
  <1>4. Tasks(plan) \subseteq Children  BY <1>1, PlanFacts
  <1>5. child'[new].st # "absent"  BY <1>2 DEF Child
  <1>6. \A i \in Children : child[i].st # "absent" => child'[i].st # "absent"
    BY <1>2, <1>5
  <1>7. PinHoldsPlan'  BY <1>1 DEF GraphInv, PinHoldsPlan
  <1>8. StoredIsPlanned'
    BY <1>1, <1>2, <1>3 DEF GraphInv, StoredIsPlanned, Inside
  <1>9. TodoIsMissing'
    <2>1. todo \subseteq Tasks(plan) /\ \A i \in Tasks(plan) \ todo : child[i].st # "absent"
      BY <1>1 DEF GraphInv, TodoIsMissing
    <2>2. todo' \subseteq Tasks(plan)  BY <1>2, <2>1
    <2>3. \A i \in Tasks(plan) \ todo' : child'[i].st # "absent"
      BY <1>2, <1>4, <1>5, <1>6, <2>1
    <2>4. QED  BY <1>1, <2>2, <2>3 DEF TodoIsMissing
  <1>10. ChildrenAreOfPin'
    BY <1>1, <1>2 DEF GraphInv, ChildrenAreOfPin, Child
  <1>11. ReleasedGraphIsWhole'
    BY <1>1, <1>2, <1>3, <1>4, <1>6 DEF GraphInv, ReleasedGraphIsWhole, Whole, Inside
  <1>12. QED  BY <1>7, <1>8, <1>9, <1>10, <1>11 DEF GraphInv

LEMMA EdgeKeepsGraph ==
    ASSUME DecompositionTypeOK, GraphInv, AddEdge
    PROVE  GraphInv'
  <1>1. PICK e \in MissingEdges : edges' = edges \cup {e}  BY DEF AddEdge
  <1>2. /\ pc = "writing" /\ plan \in Plans /\ pin = Pin("written", plan) /\ pin.of = plan
        /\ UNCHANGED <<parent, child, pin, plan, todo, pc, legacy>>
    BY DEF AddEdge, GraphInv, PinHoldsPlan, Pin
  <1>3. e \in Graph(plan) /\ e \notin edges  BY <1>1 DEF MissingEdges
  <1>4. e[2] \in Tasks(plan) /\ e[3] \in Tasks(plan) \cup {0}  BY <1>2, <1>3, GraphIsInside
  <1>5. Inside(plan)' = Inside(plan) \cup {e} /\ Present' = Present
    BY <1>1, <1>2, <1>4 DEF Inside, Present
  <1>6. PinHoldsPlan' /\ StoredIsPlanned' /\ TodoIsMissing' /\ ChildrenAreOfPin'
    BY <1>2, <1>3, <1>5
       DEF GraphInv, PinHoldsPlan, StoredIsPlanned, TodoIsMissing, ChildrenAreOfPin
  <1>7. ~Whole
    <2>1. e \notin Inside(plan)  BY <1>3 DEF Inside
    <2>2. QED  BY <1>2, <1>3, <2>1 DEF GraphInv, ReleasedGraphIsWhole
  <1>8. ReleasedGraphIsWhole'  BY <1>2, <1>7 DEF ReleasedGraphIsWhole, Whole
  <1>9. QED  BY <1>6, <1>8 DEF GraphInv

\* With nothing missing and nothing unplanned, what is stored is the graph.
LEMMA StoredIsGraph ==
    ASSUME GraphInv, Release
    PROVE  /\ pc = "writing" /\ pin = Pin("written", plan) /\ pin.of = plan /\ pin.st = "written"
           /\ plan \in Plans /\ \A i \in Tasks(plan) : child[i].st # "absent"
           /\ Inside(plan) = Graph(plan) /\ Present \subseteq Tasks(plan)
  <1>1. pc = "writing" /\ todo = {} /\ MissingEdges = {}  BY DEF Release
  <1>2. /\ pin = Pin("written", plan) /\ pin.of = plan /\ pin.st = "written" /\ plan \in Plans
        /\ Present \subseteq Tasks(plan) /\ Inside(plan) \subseteq Graph(plan)
        /\ \A i \in Tasks(plan) : child[i].st # "absent"
    BY <1>1 DEF GraphInv, PinHoldsPlan, StoredIsPlanned, TodoIsMissing, Pin
  <1>3. Graph(plan) \subseteq Inside(plan)
    <2>1. SUFFICES ASSUME NEW e \in Graph(plan) PROVE e \in Inside(plan)  OBVIOUS
    <2>2. e \in edges  BY <1>1 DEF MissingEdges
    <2>3. QED  BY <1>2, <2>2, GraphIsInside DEF Inside
  <1>4. QED  BY <1>1, <1>2, <1>3

LEMMA ReleaseKeepsGraph ==
    ASSUME DecompositionTypeOK, GraphInv, Release
    PROVE  GraphInv'
  <1>1. pc' = "idle" /\ UNCHANGED <<child, edges, pin>>
    BY DEF Release, graph
  <1>2. ReleasedGraphIsWhole'
    BY <1>1, StoredIsGraph DEF ReleasedGraphIsWhole, Present, Inside
  <1>3. PinHoldsPlan' /\ StoredIsPlanned' /\ TodoIsMissing' /\ ChildrenAreOfPin'
    BY <1>1 DEF GraphInv, PinHoldsPlan, StoredIsPlanned, TodoIsMissing, ChildrenAreOfPin
  <1>4. QED  BY <1>2, <1>3 DEF GraphInv

\* Edits and deletions leave every child its record and its plan, and show no new one.
LEMMA OthersPointwise ==
    ASSUME DecompositionTypeOK,
           Interrupt \/ (\E i \in Children : EditChild(i) \/ DeleteChild(i)) \/ UNCHANGED dvars
    PROVE  /\ UNCHANGED <<parent, edges, pin, legacy>>
           /\ pc' = "idle" \/ UNCHANGED <<pc, plan, todo>>
           /\ \A i \in Children :
                 child'[i].of = child[i].of /\ (child'[i].st = "absent" <=> child[i].st = "absent")
           /\ Present' \subseteq Present
  <1>1. /\ UNCHANGED <<parent, edges, pin, legacy>>
        /\ pc' = "idle" \/ UNCHANGED <<pc, plan, todo>>
    BY DEF Interrupt, EditChild, DeleteChild, dvars, graph
  <1>2. CASE Interrupt \/ UNCHANGED dvars
    BY <1>1, <1>2 DEF Interrupt, dvars, graph, Present
  <1>3. ASSUME NEW j \in Children, EditChild(j) \/ DeleteChild(j)
        PROVE  /\ \A i \in Children :
                     child'[i].of = child[i].of /\ (child'[i].st = "absent" <=> child[i].st = "absent")
               /\ Present' \subseteq Present
    <2>1. \E st \in {"edited", "deleted"} : child' = [child EXCEPT ![j].st = st]
      BY <1>3 DEF EditChild, DeleteChild
    <2>2. j \in Present  BY <1>3 DEF EditChild, DeleteChild, Present
    <2>3. \A i \in Children : i # j => child'[i] = child[i]
      BY <2>1 DEF DecompositionTypeOK
    <2>4. child'[j].of = child[j].of /\ child'[j].st \in {"edited", "deleted"}
      BY <2>1 DEF DecompositionTypeOK
    <2>5. QED  BY <2>2, <2>3, <2>4 DEF Present
  <1>4. QED  BY <1>1, <1>2, <1>3

LEMMA OthersKeepGraph ==
    ASSUME DecompositionTypeOK, GraphInv,
           Interrupt \/ (\E i \in Children : EditChild(i) \/ DeleteChild(i)) \/ UNCHANGED dvars
    PROVE  GraphInv'
  <1>1. /\ UNCHANGED <<parent, edges, pin, legacy>>
        /\ pc' = "idle" \/ UNCHANGED <<pc, plan, todo>>
        /\ \A i \in Children :
              child'[i].of = child[i].of /\ (child'[i].st = "absent" <=> child[i].st = "absent")
        /\ Present' \subseteq Present
    BY OthersPointwise
  <1>2. PinHoldsPlan' /\ StoredIsPlanned'
    BY <1>1 DEF GraphInv, PinHoldsPlan, StoredIsPlanned, Inside
  <1>3. TodoIsMissing'
    <2>1. SUFFICES ASSUME pc' # "idle" PROVE TodoIsMissing'  BY DEF TodoIsMissing
    <2>2. plan \in Plans  BY <1>1, <2>1 DEF GraphInv, PinHoldsPlan
    <2>3. Tasks(plan) \subseteq Children  BY <2>2, PlanFacts
    <2>4. QED  BY <1>1, <2>1, <2>3 DEF GraphInv, TodoIsMissing
  <1>4. ChildrenAreOfPin'  BY <1>1 DEF GraphInv, ChildrenAreOfPin
  <1>5. ReleasedGraphIsWhole'
    <2>1. SUFFICES ASSUME Whole' PROVE ReleasedGraphIsWhole'  BY DEF ReleasedGraphIsWhole
    <2>2. Whole  BY <1>1, <2>1 DEF Whole
    <2>3. pin.of \in Plans  BY <2>2 DEF GraphInv, ReleasedGraphIsWhole, PinHoldsPlan
    <2>4. Tasks(pin.of) \subseteq Children  BY <2>3, PlanFacts
    <2>5. QED  BY <1>1, <2>2, <2>4 DEF GraphInv, ReleasedGraphIsWhole, Inside
  <1>6. QED  BY <1>2, <1>3, <1>4, <1>5 DEF GraphInv

\* What is stored among the children is part of the graph of the pinned plan, and a
\* released parent has all of it: the inductive invariant behind the theorems below.
THEOREM GraphIsInvariant == DecompositionSpec => []GraphInv
  <1>1. DecompositionInit => GraphInv
    <2>1. SUFFICES ASSUME DecompositionInit PROVE GraphInv  OBVIOUS
    <2>2. PICK n \in 0..MaxChildren : Scaffold(n)
      BY <2>1, DecompositionAssumption DEF DecompositionInit
    <2>3. \A i \in Children : child[i].of = NoPlan
      BY <2>2, ScaffoldFacts
    <2>4. pc = "idle" /\ pin.st = "none" /\ ~Whole
      BY <2>1 DEF DecompositionInit, Whole, Pin
    <2>5. QED
      BY <2>3, <2>4 DEF GraphInv, PinHoldsPlan, StoredIsPlanned, TodoIsMissing, ChildrenAreOfPin,
                        ReleasedGraphIsWhole
  <1>2. DecompositionTypeOK /\ GraphInv /\ [DecompositionNext]_dvars => GraphInv'
    BY ApplyKeepsGraph, SyncKeepsGraph, AppendKeepsGraph, EdgeKeepsGraph, ReleaseKeepsGraph,
       OthersKeepGraph
    DEF DecompositionNext
  <1>3. QED  BY <1>1, <1>2, DecompositionTypeCorrect, PTL DEF DecompositionSpec

\* However often the writing of a graph was interrupted and replayed, and whatever
\* children were deleted: a released parent has every child and every edge of one plan,
\* no other ordering among them, and shows no other child.
THEOREM ReleasedGraphsAreWhole == DecompositionSpec => []ReleasedGraphIsWhole
  <1>1. GraphInv => ReleasedGraphIsWhole  BY DEF GraphInv
  <1>2. QED  BY <1>1, GraphIsInvariant, PTL

\* A released graph has no cycle, and keeps later order groups after earlier ones.
THEOREM ReleasedOrderIsKept == DecompositionSpec => []OrderingIsKept
  <1>1. GraphInv => OrderingIsKept
    <2>1. SUFFICES ASSUME GraphInv, Whole
          PROVE  /\ \A S \in (SUBSET Tasks(pin.of)) \ {{}} :
                       \E i \in S : \A j \in S : ~WaitsFor(i, j)
                 /\ OrderOnly(pin.of) =>
                       \A i, j \in Tasks(pin.of) : pin.of[j].order < pin.of[i].order => Comes(i, j)
      BY DEF OrderingIsKept
    <2>2. pin.of \in Plans /\ Valid(pin.of) /\ Inside(pin.of) = Graph(pin.of)
      BY <2>1 DEF GraphInv, ReleasedGraphIsWhole, PinHoldsPlan
    <2>3. \A i, j \in Tasks(pin.of) : WaitsFor(i, j) <=> Follows(i, j) \in Orderings(pin.of)
      <3>1. \A i, j, k : Follows(i, j) \notin Hierarchy(k)  BY DEF Follows, Hierarchy
      <3>2. \A i, j \in Tasks(pin.of) : Follows(i, j)[2] = i /\ Follows(i, j)[3] = j
        BY DEF Follows
      <3>3. \A i, j \in Tasks(pin.of) : Follows(i, j) \in edges <=> Follows(i, j) \in Inside(pin.of)
        BY <3>2 DEF Inside
      <3>4. QED  BY <2>2, <3>1, <3>3 DEF WaitsFor, Graph
    <2>4. ASSUME NEW S \in (SUBSET Tasks(pin.of)) \ {{}}
          PROVE  \E i \in S : \A j \in S : ~WaitsFor(i, j)
      BY <2>2, <2>3, ValidIsAcyclic
    <2>5. ASSUME OrderOnly(pin.of), NEW i \in Tasks(pin.of), NEW j \in Tasks(pin.of),
                 pin.of[j].order < pin.of[i].order
          PROVE  Comes(i, j)
      BY <2>2, <2>3, <2>5, EarlierGroupsComeFirst DEF Comes
    <2>6. QED  BY <2>4, <2>5
  <1>2. QED  BY <1>1, GraphIsInvariant, PTL

\* Nothing is appended over a record that shows, however long ago the list was read.
TodoIsHidden == pc # "idle" => todo \cap Present = {}

LEMMA StepKeepsHidden ==
    ASSUME DecompositionTypeOK, GraphInv, TodoIsHidden, [DecompositionNext]_dvars
    PROVE  TodoIsHidden'
  <1>1. ASSUME NEW p \in Plans, Decompose(p) \/ Recover(p) PROVE TodoIsHidden'
    <2>1. todo' = MissingChildren(p) /\ UNCHANGED child
      BY <1>1 DEF Decompose, Recover, Apply, graph
    <2>2. QED  BY <2>1 DEF TodoIsHidden, MissingChildren, Present
  <1>2. CASE AppendChild
    <2>1. PICK new \in Tasks(plan) :
             /\ new \in Children /\ new \in todo /\ todo' = todo \ {new}
             /\ \A i \in Children : child'[i] = IF i = new THEN Child("planned", plan) ELSE child[i]
      BY <1>2, AppendPointwise
    <2>2. pc # "idle" /\ Present' \subseteq Present \cup {new}
      BY <1>2, <2>1 DEF AppendChild, Present
    <2>3. QED  BY <2>1, <2>2 DEF TodoIsHidden
  <1>3. CASE SyncPlan \/ AddEdge
    BY <1>3 DEF SyncPlan, AddEdge, graph, TodoIsHidden, Present
  <1>4. CASE Release  BY <1>4 DEF Release, TodoIsHidden
  <1>5. CASE Interrupt \/ (\E i \in Children : EditChild(i) \/ DeleteChild(i)) \/ UNCHANGED dvars
    BY <1>5, OthersPointwise DEF TodoIsHidden
  <1>6. QED  BY <1>1, <1>2, <1>3, <1>4, <1>5 DEF DecompositionNext

\* No step begins a child afresh that is there to be seen: its plan stays, and so do its
\* edits and its results, until it is deleted.  A deleted child is begun again, as the
\* replay does not see its tombstone (apply_decomposition, load_all).
THEOREM StoredChildrenSurvive == DecompositionSpec => ChildrenSurviveReplay
  <1> DEFINE Kept(i) ==
                 child'[i].of = child[i].of /\ child'[i].st \in {child[i].st, "edited", "deleted"}
  <1>1. ASSUME DecompositionTypeOK, GraphInv, TodoIsHidden, [DecompositionNext]_dvars,
               NEW i \in Present
        PROVE  Kept(i)
    <2>1. CASE AppendChild
      <3>1. PICK new \in Tasks(plan) :
               /\ new \in Children /\ new \in todo
               /\ \A k \in Children : child'[k] = IF k = new THEN Child("planned", plan) ELSE child[k]
        BY <1>1, <2>1, AppendPointwise
      <3>2. i # new  BY <1>1, <2>1, <3>1 DEF TodoIsHidden, AppendChild
      <3>3. QED  BY <3>1, <3>2 DEF Present
    <2>2. CASE \E j \in Children : EditChild(j) \/ DeleteChild(j)
      BY <1>1, <2>2 DEF EditChild, DeleteChild, DecompositionTypeOK, Present
    <2>3. CASE UNCHANGED child  BY <2>3
    <2>4. QED
      BY <1>1, <2>1, <2>2, <2>3
      DEF DecompositionNext, Decompose, Recover, Apply, SyncPlan, AddEdge, Release, Interrupt, graph,
          dvars
  <1>2. DecompositionTypeOK /\ GraphInv /\ TodoIsHidden /\ [DecompositionNext]_dvars
            => TodoIsHidden' /\ [\A i \in Present : Kept(i)]_dvars
    BY <1>1, StepKeepsHidden
  <1>3. DecompositionInit => TodoIsHidden  BY DEF DecompositionInit, TodoIsHidden
  <1>4. QED
    BY <1>2, <1>3, DecompositionTypeCorrect, GraphIsInvariant, PTL
    DEF DecompositionSpec, ChildrenSurviveReplay
-----------------------------------------------------------------------------
(* The refinement: one decision, children begun from it alone, and a release   *)
(* that shows all of its graph.                                               *)

Begun == [i \in Children |-> child[i].of]
Same == UNCHANGED <<Decision, Begun, Shown>>
ContractStep == D!Next \/ Same

\* A step that leaves the records, their edges and the parent alone shows nothing, if it
\* also leaves the plan alone that a released parent shows.
LEMMA NothingShown ==
    ASSUME UNCHANGED <<parent, child, edges, legacy>>, Decision' = Decision,
           ~Whole \/ pin' = pin
    PROVE  Same
  <1>1. Begun' = Begun /\ (Whole <=> Whole')  BY DEF Begun, Whole
  <1>2. Shown' = Shown
    <2>1. CASE ~Whole  BY <1>1, <2>1 DEF Shown
    <2>2. CASE Whole  BY <1>1, <2>2 DEF Shown, Recorded, Inside
    <2>3. QED  BY <2>1, <2>2
  <1>3. QED  BY <1>1, <1>2 DEF Same

LEMMA ValidIsPlan == ASSUME NEW p \in Plans, Valid(p) PROVE p # NoPlan /\ p \in DOMAIN PlanGraphs
  BY DEF Valid, NoPlan, PlanGraphs

\* Accepting a plan decides nothing yet: what is pinned stays pinned.
LEMMA ApplyShowsNothing ==
    ASSUME GraphInv, NEW p \in Plans, Decompose(p) \/ Recover(p)
    PROVE  Same
  <1>1. /\ UNCHANGED <<parent, child, edges, legacy>>
        /\ pin.st = "written" => pin' = pin
        /\ pin.st # "written" => pin' = Pin("torn", NoPlan)
    BY DEF Decompose, Recover, Apply, graph
  <1>2. Decision' = Decision  BY <1>1 DEF Decision, Pin
  <1>3. ~Whole \/ pin' = pin  BY <1>1 DEF GraphInv, ReleasedGraphIsWhole
  <1>4. QED  BY <1>1, <1>2, <1>3, NothingShown

\* The plan file on disk is the decision.
LEMMA SyncDecides ==
    ASSUME GraphInv, SyncPlan
    PROVE  D!Decide
  <1>1. /\ pin.st # "written" /\ plan \in Plans /\ Valid(plan)
        /\ pin' = Pin("written", plan) /\ UNCHANGED <<parent, child, edges, legacy>>
    BY DEF SyncPlan, GraphInv, PinHoldsPlan, graph
  <1>2. Decision = NoPlan /\ Decision' = plan  BY <1>1 DEF Decision, Pin
  <1>3. Decision' \in DOMAIN PlanGraphs  BY <1>1, <1>2, ValidIsPlan
  <1>4. ~Whole  BY <1>1 DEF GraphInv, ReleasedGraphIsWhole
  <1>5. UNCHANGED <<Begun, Shown>>  BY <1>1, <1>4 DEF Begun, Shown, Whole
  <1>6. QED  BY <1>2, <1>3, <1>5 DEF D!Decide, Begun

\* While a plan is written, what it asks for is decided and not yet all there.
LEMMA WritingIsDecided ==
    ASSUME DecompositionTypeOK, GraphInv, pc = "writing"
    PROVE  /\ plan \in Plans /\ Valid(plan) /\ Decision = plan /\ Decision # NoPlan
           /\ PlanGraphs[plan] = [children |-> Tasks(plan), edges |-> Graph(plan)]
           /\ pin.of = plan
  <1>1. plan \in Plans /\ Valid(plan) /\ pin = Pin("written", plan)
    BY DEF GraphInv, PinHoldsPlan
  <1>2. QED  BY <1>1, ValidIsPlan DEF Decision, Pin, PlanGraphs

\* A child is begun from the decision; one that was begun before is begun from no other.
LEMMA AppendBegins ==
    ASSUME DecompositionTypeOK, GraphInv, AppendChild
    PROVE  (\E i \in Children : D!Begin(i)) \/ Same
  <1>1. /\ pc = "writing" /\ plan \in Plans /\ pin = Pin("written", plan)
        /\ UNCHANGED <<parent, edges, pin, plan, legacy>>
    BY AppendPointwise
  <1>2. /\ Decision = plan /\ Decision # NoPlan /\ pin.of = plan
        /\ PlanGraphs[plan] = [children |-> Tasks(plan), edges |-> Graph(plan)]
    BY <1>1, WritingIsDecided
  <1>3. PICK new \in Tasks(plan) :
           /\ new \in Children
           /\ \A i \in Children : child'[i] = IF i = new THEN Child("planned", plan) ELSE child[i]
    BY AppendPointwise
  <1>4. UNCHANGED <<Shown, Decision>>
    <2>1. CASE ~Whole  BY <1>1, <2>1 DEF Shown, Whole, Decision
    <2>2. CASE Whole
      <3>1. \A i \in Tasks(plan) : child[i].st # "absent"
        BY <1>2, <2>2 DEF GraphInv, ReleasedGraphIsWhole
      <3>2. Tasks(plan) \subseteq Children  BY <1>1, PlanFacts
      <3>3. \A i \in Tasks(plan) : child'[i].st # "absent"  BY <1>3, <3>1, <3>2 DEF Child
      <3>4. Recorded(plan) = Tasks(plan) /\ Recorded(plan)' = Tasks(plan)
        BY <1>1, <3>1, <3>3 DEF Recorded
      <3>5. Inside(plan)' = Inside(plan)  BY <1>1 DEF Inside
      <3>6. QED  BY <1>1, <1>2, <3>4, <3>5 DEF Shown, Whole, Decision
    <2>3. QED  BY <2>1, <2>2
  <1>5. \A i \in Children : child'[i].of = IF i = new THEN plan ELSE child[i].of
    BY <1>3 DEF Child
  <1>6. CASE child[new].of = NoPlan
    <2>1. Begun' = [Begun EXCEPT ![new] = Decision]  BY <1>2, <1>3, <1>5 DEF Begun
    <2>2. new \in PlanGraphs[Decision].children /\ Begun[new] = NoPlan
      BY <1>2, <1>3, <1>6 DEF Begun
    <2>3. D!Begin(new)  BY <1>2, <1>4, <2>1, <2>2 DEF D!Begin, Begun
    <2>4. QED  BY <1>3, <2>3
  <1>7. CASE child[new].of # NoPlan
    <2>1. pin = Pin("written", child[new].of)  BY <1>3, <1>7 DEF GraphInv, ChildrenAreOfPin
    <2>2. child[new].of = plan  BY <1>2, <2>1 DEF Pin
    <2>3. Begun' = Begun  BY <1>5, <2>2 DEF Begun
    <2>4. QED  BY <1>4, <2>3 DEF Same
  <1>8. QED  BY <1>6, <1>7

LEMMA EdgeShowsNothing ==
    ASSUME DecompositionTypeOK, GraphInv, AddEdge
    PROVE  Same
  <1>1. pc = "writing" /\ MissingEdges # {} /\ UNCHANGED <<parent, child, pin, legacy>>
    BY DEF AddEdge
  <1>2. pin.of = plan  BY <1>1, WritingIsDecided
  <1>3. ~Whole
    <2>1. ~(Graph(plan) \subseteq Inside(plan))  BY <1>1 DEF MissingEdges, Inside
    <2>2. QED  BY <1>2, <2>1 DEF GraphInv, ReleasedGraphIsWhole
  <1>4. Shown = {} /\ Shown' = {}  BY <1>1, <1>3 DEF Shown, Whole
  <1>5. QED  BY <1>1, <1>4 DEF Same, Begun, Decision

\* The release shows the graph of the decision; a second one changes nothing.
LEMMA ReleaseGoesOn ==
    ASSUME DecompositionTypeOK, GraphInv, Release
    PROVE  D!GoOn \/ Same
  <1>1. /\ pc = "writing" /\ pin.of = plan /\ plan \in Plans
        /\ \A i \in Tasks(plan) : child[i].st # "absent"
        /\ Inside(plan) = Graph(plan)
    BY StoredIsGraph
  <1>2. parent' = "released" /\ legacy' = FALSE /\ UNCHANGED <<child, edges, pin>>
    BY DEF Release, graph
  <1>3. /\ Decision = plan /\ Decision # NoPlan
        /\ PlanGraphs[plan] = [children |-> Tasks(plan), edges |-> Graph(plan)]
    BY <1>1, WritingIsDecided
  <1>4. Recorded(plan) = Tasks(plan)  BY <1>1 DEF Recorded
  <1>5. Whole' /\ Begun' = Begun /\ Decision' = Decision
    BY <1>2 DEF Whole, Begun, Decision
  <1>6. Shown' = {PlanGraphs[Decision]}
    <2>1. Recorded(pin.of)' = Tasks(plan) /\ Inside(pin.of)' = Graph(plan)
      BY <1>1, <1>2, <1>4 DEF Recorded, Inside
    <2>2. QED  BY <1>3, <1>5, <2>1 DEF Shown
  <1>7. CASE Whole
    <2>1. Shown = {PlanGraphs[Decision]}  BY <1>1, <1>3, <1>4, <1>7 DEF Shown
    <2>2. QED  BY <1>5, <1>6, <2>1 DEF Same
  <1>8. CASE ~Whole
    <2>1. Shown = {}  BY <1>8 DEF Shown
    <2>2. QED  BY <1>3, <1>5, <1>6, <2>1 DEF D!GoOn, Begun
  <1>9. QED  BY <1>7, <1>8

LEMMA OthersShowNothing ==
    ASSUME DecompositionTypeOK, GraphInv,
           Interrupt \/ (\E i \in Children : EditChild(i) \/ DeleteChild(i)) \/ UNCHANGED dvars
    PROVE  Same
  <1>1. /\ UNCHANGED <<parent, edges, pin, legacy>>
        /\ \A i \in Children :
              child'[i].of = child[i].of /\ (child'[i].st = "absent" <=> child[i].st = "absent")
    BY OthersPointwise
  <1>2. Begun' = Begun /\ Decision' = Decision /\ Whole' = Whole  BY <1>1 DEF Begun, Decision, Whole
  <1>3. Shown' = Shown
    <2>1. CASE ~Whole  BY <1>2, <2>1 DEF Shown
    <2>2. CASE Whole
      <3>1. pin.of \in Plans  BY <2>2 DEF GraphInv, ReleasedGraphIsWhole, PinHoldsPlan
      <3>2. Tasks(pin.of) \subseteq Children  BY <3>1, PlanFacts
      <3>3. Recorded(pin.of)' = Recorded(pin.of) /\ Inside(pin.of)' = Inside(pin.of)
        BY <1>1, <3>2 DEF Recorded, Inside
      <3>4. QED  BY <1>2, <3>3 DEF Shown
    <2>3. QED  BY <2>1, <2>2
  <1>4. QED  BY <1>2, <1>3 DEF Same

\* The many writes of a decomposition, their interruptions and replays, and deletions in
\* between implement one decision, children begun from it alone, and a release that
\* shows all at once.
THEOREM DecompositionImplementsDecision == DecompositionSpec => ImplementsDecision
  <1>1. DecompositionInit => D!Init
    <2>1. SUFFICES ASSUME DecompositionInit PROVE D!Init  OBVIOUS
    <2>2. PICK n \in 0..MaxChildren : Scaffold(n)
      BY <2>1, DecompositionAssumption DEF DecompositionInit
    <2>3. \A i \in Children : child[i].of = NoPlan  BY <2>2, ScaffoldFacts
    <2>4. Decision = NoPlan /\ Shown = {}
      BY <2>1 DEF DecompositionInit, Decision, Shown, Whole, Pin
    <2>5. QED  BY <2>3, <2>4 DEF D!Init
  <1>2. DecompositionTypeOK /\ GraphInv /\ [DecompositionNext]_dvars => ContractStep
    BY ApplyShowsNothing, SyncDecides, AppendBegins, EdgeShowsNothing, ReleaseGoesOn,
       OthersShowNothing
    DEF DecompositionNext, ContractStep, D!Next
  <1>3. ContractStep => [D!Next]_<<Decision, [i \in Children |-> child[i].of], Shown>>
    BY DEF ContractStep, Same, Begun
  <1>4. QED
    BY <1>1, <1>2, <1>3, DecompositionTypeCorrect, GraphIsInvariant, PTL
    DEF DecompositionSpec, ImplementsDecision, D!Contract
=============================================================================
