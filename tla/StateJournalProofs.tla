--------------------------- MODULE StateJournalProofs ---------------------------
(***************************************************************************)
(* The journal of StateJournal keeps what StateAuthority promises, for any  *)
(* number of clients, keys, operations, crashes and failed writes.          *)
(*                                                                         *)
(* The argument is about what may become a row: the request being appended  *)
(* and the whole row an uncertain append left behind.  Both were made on    *)
(* the journal's last revision with an id the journal does not hold, and    *)
(* never both exist: after an uncertain append nothing is admitted until    *)
(* the journal is opened again.                                             *)
(*                                                                         *)
(* If records are written whole, the projection and the resets made from it *)
(* follow: the files are never behind the watermark, and a reset is only    *)
(* accepted on the revision whose record it was made from.                  *)
(***************************************************************************)
EXTENDS StateJournal, TLAPS, FiniteSetTheorems, SequenceTheorems

JournalOK ==
    /\ journal \in Seq(Operation)
    /\ Len(journal) <= MaxRows
    /\ OneRowPerOperation

\* A request that may become the next row.
Fits(op) ==
    /\ op \in Operation
    /\ op.base = Len(journal) /\ Len(journal) < MaxRows
    /\ ~Accepted(op.id)

TailOK ==
    /\ tail \in [row : Operation \cup {NoOperation}, whole : BOOLEAN]
    /\ tail.whole => Fits(tail.row) /\ (recovery \/ mode = "down")

CallsOK ==
    /\ call \in [Clients -> [pc : CallSteps, op : Operation \cup {NoOperation},
                             tries : 0..(MaxTries - 1)]]
    /\ \A c \in Clients : call[c].pc # "idle" => call[c].op \in Operation

AuthorityOK ==
    /\ mode \in {"down", "attaching", "serving"}
    /\ step \in {"idle", "append", "project", "write"}
    /\ recovery \in BOOLEAN
    /\ client \in Clients \cup {Nobody}
    /\ mode = "down" => step = "idle" /\ client = Nobody
    /\ step = "append" =>
          mode = "serving" /\ ~recovery /\ client # Nobody /\ Fits(call[client].op)
    /\ step = "write" => watermark < Len(journal)
    /\ client # Nobody => call[client].pc = "sent"
    /\ step \in {"project", "write"} /\ client # Nobody => Accepted(call[client].op.id)

ProjectionType ==
    /\ projected \in [Keys -> Revisions]
    /\ torn \in BOOLEAN
    /\ watermark \in Revisions
    /\ todo \in Seq(Keys)

ReceiptsOK == acked \subseteq (Ids \X Revisions) /\ AcknowledgedIsDurable

Bounds == faults \in 0..MaxFaults /\ broken \in BOOLEAN

IInv ==
    /\ JournalOK /\ TailOK /\ CallsOK /\ AuthorityOK
    /\ ProjectionType /\ ReceiptsOK /\ Bounds
-----------------------------------------------------------------------------
LEMMA Sizes == MaxRows \in Nat /\ MaxTries \in Nat \ {0} /\ MaxFaults \in Nat
               /\ Cardinality(Clients) \in Nat /\ 0 \in Ids /\ 0 \in Revisions
  <1>1. Cardinality(Clients) \in Nat  BY JournalAssumption, FS_CardinalityType
  <1>2. QED  BY <1>1, JournalAssumption DEF JournalAssumption, Ids, Revisions

LEMMA IntentParts ==
    ASSUME NEW intent \in Intents
    PROVE  /\ intent[2] \in Kinds /\ intent[3] \in KeyLists
           /\ intent[1] \in Clients
  BY JournalAssumption DEF JournalAssumption, Kinds, KeyLists

LEMMA KeyListsAreLists == \A keys \in KeyLists : keys \in Seq(Keys) /\ keys # <<>>
  BY JournalAssumption DEF JournalAssumption, KeyLists

LEMMA NoTailIsTail == NoTail \in [row : Operation \cup {NoOperation}, whole : BOOLEAN]
                      /\ ~NoTail.whole
  BY DEF NoTail

LEMMA NobodyIsNoClient == Nobody \notin Clients
  BY JournalAssumption DEF JournalAssumption, Nobody

\* A row that fits keeps the journal in order, and every receipt true.
LEMMA AppendKeepsJournal ==
    ASSUME JournalOK, ReceiptsOK, NEW op, Fits(op), journal' = Append(journal, op)
    PROVE  /\ JournalOK'
           /\ \A id : Accepted(id) => Accepted(id)'
           /\ Accepted(op.id)'
           /\ Len(journal') = Len(journal) + 1
           /\ acked' = acked => ReceiptsOK'
  <1>1. /\ journal' \in Seq(Operation) /\ Len(journal') = Len(journal) + 1
        /\ DOMAIN journal = 1..Len(journal) /\ DOMAIN journal' = 1..(Len(journal) + 1)
        /\ \A i \in DOMAIN journal : journal'[i] = journal[i]
        /\ journal'[Len(journal) + 1] = op
        /\ Len(journal) \in Nat
    BY DEF JournalOK, Fits
  <1>2. Len(journal') <= MaxRows  BY <1>1, Sizes DEF Fits
  <1>3. OneRowPerOperation'
    <2>1. \A i \in DOMAIN journal : journal'[i].id # op.id
      BY <1>1 DEF Fits, Accepted
    <2>2. \A i, j \in DOMAIN journal' : journal'[i].id = journal'[j].id => i = j
      BY <1>1, <2>1 DEF JournalOK, OneRowPerOperation
    <2>3. \A i \in DOMAIN journal' : journal'[i].base = i - 1
      BY <1>1 DEF JournalOK, OneRowPerOperation, Fits
    <2>4. QED  BY <2>2, <2>3 DEF OneRowPerOperation
  <1>4. \A id : Accepted(id) => Accepted(id)'  BY <1>1 DEF Accepted
  <1>5. Accepted(op.id)'
    <2>1. Len(journal) + 1 \in DOMAIN journal'  BY <1>1
    <2>2. QED  BY <1>1, <2>1 DEF Accepted
  <1>6. acked' = acked => ReceiptsOK'
    BY <1>1 DEF ReceiptsOK, AcknowledgedIsDurable
  <1>7. QED  BY <1>1, <1>2, <1>3, <1>4, <1>5, <1>6 DEF JournalOK
-----------------------------------------------------------------------------
(* What clients do by themselves changes nothing but their own call.        *)

CallType == [pc : CallSteps, op : Operation \cup {NoOperation}, tries : 0..(MaxTries - 1)]

LEMMA CallSet ==
    ASSUME CallsOK, NEW c \in Clients, NEW r \in CallType,
           r.pc # "idle" => r.op \in Operation,
           call' = [call EXCEPT ![c] = r]
    PROVE  /\ CallsOK'
           /\ call'[c] = r
           /\ \A q \in Clients : q # c => call'[q] = call[q]
  BY DEF CallsOK, CallType

LEMMA IdleIsCall == Idle \in CallType /\ Idle.pc = "idle"
  BY Sizes DEF Idle, CallType, CallSteps

LEMMA CallMoves ==
    ASSUME IInv, NEW c \in Clients, call[c].pc # "sent", CallsOK',
           \A q \in Clients : q # c => call'[q] = call[q],
           UNCHANGED <<disk, authority, acked, faults, broken>>
    PROVE  IInv'
  <1>1. client # c  BY NobodyIsNoClient DEF IInv, AuthorityOK
  <1>2. UNCHANGED <<journal, tail, projected, torn, watermark, mode, step, todo, recovery,
                    client, acked, faults, broken>>
    BY DEF disk, authority
  <1>3. client # Nobody => call'[client] = call[client]
    BY <1>1 DEF IInv, AuthorityOK
  <1>4. \A id : Accepted(id)' = Accepted(id)  BY <1>2 DEF Accepted
  <1>5. \A op : Fits(op)' = Fits(op)  BY <1>2, <1>4 DEF Fits
  <1>6. JournalOK' /\ ReceiptsOK'
    BY <1>2 DEF IInv, JournalOK, OneRowPerOperation, ReceiptsOK, AcknowledgedIsDurable
  <1>7. TailOK'  BY <1>2, <1>5 DEF IInv, TailOK
  <1>8. AuthorityOK'  BY <1>2, <1>3, <1>4, <1>5 DEF IInv, AuthorityOK
  <1>9. ProjectionType' /\ Bounds'  BY <1>2 DEF IInv, ProjectionType, Bounds
  <1>10. QED  BY <1>6, <1>7, <1>8, <1>9 DEF IInv

LEMMA OwnCallKeepsInv ==
    ASSUME IInv, NEW c \in Clients, call[c].pc # "sent",
           NEW r \in CallType, r.pc # "idle" => r.op \in Operation,
           call' = [call EXCEPT ![c] = r],
           UNCHANGED <<disk, authority, acked, faults, broken>>
    PROVE  IInv'
  <1>1. CallsOK  BY DEF IInv
  <1>2. CallsOK' /\ \A q \in Clients : q # c => call'[q] = call[q]
    BY <1>1, CallSet
  <1>3. QED  BY <1>2, CallMoves

LEMMA BeginKeepsInv ==
    ASSUME IInv, NEW intent \in Intents, Begin(intent[1], intent[2], intent[3])
    PROVE  IInv'
  <1> DEFINE op == [NoOperation EXCEPT !.kind = intent[2], !.keys = intent[3]]
             r == [pc |-> "status", tries |-> 0, op |-> op]
  <1>1. op \in Operation  BY IntentParts, Sizes DEF Operation, NoOperation
  <1>2. r \in CallType  BY <1>1, Sizes DEF CallType, CallSteps
  <1>3. QED  BY <1>1, <1>2, IntentParts, OwnCallKeepsInv DEF Begin, NoFault

LEMMA OwnCallTyped ==
    ASSUME CallsOK, NEW c \in Clients, call[c].pc # "idle"
    PROVE  /\ call[c] \in CallType /\ call[c].op \in Operation
           /\ call[c] = [pc |-> call[c].pc, op |-> call[c].op, tries |-> call[c].tries]
           /\ call[c].tries \in 0..(MaxTries - 1)
  BY DEF CallsOK, CallType

LEMMA StatusKeepsInv ==
    ASSUME IInv, NEW c \in Clients, Status(c)  PROVE  IInv'
  <1> DEFINE op == [call[c].op EXCEPT !.base = Revision]
             pc == IF call[c].op.kind = "reset" THEN "read" ELSE "ready"
             r == [pc |-> pc, op |-> op, tries |-> call[c].tries]
  <1>0. CallsOK /\ call[c].pc = "status" /\ UNCHANGED <<disk, authority, acked, faults, broken>>
    BY DEF IInv, Status, NoFault
  <1>1. CASE mode = "serving"
    <2>1. call[c].op \in Operation /\ call[c].tries \in 0..(MaxTries - 1)  BY <1>0, OwnCallTyped
    <2>2. Revision \in Revisions  BY Sizes DEF Revision, Revisions, IInv, JournalOK
    <2>3. op \in Operation  BY <2>1, <2>2 DEF Operation
    <2>4. r \in CallType  BY <2>1, <2>3 DEF CallType, CallSteps
    <2>5. call' = [call EXCEPT ![c] = r]  BY <1>0, <1>1, OwnCallTyped DEF Status, CallsOK
    <2>6. QED  BY <1>0, <2>3, <2>4, <2>5, OwnCallKeepsInv
  <1>2. CASE mode # "serving"
    <2>1. call' = [call EXCEPT ![c] = Idle]  BY <1>2 DEF Status, Return
    <2>2. QED  BY <1>0, <2>1, IdleIsCall, OwnCallKeepsInv
  <1>3. QED  BY <1>1, <1>2

LEMMA ReadKeepsInv ==
    ASSUME IInv, NEW c \in Clients, Read(c)  PROVE  IInv'
  <1> DEFINE op == [call[c].op EXCEPT !.seen = projected[call[c].op.keys[1]]]
             r == [pc |-> "ready", op |-> op, tries |-> call[c].tries]
  <1>0. CallsOK /\ call[c].pc = "read" /\ UNCHANGED <<disk, authority, acked, faults, broken>>
    BY DEF IInv, Read, NoFault
  <1>1. call[c].op \in Operation /\ call[c].tries \in 0..(MaxTries - 1)  BY <1>0, OwnCallTyped
  <1>2. call[c].op.keys \in Seq(Keys) /\ call[c].op.keys # <<>>
    BY <1>1, KeyListsAreLists DEF Operation
  <1>3. projected[call[c].op.keys[1]] \in Revisions
    BY <1>2 DEF IInv, ProjectionType
  <1>4. op \in Operation  BY <1>1, <1>3 DEF Operation
  <1>5. r \in CallType  BY <1>1, <1>4 DEF CallType, CallSteps
  <1>6. call' = [call EXCEPT ![c] = r]  BY <1>0, OwnCallTyped DEF Read, CallsOK
  <1>7. QED  BY <1>0, <1>4, <1>5, <1>6, OwnCallKeepsInv

LEMMA FailsKeepsInv ==
    ASSUME IInv, NEW c \in Clients, Fails(c)  PROVE  IInv'
  <1>1. call' = [call EXCEPT ![c] = Idle]  BY DEF Fails, Return
  <1>2. QED  BY <1>1, IdleIsCall, OwnCallKeepsInv DEF Fails, NoFault
-----------------------------------------------------------------------------
(* Requests.  A request never carries an id that another row would have to   *)
(* share: it is fresh, or journaled already, or of a call that got no answer. *)

LEMMA FreshIdsAreFree ==
    \A id \in FreshIds : id \in Ids /\ ~Accepted(id) /\ id # tail.row.id
  BY DEF FreshIds, Accepted

LEMMA RequestsAreOperations ==
    ASSUME CallsOK, NEW c \in Clients, call[c].pc \in {"ready", "lost"}, NEW op \in Requests(c)
    PROVE  op \in Operation
  <1>1. call[c].op \in Operation  BY OwnCallTyped
  <1>2. CASE call[c].pc = "ready"
    <2>1. PICK id \in FreshIds : op = [call[c].op EXCEPT !.id = id]  BY <1>2 DEF Requests
    <2>2. QED  BY <1>1, <2>1, FreshIdsAreFree DEF Operation
  <1>3. CASE call[c].pc # "ready"  BY <1>1, <1>3 DEF Requests
  <1>4. QED  BY <1>2, <1>3

\* A request that is taken up, for another answer or for the next row.
LEMMA HandlesKeepsInv ==
    ASSUME IInv, NEW c \in Clients, NEW op \in Requests(c), NEW next \in {"append", "project"},
           Submits(c), Handles(c, op, next),
           next = "append" => ~recovery /\ Fits(op),
           next = "project" => Accepted(op.id)
    PROVE  IInv'
  <1> DEFINE r == [pc |-> "sent", op |-> op, tries |-> call[c].tries]
  <1>0. /\ CallsOK /\ mode = "serving" /\ step = "idle" /\ call[c].pc \in {"ready", "lost"}
        /\ UNCHANGED <<journal, tail, projected, torn, watermark, mode, todo, recovery, acked,
                       faults, broken>>
        /\ step' = next /\ client' = c
    BY DEF IInv, Submits, Handles, NoFault, disk
  <1>1. op \in Operation /\ call[c].tries \in 0..(MaxTries - 1)
    BY <1>0, RequestsAreOperations, OwnCallTyped
  <1>2. r \in CallType  BY <1>1 DEF CallType, CallSteps
  <1>3. call' = [call EXCEPT ![c] = r]  BY <1>0, OwnCallTyped DEF Handles, CallsOK
  <1>4. CallsOK' /\ call'[c] = r  BY <1>0, <1>1, <1>2, <1>3, CallSet
  <1>5. \A id : Accepted(id)' = Accepted(id)  BY <1>0 DEF Accepted
  <1>6. \A o : Fits(o)' = Fits(o)  BY <1>0, <1>5 DEF Fits
  <1>7. JournalOK' /\ ReceiptsOK'
    BY <1>0 DEF IInv, JournalOK, OneRowPerOperation, ReceiptsOK, AcknowledgedIsDurable
  <1>8. TailOK'  BY <1>0, <1>6 DEF IInv, TailOK
  <1>9. AuthorityOK'
    BY <1>0, <1>4, <1>5, <1>6, NobodyIsNoClient DEF IInv, AuthorityOK
  <1>10. ProjectionType' /\ Bounds'  BY <1>0 DEF IInv, ProjectionType, Bounds
  <1>11. QED  BY <1>4, <1>7, <1>8, <1>9, <1>10 DEF IInv

LEMMA RequestKeepsInv ==
    ASSUME IInv, NEW c \in Clients, NEW op \in Requests(c),
           Replay(c, op) \/ Admit(c, op) \/ Conflict(c, op) \/ RefuseUntilReopened(c, op)
    PROVE  IInv'
  <1>0. Submits(c) /\ CallsOK /\ call[c].pc \in {"ready", "lost"}
    BY DEF IInv, Replay, Admit, Conflict, RefuseUntilReopened, Submits
  <1>1. op \in Operation /\ call[c].tries \in 0..(MaxTries - 1)
    BY <1>0, RequestsAreOperations, OwnCallTyped
  <1>2. CASE Replay(c, op)
    BY <1>0, <1>2, HandlesKeepsInv DEF Replay
  <1>3. CASE Admit(c, op)
    <2>1. Fits(op)  BY <1>1, <1>3 DEF Admit, Fits, Revision
    <2>2. QED  BY <1>0, <1>3, <2>1, HandlesKeepsInv DEF Admit
  <1>4. CASE Conflict(c, op)
    <2>0. UNCHANGED <<disk, authority, acked, faults, broken>>
      BY <1>4 DEF Conflict, Submits, NoFault, authority
    <2>1. CASE op.kind # "reset" /\ call[c].tries + 1 < MaxTries
      <3> DEFINE r == [pc |-> "status", op |-> call[c].op, tries |-> call[c].tries + 1]
      <3>1. call[c].op \in Operation  BY <1>0, OwnCallTyped
      <3>2. r \in CallType  BY <1>1, <2>1, <3>1, Sizes DEF CallType, CallSteps
      <3>3. call' = [call EXCEPT ![c] = r]
        BY <1>0, <1>4, <2>1, OwnCallTyped DEF Conflict, CallsOK
      <3>4. QED  BY <1>0, <2>0, <3>1, <3>2, <3>3, OwnCallKeepsInv
    <2>2. CASE ~(op.kind # "reset" /\ call[c].tries + 1 < MaxTries)
      <3>1. call' = [call EXCEPT ![c] = Idle]  BY <1>4, <2>2 DEF Conflict, Return
      <3>2. QED  BY <1>0, <2>0, <3>1, IdleIsCall, OwnCallKeepsInv
    <2>3. QED  BY <2>1, <2>2
  <1>5. CASE RefuseUntilReopened(c, op)
    <2>1. call' = [call EXCEPT ![c].op = op, ![c].pc = "lost"]
      BY <1>5 DEF RefuseUntilReopened
    <2>2. CallsOK'  BY <1>0, <1>1, <2>1 DEF CallsOK, CallSteps
    <2>3. \A q \in Clients : q # c => call'[q] = call[q]  BY <1>0, <2>1 DEF CallsOK
    <2>4. UNCHANGED <<disk, authority, acked, faults, broken>>
      BY <1>5 DEF RefuseUntilReopened, Submits, NoFault, authority
    <2>5. QED  BY <1>0, <2>2, <2>3, <2>4, CallMoves
  <1>6. QED  BY <1>2, <1>3, <1>4, <1>5

LEMMA ClientKeepsInv ==
    ASSUME IInv, NEW c \in Clients, Client(c)  PROVE  IInv'
  <1>1. CASE \E intent \in Intents : intent[1] = c /\ Begin(c, intent[2], intent[3])
    BY <1>1, BeginKeepsInv
  <1>2. CASE Status(c) \/ Read(c) \/ Fails(c)
    BY <1>2, StatusKeepsInv, ReadKeepsInv, FailsKeepsInv
  <1>3. CASE \E op \in Requests(c) :
                Replay(c, op) \/ Admit(c, op) \/ Conflict(c, op) \/ RefuseUntilReopened(c, op)
    BY <1>3, RequestKeepsInv
  <1>4. QED  BY <1>1, <1>2, <1>3 DEF Client
-----------------------------------------------------------------------------
(* The authority's own steps.                                               *)

\* What stays true of requests and rows when the journal stays as it is.
LEMMA SameJournal ==
    ASSUME UNCHANGED journal
    PROVE  /\ \A id : Accepted(id)' = Accepted(id)
           /\ \A op : Fits(op)' = Fits(op)
           /\ JournalOK => JournalOK'
           /\ ReceiptsOK /\ acked' = acked => ReceiptsOK'
  <1>1. \A id : Accepted(id)' = Accepted(id)  BY DEF Accepted
  <1>2. \A op : Fits(op)' = Fits(op)  BY <1>1 DEF Fits
  <1>3. QED
    BY <1>1, <1>2 DEF JournalOK, OneRowPerOperation, ReceiptsOK, AcknowledgedIsDurable

\* Giving a client its answer, or leaving it without one.
LEMMA ReturnKeepsCalls ==
    ASSUME CallsOK, NEW c \in Clients, Return(c)  PROVE  CallsOK'
  BY IdleIsCall, CallSet DEF Return

LEMMA AtKeepsCalls ==
    ASSUME CallsOK, NEW c \in Clients, call[c].pc # "idle", At(c, "lost")  PROVE  CallsOK'
  BY DEF At, CallsOK, CallSteps

LEMMA ServedClient ==
    ASSUME IInv, client # Nobody
    PROVE  client \in Clients /\ call[client].pc = "sent" /\ call[client].op \in Operation
  BY DEF IInv, AuthorityOK, CallsOK

LEMMA AppendRowKeepsInv ==
    ASSUME IInv, AppendRow  PROVE  IInv'
  <1> DEFINE op == call[client].op
  <1>0. /\ JournalOK /\ ReceiptsOK /\ Fits(op) /\ mode = "serving" /\ ~recovery
        /\ client # Nobody
    BY DEF IInv, AuthorityOK, AppendRow
  <1>1. /\ journal' = Append(journal, op) /\ step' = "project"
        /\ UNCHANGED <<tail, projected, torn, watermark, mode, todo, recovery, client, call, acked,
                       faults, broken>>
    BY DEF AppendRow, NoFault
  <1>2. JournalOK' /\ ReceiptsOK' /\ Accepted(op.id)'
    BY <1>0, <1>1, AppendKeepsJournal
  <1>3. TailOK'  BY <1>0, <1>1 DEF IInv, TailOK
  <1>4. CallsOK'  BY <1>1 DEF IInv, CallsOK
  <1>5. AuthorityOK'  BY <1>0, <1>1, <1>2 DEF IInv, AuthorityOK
  <1>6. ProjectionType' /\ Bounds'  BY <1>1 DEF IInv, ProjectionType, Bounds
  <1>7. QED  BY <1>2, <1>3, <1>4, <1>5, <1>6 DEF IInv

LEMMA RemainsTyped ==
    ASSUME NEW op, Fits(op), NEW t \in Remains(op)
    PROVE  /\ t \in [row : Operation \cup {NoOperation}, whole : BOOLEAN]
           /\ t.whole => Fits(t.row)
  <1>1. CASE t = NoTail  BY <1>1, NoTailIsTail
  <1>2. CASE \E w \in BOOLEAN : t = [row |-> op, whole |-> w]
    <2>1. op \in Operation  BY DEF Fits
    <2>2. t.row = op /\ t \in [row : Operation \cup {NoOperation}, whole : BOOLEAN]
      BY <1>2, <2>1
    <2>3. QED  BY <2>2
  <1>3. QED  BY <1>1, <1>2 DEF Remains

LEMMA AppendFailsKeepsInv ==
    ASSUME IInv, AppendFails  PROVE  IInv'
  <1> DEFINE op == call[client].op
  <1>0. /\ JournalOK /\ ReceiptsOK /\ CallsOK /\ Fits(op) /\ mode = "serving" /\ client # Nobody
    BY DEF IInv, AuthorityOK, AppendFails
  <1>1. /\ tail' \in Remains(op) /\ recovery' = TRUE /\ step' = "idle" /\ client' = Nobody
        /\ At(client, "lost") /\ faults < MaxFaults /\ faults' = faults + 1
        /\ UNCHANGED <<journal, projected, torn, watermark, mode, todo, acked, broken>>
    BY DEF AppendFails, Fault, CanFault
  <1>2. JournalOK' /\ ReceiptsOK' /\ \A o : Fits(o)' = Fits(o)
    BY <1>0, <1>1, SameJournal
  <1>3. TailOK'  BY <1>0, <1>1, <1>2, RemainsTyped DEF TailOK
  <1>4. CallsOK'  BY <1>0, <1>1, ServedClient, AtKeepsCalls
  <1>5. AuthorityOK'  BY <1>0, <1>1 DEF IInv, AuthorityOK
  <1>6. ProjectionType' /\ Bounds'  BY <1>1, Sizes DEF IInv, ProjectionType, Bounds
  <1>7. QED  BY <1>2, <1>3, <1>4, <1>5, <1>6 DEF IInv
-----------------------------------------------------------------------------
LEMMA ProjectKeepsInv ==
    ASSUME IInv, Project  PROVE  IInv'
  <1>0. /\ step = "project" /\ watermark < Len(journal) /\ watermark \in Nat
        /\ step' = "write" /\ todo' = journal[watermark + 1].keys
        /\ UNCHANGED <<journal, tail, projected, torn, watermark, mode, recovery, client, call, acked,
                       faults, broken>>
    BY DEF Project, disk, NoFault, Revision, IInv, ProjectionType, Revisions
  <1>1. JournalOK' /\ ReceiptsOK' /\ (\A o : Fits(o)' = Fits(o))
        /\ \A id : Accepted(id)' = Accepted(id)
    BY <1>0, SameJournal DEF IInv
  <1>2. TailOK' /\ CallsOK'  BY <1>0, <1>1 DEF IInv, TailOK, CallsOK
  <1>3. AuthorityOK'  BY <1>0, <1>1 DEF IInv, AuthorityOK
  <1>4. todo' \in Seq(Keys)
    <2>1. journal[watermark + 1] \in Operation  BY <1>0 DEF IInv, JournalOK
    <2>2. journal[watermark + 1].keys \in KeyLists  BY <2>1 DEF Operation
    <2>3. QED  BY <1>0, <2>2, KeyListsAreLists
  <1>5. ProjectionType' /\ Bounds'  BY <1>0, <1>4 DEF IInv, ProjectionType, Bounds
  <1>6. QED  BY <1>1, <1>2, <1>3, <1>5 DEF IInv

LEMMA NextRevision ==
    ASSUME IInv, step = "write"
    PROVE  watermark + 1 \in Revisions /\ watermark + 1 <= Len(journal)
  BY Sizes DEF IInv, AuthorityOK, JournalOK, ProjectionType, Revisions

LEMMA WriteRecordKeepsInv ==
    ASSUME IInv, WriteRecord  PROVE  IInv'
  <1>0. /\ step = "write" /\ todo # <<>> /\ torn' = FALSE /\ todo' = Tail(todo)
        /\ projected' = IF torn THEN projected ELSE [projected EXCEPT ![Head(todo)] = watermark + 1]
        /\ UNCHANGED <<journal, tail, watermark, mode, step, recovery, client, call, acked,
                       faults, broken>>
    BY DEF WriteRecord, NoFault
  <1>1. JournalOK' /\ ReceiptsOK' /\ (\A o : Fits(o)' = Fits(o))
        /\ \A id : Accepted(id)' = Accepted(id)
    BY <1>0, SameJournal DEF IInv
  <1>2. TailOK' /\ CallsOK'  BY <1>0, <1>1 DEF IInv, TailOK, CallsOK
  <1>3. AuthorityOK'  BY <1>0, <1>1 DEF IInv, AuthorityOK
  <1>4. Head(todo) \in Keys /\ Tail(todo) \in Seq(Keys)
    BY <1>0, HeadTailProperties DEF IInv, ProjectionType
  <1>5. ProjectionType' /\ Bounds'
    BY <1>0, <1>4, NextRevision DEF IInv, ProjectionType, Bounds
  <1>6. QED  BY <1>1, <1>2, <1>3, <1>5 DEF IInv

LEMMA WriteWatermarkKeepsInv ==
    ASSUME IInv, WriteWatermark  PROVE  IInv'
  <1>0. /\ step = "write" /\ watermark' = watermark + 1 /\ step' = "project"
        /\ UNCHANGED <<journal, tail, projected, torn, mode, todo, recovery, client, call, acked,
                       faults, broken>>
    BY DEF WriteWatermark, NoFault
  <1>1. JournalOK' /\ ReceiptsOK' /\ (\A o : Fits(o)' = Fits(o))
        /\ \A id : Accepted(id)' = Accepted(id)
    BY <1>0, SameJournal DEF IInv
  <1>2. TailOK' /\ CallsOK'  BY <1>0, <1>1 DEF IInv, TailOK, CallsOK
  <1>3. AuthorityOK'  BY <1>0, <1>1 DEF IInv, AuthorityOK
  <1>4. ProjectionType' /\ Bounds'
    BY <1>0, NextRevision DEF IInv, ProjectionType, Bounds
  <1>5. QED  BY <1>1, <1>2, <1>3, <1>4 DEF IInv

\* The receipt of a served client names the row that carries its id.
LEMMA ReceiptOfServed ==
    ASSUME IInv, client # Nobody, step = "project"
    PROVE  LET id == call[client].op.id IN
           /\ id \in Ids /\ RevisionOf(id) \in DOMAIN journal
           /\ RevisionOf(id) \in Revisions /\ journal[RevisionOf(id)].id = id
  <1> DEFINE id == call[client].op.id
  <1>1. Accepted(id)  BY DEF IInv, AuthorityOK
  <1>2. RevisionOf(id) \in DOMAIN journal /\ journal[RevisionOf(id)].id = id
    BY <1>1 DEF Accepted, RevisionOf
  <1>3. id \in Ids  BY ServedClient DEF Operation
  <1>4. DOMAIN journal \subseteq Revisions
    BY Sizes DEF IInv, JournalOK, Revisions
  <1>5. QED  BY <1>2, <1>3, <1>4

LEMMA ProjectedKeepsInv ==
    ASSUME IInv, Projected  PROVE  IInv'
  <1>0. /\ step = "project" /\ step' = "idle" /\ mode' = "serving" /\ client' = Nobody
        /\ UNCHANGED <<journal, tail, projected, torn, watermark, todo, recovery, faults, broken>>
    BY DEF Projected, disk, NoFault
  <1>1. JournalOK' /\ (\A o : Fits(o)' = Fits(o))
    BY <1>0, SameJournal DEF IInv
  <1>2. CallsOK' /\ ReceiptsOK'
    <2>1. CASE client = Nobody
      <3>1. UNCHANGED <<call, acked>>  BY <2>1 DEF Projected
      <3>2. QED  BY <1>0, <3>1, SameJournal DEF IInv, CallsOK
    <2>2. CASE client # Nobody
      <3> DEFINE id == call[client].op.id
      <3>1. acked' = acked \cup {<<id, RevisionOf(id)>>} /\ Return(client)
        BY <2>2 DEF Projected
      <3>2. CallsOK'  BY <2>2, <3>1, ServedClient, ReturnKeepsCalls DEF IInv
      <3>3. id \in Ids /\ RevisionOf(id) \in Revisions /\ RevisionOf(id) \in DOMAIN journal
            /\ journal[RevisionOf(id)].id = id
        BY <1>0, <2>2, ReceiptOfServed
      <3>4. ReceiptsOK'
        BY <1>0, <3>1, <3>3 DEF IInv, ReceiptsOK, AcknowledgedIsDurable
      <3>5. QED  BY <3>2, <3>4
    <2>3. QED  BY <2>1, <2>2
  <1>3. mode # "down"  BY <1>0 DEF IInv, AuthorityOK
  <1>4. TailOK'  BY <1>0, <1>1, <1>3 DEF IInv, TailOK
  <1>5. AuthorityOK'  BY <1>0 DEF IInv, AuthorityOK
  <1>6. ProjectionType' /\ Bounds'  BY <1>0 DEF IInv, ProjectionType, Bounds
  <1>7. QED  BY <1>1, <1>2, <1>4, <1>5, <1>6 DEF IInv

LEMMA HandleKeepsInv ==
    ASSUME IInv, Handle  PROVE  IInv'
  BY AppendRowKeepsInv, ProjectKeepsInv, WriteRecordKeepsInv, WriteWatermarkKeepsInv,
     ProjectedKeepsInv DEF Handle
-----------------------------------------------------------------------------
(* The end and the beginning of an authority.                               *)

\* A client that is left without an answer.
LEMMA LeavingKeepsCalls ==
    ASSUME IInv, IF client = Nobody THEN UNCHANGED call ELSE At(client, "lost")
    PROVE  CallsOK'
  <1>1. CASE client = Nobody  BY <1>1 DEF IInv, CallsOK
  <1>2. CASE client # Nobody  BY <1>2, ServedClient, AtKeepsCalls DEF IInv
  <1>3. QED  BY <1>1, <1>2

LEMMA EmptyIsList == <<>> \in Seq(Keys)
  OBVIOUS

LEMMA ProjectionFailsKeepsInv ==
    ASSUME IInv, ProjectionFails  PROVE  IInv'
  <1>0. /\ step = "write" /\ step' = "idle" /\ todo' = <<>> /\ client' = Nobody
        /\ mode' = (IF mode = "attaching" THEN "down" ELSE mode)
        /\ broken' = TRUE /\ faults < MaxFaults /\ faults' = faults + 1
        /\ UNCHANGED <<journal, tail, projected, watermark, recovery, acked>>
    BY DEF ProjectionFails, Fault, CanFault
  <1>1. torn' \in BOOLEAN  BY DEF ProjectionFails, IInv, ProjectionType
  <1>2. JournalOK' /\ ReceiptsOK' /\ (\A o : Fits(o)' = Fits(o))
    BY <1>0, SameJournal DEF IInv
  <1>3. CallsOK'  BY LeavingKeepsCalls DEF ProjectionFails
  <1>4. TailOK'  BY <1>0, <1>2 DEF IInv, TailOK, AuthorityOK
  <1>5. AuthorityOK'  BY <1>0 DEF IInv, AuthorityOK
  <1>6. ProjectionType' /\ Bounds'
    BY <1>0, <1>1, EmptyIsList, Sizes DEF IInv, ProjectionType, Bounds
  <1>7. QED  BY <1>2, <1>3, <1>4, <1>5, <1>6 DEF IInv

LEMMA DetachKeepsInv ==
    ASSUME IInv, Detach  PROVE  IInv'
  <1>0. /\ mode' = "down" /\ step' = "idle" /\ todo' = <<>> /\ client' = Nobody
        /\ UNCHANGED <<journal, tail, projected, torn, watermark, recovery, call, acked, faults, broken>>
    BY DEF Detach, Down, disk, NoFault
  <1>1. JournalOK' /\ ReceiptsOK' /\ (\A o : Fits(o)' = Fits(o))
    BY <1>0, SameJournal DEF IInv
  <1>2. TailOK' /\ CallsOK'  BY <1>0, <1>1 DEF IInv, TailOK, CallsOK
  <1>3. AuthorityOK'  BY <1>0 DEF IInv, AuthorityOK
  <1>4. ProjectionType' /\ Bounds'
    BY <1>0, EmptyIsList DEF IInv, ProjectionType, Bounds
  <1>5. QED  BY <1>1, <1>2, <1>3, <1>4 DEF IInv

LEMMA CrashKeepsInv ==
    ASSUME IInv, Crash  PROVE  IInv'
  <1>0. /\ mode' = "down" /\ step' = "idle" /\ todo' = <<>> /\ client' = Nobody
        /\ faults < MaxFaults /\ faults' = faults + 1
        /\ UNCHANGED <<journal, projected, watermark, recovery, acked, broken>>
    BY DEF Crash, Down, Fault, CanFault
  <1>1. torn' \in BOOLEAN  BY DEF Crash, IInv, ProjectionType
  <1>2. JournalOK' /\ ReceiptsOK' /\ (\A o : Fits(o)' = Fits(o))
    BY <1>0, SameJournal DEF IInv
  <1>3. CallsOK'  BY LeavingKeepsCalls DEF Crash
  <1>4. TailOK'
    <2>1. CASE step = "append"
      <3>1. Fits(call[client].op) /\ tail' \in Remains(call[client].op)
        BY <2>1 DEF IInv, AuthorityOK, Crash
      <3>2. QED  BY <1>0, <1>2, <3>1, RemainsTyped DEF TailOK
    <2>2. CASE step # "append"
      <3>1. tail' = tail  BY <2>2 DEF Crash
      <3>2. QED  BY <1>0, <1>2, <3>1 DEF IInv, TailOK
    <2>3. QED  BY <2>1, <2>2
  <1>5. AuthorityOK'  BY <1>0 DEF IInv, AuthorityOK
  <1>6. ProjectionType' /\ Bounds'
    BY <1>0, <1>1, EmptyIsList, Sizes DEF IInv, ProjectionType, Bounds
  <1>7. QED  BY <1>2, <1>3, <1>4, <1>5, <1>6 DEF IInv

\* The row an uncertain append left behind is entered, or there is none.
LEMMA AttachKeepsInv ==
    ASSUME IInv, Attach  PROVE  IInv'
  <1>0. /\ mode = "down" /\ tail' = NoTail /\ recovery' = FALSE
        /\ mode' = "attaching" /\ step' = "project"
        /\ journal' = (IF tail.whole THEN Append(journal, tail.row) ELSE journal)
        /\ UNCHANGED <<projected, torn, watermark, todo, client, call, acked, faults, broken>>
    BY DEF Attach, NoFault
  <1>1. client = Nobody
    BY <1>0 DEF IInv, AuthorityOK
  <1>2. JournalOK' /\ ReceiptsOK'
    <2>1. CASE tail.whole
      <3>1. Fits(tail.row)  BY <2>1 DEF IInv, TailOK
      <3>2. journal' = Append(journal, tail.row)  BY <1>0, <2>1
      <3>3. QED  BY <1>0, <3>1, <3>2, AppendKeepsJournal DEF IInv
    <2>2. CASE ~tail.whole  BY <1>0, <2>2, SameJournal DEF IInv
    <2>3. QED  BY <2>1, <2>2
  <1>3. TailOK'  BY <1>0, NoTailIsTail DEF TailOK
  <1>4. CallsOK'  BY <1>0 DEF IInv, CallsOK
  <1>5. AuthorityOK'  BY <1>0, <1>1 DEF IInv, AuthorityOK
  <1>6. ProjectionType' /\ Bounds'  BY <1>0 DEF IInv, ProjectionType, Bounds
  <1>7. QED  BY <1>2, <1>3, <1>4, <1>5, <1>6 DEF IInv

LEMMA LoseWatermarkKeepsInv ==
    ASSUME IInv, LoseWatermark  PROVE  IInv'
  <1>0. /\ watermark' = 0 /\ broken' = TRUE /\ faults < MaxFaults /\ faults' = faults + 1
        /\ mode = "down"
        /\ UNCHANGED <<journal, tail, projected, torn, mode, step, todo, recovery, client, call, acked>>
    BY DEF LoseWatermark, authority, Fault, CanFault
  <1>1. JournalOK' /\ ReceiptsOK' /\ (\A o : Fits(o)' = Fits(o))
    BY <1>0, SameJournal DEF IInv
  <1>2. TailOK' /\ CallsOK'  BY <1>0, <1>1 DEF IInv, TailOK, CallsOK
  <1>3. AuthorityOK'  BY <1>0 DEF IInv, AuthorityOK
  <1>4. ProjectionType' /\ Bounds'
    BY <1>0, Sizes DEF IInv, ProjectionType, Bounds
  <1>5. QED  BY <1>1, <1>2, <1>3, <1>4 DEF IInv
-----------------------------------------------------------------------------
LEMMA InitMeetsInv == Init => IInv
  <1>1. SUFFICES ASSUME Init PROVE IInv  OBVIOUS
  <1>2. JournalOK
    BY <1>1, Sizes DEF Init, JournalOK, OneRowPerOperation
  <1>3. TailOK  BY <1>1, NoTailIsTail DEF Init, TailOK
  <1>4. CallsOK
    BY <1>1, IdleIsCall DEF Init, CallsOK, CallType
  <1>5. AuthorityOK  BY <1>1, NobodyIsNoClient DEF Init, AuthorityOK
  <1>6. ProjectionType  BY <1>1, Sizes, EmptyIsList DEF Init, ProjectionType
  <1>7. ReceiptsOK  BY <1>1 DEF Init, ReceiptsOK, AcknowledgedIsDurable
  <1>8. Bounds
    <2>1. faults = 0 /\ broken = FALSE  BY <1>1 DEF Init
    <2>2. 0 \in 0..MaxFaults  BY Sizes
    <2>3. QED  BY <2>1, <2>2 DEF Bounds
  <1>9. QED  BY <1>2, <1>3, <1>4, <1>5, <1>6, <1>7, <1>8 DEF IInv

LEMMA StutterKeepsInv == IInv /\ UNCHANGED vars => IInv'
  <1>1. SUFFICES ASSUME IInv, UNCHANGED vars PROVE IInv'  OBVIOUS
  <1>2. /\ UNCHANGED <<journal, tail, projected, torn, watermark, mode, step, todo, recovery, client,
                       call, acked, faults, broken>>
    BY <1>1 DEF vars, disk, authority
  <1>3. JournalOK' /\ ReceiptsOK' /\ (\A o : Fits(o)' = Fits(o))
        /\ \A id : Accepted(id)' = Accepted(id)
    BY <1>1, <1>2, SameJournal DEF IInv
  <1>4. TailOK' /\ CallsOK'  BY <1>1, <1>2, <1>3 DEF IInv, TailOK, CallsOK
  <1>5. AuthorityOK'  BY <1>1, <1>2, <1>3 DEF IInv, AuthorityOK
  <1>6. ProjectionType' /\ Bounds'  BY <1>1, <1>2 DEF IInv, ProjectionType, Bounds
  <1>7. QED  BY <1>3, <1>4, <1>5, <1>6 DEF IInv

\* The inductive invariant behind the theorems below.
THEOREM JournalIsInvariant == Spec => []IInv
  <1>1. IInv /\ [Next]_vars => IInv'
    <2>1. SUFFICES ASSUME IInv, [Next]_vars PROVE IInv'  OBVIOUS
    <2>2. CASE \E c \in Clients : Client(c)  BY <2>1, <2>2, ClientKeepsInv
    <2>3. CASE Handle  BY <2>1, <2>3, HandleKeepsInv
    <2>4. CASE Attach  BY <2>1, <2>4, AttachKeepsInv
    <2>5. CASE Disturb
      BY <2>1, <2>5, AppendFailsKeepsInv, ProjectionFailsKeepsInv, DetachKeepsInv, CrashKeepsInv,
         LoseWatermarkKeepsInv DEF Disturb
    <2>6. CASE UNCHANGED vars  BY <2>1, <2>6, StutterKeepsInv
    <2>7. QED  BY <2>1, <2>2, <2>3, <2>4, <2>5, <2>6 DEF Next
  <1>2. QED  BY <1>1, InitMeetsInv, PTL DEF Spec

\* Every variable keeps its type: in particular a client submits at most
\* MaxTries times, and no revision exceeds the journal's.
THEOREM JournalTypeCorrect == Spec => []TypeOK
  <1>1. IInv => TypeOK
    BY DEF IInv, JournalOK, TailOK, CallsOK, AuthorityOK, ProjectionType, ReceiptsOK, Bounds, TypeOK
  <1>2. QED  BY <1>1, JournalIsInvariant, PTL

\* For any clients, operations and faults: an operation is journaled at most
\* once and directly on the revision it was based on, whatever request is
\* repeated and wherever an append was cut off.
THEOREM OperationsAreEnteredOnce == Spec => []OneRowPerOperation
  <1>1. IInv => OneRowPerOperation  BY DEF IInv, JournalOK
  <1>2. QED  BY <1>1, JournalIsInvariant, PTL

\* For any clients, operations and faults: a receipt that reached a client
\* names a durable row for ever.
THEOREM ReceiptsStayTrue == Spec => []AcknowledgedIsDurable
  <1>1. IInv => AcknowledgedIsDurable  BY DEF IInv, ReceiptsOK
  <1>2. QED  BY <1>1, JournalIsInvariant, PTL
-----------------------------------------------------------------------------
(* Refinement.  Rows enter by an append or by an attachment that finds one    *)
(* whole; receipts are given at the end of a projection.                     *)

LEMMA CommitOf ==
    ASSUME NEW op, Fits(op), journal' = Append(journal, op), acked' = acked
    PROVE  A!Next
  <1>1. A!Commit(op)  BY DEF Fits, Accepted, A!Commit, A!Ids
  <1>2. op \in Operation  BY DEF Fits
  <1>3. QED  BY <1>1, <1>2 DEF A!Next

LEMMA ClientStutters ==
    ASSUME NEW c \in Clients, Client(c)  PROVE  UNCHANGED <<journal, acked>>
  BY DEF Client, Begin, Status, Read, Fails, Replay, Admit, Conflict, RefuseUntilReopened,
         Submits, disk

LEMMA StepRefines ==
    ASSUME IInv, [Next]_vars  PROVE  [A!Next]_<<journal, acked>>
  <1>1. CASE \E c \in Clients : Client(c)  BY <1>1, ClientStutters
  <1>2. CASE AppendRow
    <2>1. Fits(call[client].op)  BY <1>2 DEF IInv, AuthorityOK, AppendRow
    <2>2. QED  BY <1>2, <2>1, CommitOf DEF AppendRow
  <1>3. CASE Projected
    <2>1. CASE client = Nobody  BY <1>3, <2>1 DEF Projected, disk
    <2>2. CASE client # Nobody
      <3> DEFINE id == call[client].op.id
                 i == RevisionOf(id)
      <3>1. i \in DOMAIN journal /\ journal[i].id = id
        BY <1>3, <2>2, ReceiptOfServed DEF Projected
      <3>2. acked' = acked \cup {<<journal[i].id, i>>} /\ UNCHANGED journal
        BY <1>3, <2>2, <3>1 DEF Projected, disk
      <3>3. A!Acknowledge(i)  BY <3>2 DEF A!Acknowledge
      <3>4. QED  BY <3>1, <3>3 DEF A!Next
    <2>3. QED  BY <2>1, <2>2
  <1>4. CASE Attach
    <2>1. CASE tail.whole
      <3>1. Fits(tail.row)  BY <2>1 DEF IInv, TailOK
      <3>2. QED  BY <1>4, <2>1, <3>1, CommitOf DEF Attach
    <2>2. CASE ~tail.whole  BY <1>4, <2>2 DEF Attach
    <2>3. QED  BY <2>1, <2>2
  <1>5. CASE Project \/ WriteRecord \/ WriteWatermark \/ Disturb
    BY <1>5 DEF Project, WriteRecord, WriteWatermark, Disturb, AppendFails, ProjectionFails,
                Detach, Crash, LoseWatermark, disk
  <1>6. CASE UNCHANGED vars  BY <1>6 DEF vars, disk
  <1>7. QED  BY <1>1, <1>2, <1>3, <1>4, <1>5, <1>6 DEF Next, Handle

\* The journal, its recovery and its answers implement one sequence of
\* operations with receipts that stay true, for every instance.
THEOREM JournalImplementsAuthority == Spec => ImplementsAuthority
  <1>1. Init => A!Init  BY DEF Init, A!Init
  <1>2. QED  BY <1>1, JournalIsInvariant, StepRefines, PTL DEF Spec, ImplementsAuthority, A!Spec
-----------------------------------------------------------------------------
(* The projection, as long as a record is written whole or not at all.  The  *)
(* invariant adds what the revision being applied has still to write.       *)

Pending == {todo[i] : i \in DOMAIN todo}

ProjectionInv ==
    /\ ProjectionCoversWatermark
    /\ ~torn
    /\ watermark <= Len(journal)
    /\ step = "write" =>
          /\ Pending \subseteq KeysOf(journal[watermark + 1])
          /\ \A k \in KeysOf(journal[watermark + 1]) :
                k \in Pending \/ projected[k] >= watermark + 1

\* An accepted row is none that the watermark speaks of yet.
LEMMA GrowthKeepsProjection ==
    ASSUME IInv, ProjectionInv, NEW op, journal' = Append(journal, op), op \in Operation,
           UNCHANGED <<projected, torn, watermark>>, step' # "write"
    PROVE  ProjectionInv'
  <1>1. /\ journal \in Seq(Operation) /\ Len(journal') = Len(journal) + 1
        /\ DOMAIN journal \subseteq DOMAIN journal'
        /\ DOMAIN journal = 1..Len(journal)
        /\ \A i \in DOMAIN journal : journal'[i] = journal[i]
        /\ Len(journal) \in Nat /\ watermark \in Nat /\ projected \in [Keys -> Revisions]
    BY DEF IInv, JournalOK, ProjectionType, Revisions
  <1>2. \A i \in 1..watermark : i \in DOMAIN journal  BY <1>1 DEF ProjectionInv
  <1>3. ProjectionCoversWatermark'
    BY <1>1, <1>2 DEF ProjectionInv, ProjectionCoversWatermark, KeysOf
  <1>4. QED  BY <1>1, <1>3 DEF ProjectionInv

LEMMA WriteRecordKeepsProjection ==
    ASSUME IInv, ProjectionInv, WriteRecord  PROVE  ProjectionInv'
  <1> DEFINE w == watermark + 1
             head == Head(todo)
  <1>0. /\ step = "write" /\ todo # <<>> /\ torn' = FALSE /\ todo' = Tail(todo)
        /\ projected' = [projected EXCEPT ![head] = w]
        /\ UNCHANGED <<journal, watermark, step>>
    BY DEF WriteRecord, ProjectionInv
  <1>1. /\ todo \in Seq(Keys) /\ projected \in [Keys -> Revisions] /\ watermark \in Nat
        /\ Len(journal) \in Nat /\ DOMAIN journal = 1..Len(journal)
        /\ \A k \in Keys : projected[k] \in Nat
    BY Sizes DEF IInv, JournalOK, ProjectionType, Revisions
  <1>2. head \in Keys /\ Pending = {head} \cup Pending'
    <2>1. Len(todo) \in Nat \ {0} /\ DOMAIN todo = 1..Len(todo) /\ head = todo[1] /\ head \in Keys
      BY <1>0, <1>1
    <2>2. /\ DOMAIN todo' = 1..(Len(todo) - 1)
          /\ \A i \in 1..(Len(todo) - 1) : todo'[i] = todo[i + 1]
      BY <1>0, <1>1, <2>1
    <2>3. Pending' \subseteq Pending  BY <2>1, <2>2 DEF Pending
    <2>4. Pending \subseteq {head} \cup Pending'
      <3>1. SUFFICES ASSUME NEW i \in DOMAIN todo, i # 1 PROVE todo[i] \in Pending'
        BY <2>1 DEF Pending
      <3>2. i - 1 \in 1..(Len(todo) - 1) /\ todo'[i - 1] = todo[i]  BY <2>1, <2>2, <3>1
      <3>3. QED  BY <2>2, <3>2 DEF Pending
    <2>5. head \in Pending  BY <2>1 DEF Pending
    <2>6. QED  BY <2>1, <2>3, <2>4, <2>5
  <1>3. head \in KeysOf(journal[w]) /\ w \in DOMAIN journal
    BY <1>0, <1>1, <1>2, NextRevision DEF ProjectionInv, Revisions
  <1>4. ProjectionCoversWatermark'
    <2>1. \A k \in Keys : projected'[k] = IF k = head THEN w ELSE projected[k]
      BY <1>0, <1>1
    <2>2. \A k \in Keys, i \in 1..watermark :
             k \in KeysOf(journal[i]) => projected'[k] >= i
      BY <1>1, <2>1 DEF ProjectionInv, ProjectionCoversWatermark
    <2>3. \A k \in Keys : projected'[k] # 0 =>
             projected'[k] \in DOMAIN journal /\ k \in KeysOf(journal[projected'[k]])
      BY <1>3, <2>1 DEF ProjectionInv, ProjectionCoversWatermark
    <2>4. QED  BY <1>0, <2>2, <2>3 DEF ProjectionCoversWatermark, KeysOf
  <1>5. Pending' \subseteq KeysOf(journal[w])
    BY <1>0, <1>2 DEF ProjectionInv
  <1>6. \A k \in KeysOf(journal[w]) : k \in Pending' \/ projected'[k] >= w
    <2>1. KeysOf(journal[w]) \subseteq Keys
      <3>1. journal[w] \in Operation  BY <1>3 DEF IInv, JournalOK
      <3>2. journal[w].keys \in Seq(Keys)  BY <3>1, KeyListsAreLists DEF Operation
      <3>3. QED  BY <3>2 DEF KeysOf
    <2>2. QED  BY <1>0, <1>1, <1>2, <2>1 DEF ProjectionInv
  <1>7. QED  BY <1>0, <1>4, <1>5, <1>6 DEF ProjectionInv, KeysOf

LEMMA WriteWatermarkKeepsProjection ==
    ASSUME IInv, ProjectionInv, WriteWatermark  PROVE  ProjectionInv'
  <1>0. /\ step = "write" /\ todo = <<>> /\ watermark' = watermark + 1 /\ step' = "project"
        /\ UNCHANGED <<journal, projected, torn>>
    BY DEF WriteWatermark
  <1>1. watermark \in Nat /\ watermark + 1 <= Len(journal)
    BY <1>0, NextRevision DEF IInv, ProjectionType, Revisions
  <1>2. \A k \in KeysOf(journal[watermark + 1]) : projected[k] >= watermark + 1
    BY <1>0 DEF ProjectionInv, Pending
  <1>3. ProjectionCoversWatermark'
    BY <1>0, <1>1, <1>2 DEF ProjectionInv, ProjectionCoversWatermark, KeysOf
  <1>4. QED  BY <1>0, <1>1, <1>3 DEF ProjectionInv

\* Steps that touch neither rows, records nor the watermark.
LEMMA QuietKeepsProjection ==
    ASSUME ProjectionInv, UNCHANGED <<journal, projected, watermark>>, ~torn',
           step' = "write" => step = "write" /\ todo' = todo
    PROVE  ProjectionInv'
  <1>1. ProjectionCoversWatermark'
    BY DEF ProjectionInv, ProjectionCoversWatermark, KeysOf
  <1>2. step' = "write" => Pending' = Pending  BY DEF Pending
  <1>3. QED  BY <1>1, <1>2 DEF ProjectionInv, KeysOf

LEMMA ProjectKeepsProjection ==
    ASSUME IInv, ProjectionInv, Project  PROVE  ProjectionInv'
  <1>0. todo' = journal[watermark + 1].keys /\ UNCHANGED <<journal, projected, torn, watermark>>
    BY DEF Project, disk
  <1>1. Pending' = KeysOf(journal[watermark + 1])  BY <1>0 DEF Pending, KeysOf
  <1>2. ProjectionCoversWatermark'
    BY <1>0 DEF ProjectionInv, ProjectionCoversWatermark, KeysOf
  <1>3. QED  BY <1>0, <1>1, <1>2 DEF ProjectionInv, KeysOf

LEMMA LoseWatermarkKeepsProjection ==
    ASSUME IInv, ProjectionInv, LoseWatermark  PROVE  ProjectionInv'
  <1>0. watermark' = 0 /\ UNCHANGED <<journal, projected, torn, step>> /\ step = "idle"
    BY DEF LoseWatermark, authority, IInv, AuthorityOK
  <1>1. Len(journal) \in Nat  BY DEF IInv, JournalOK
  <1>2. ProjectionCoversWatermark'
    BY <1>0 DEF ProjectionInv, ProjectionCoversWatermark, KeysOf
  <1>3. QED  BY <1>0, <1>1, <1>2 DEF ProjectionInv

\* The projection invariant holds in every state, if records are written whole.
THEOREM ProjectionIsInvariant ==
    ASSUME ~TearsRecords  PROVE  Spec => []ProjectionInv
  <1>1. Init => ProjectionInv
    BY DEF Init, ProjectionInv, ProjectionCoversWatermark
  <1>2. IInv /\ ProjectionInv /\ [Next]_vars => ProjectionInv'
    <2>1. SUFFICES ASSUME IInv, ProjectionInv, [Next]_vars PROVE ProjectionInv'  OBVIOUS
    <2>2. CASE \E c \in Clients : Client(c)
      <3>1. PICK c \in Clients : Client(c)  BY <2>2
      <3>2. /\ UNCHANGED <<journal, projected, torn, watermark, todo>>
            /\ step' \in {step, "append", "project"}
        BY <3>1 DEF Client, Begin, Status, Read, Fails, Replay, Admit, Conflict,
                    RefuseUntilReopened, Submits, Handles, disk, authority
      <3>3. QED  BY <2>1, <3>2, QuietKeepsProjection DEF ProjectionInv
    <2>3. CASE AppendRow
      <3>1. call[client].op \in Operation  BY <2>1, <2>3 DEF IInv, AuthorityOK, AppendRow, Fits
      <3>2. QED  BY <2>1, <2>3, <3>1, GrowthKeepsProjection DEF AppendRow
    <2>4. CASE Attach
      <3>1. CASE tail.whole
        <4>1. tail.row \in Operation  BY <2>1, <3>1 DEF IInv, TailOK, Fits
        <4>2. QED  BY <2>1, <2>4, <3>1, <4>1, GrowthKeepsProjection DEF Attach
      <3>2. CASE ~tail.whole
        BY <2>1, <2>4, <3>2, QuietKeepsProjection DEF Attach, ProjectionInv
      <3>3. QED  BY <3>1, <3>2
    <2>5. CASE Project \/ WriteRecord \/ WriteWatermark \/ LoseWatermark
      BY <2>1, <2>5, ProjectKeepsProjection, WriteRecordKeepsProjection,
         WriteWatermarkKeepsProjection, LoseWatermarkKeepsProjection
    <2>6. CASE Projected \/ AppendFails \/ ProjectionFails \/ Detach \/ Crash
      <3>1. /\ UNCHANGED <<journal, projected, watermark>>
            /\ torn' = torn /\ step' = "idle"
        BY <2>6 DEF Projected, AppendFails, ProjectionFails, Detach, Crash, Down, disk
      <3>2. QED  BY <2>1, <3>1, QuietKeepsProjection DEF ProjectionInv
    <2>7. CASE UNCHANGED vars
      <3>1. UNCHANGED <<journal, projected, torn, watermark, todo, step>>
        BY <2>7 DEF vars, disk, authority
      <3>2. QED  BY <2>1, <3>1, QuietKeepsProjection DEF ProjectionInv
    <2>8. QED  BY <2>1, <2>2, <2>3, <2>4, <2>5, <2>6, <2>7 DEF Next, Handle, Disturb
  <1>3. QED  BY <1>1, <1>2, JournalIsInvariant, PTL DEF Spec

\* For any clients, operations and faults, crashes between any two writes
\* included: if records are written whole, readers find for every key a record
\* at least as new as the watermark says, made by a journaled operation.
THEOREM WatermarkNeverAhead ==
    ASSUME ~TearsRecords  PROVE  Spec => []ProjectionCoversWatermark
  <1>1. Spec => []ProjectionInv  BY ProjectionIsInvariant
  <1>2. ProjectionInv => ProjectionCoversWatermark  BY DEF ProjectionInv
  <1>3. QED  BY <1>1, <1>2, PTL
-----------------------------------------------------------------------------
(* Resets.  A record may be read while a later revision is being written, and *)
(* then it is newer than the captured revision says; but that revision is no *)
(* longer the last one, and stays behind.  So the invariant claims the record *)
(* only of an operation whose base still is the journal's last revision.    *)

MadeFromLatest(op) ==
    op.kind = "reset" =>
        /\ op.base <= Len(journal)
        /\ op.base = Len(journal) => op.seen = LastWrite(op.keys[1], Len(journal))

\* Who may capture a revision finds the files as new as the journal.
ServedIsCurrent ==
    mode = "serving" /\ step \in {"idle", "append"} => watermark = Len(journal)

CallsSeeLatest ==
    \A c \in Clients :
        /\ call[c].pc = "read" => call[c].op.base <= watermark
        /\ call[c].pc \in {"ready", "sent", "lost"} => MadeFromLatest(call[c].op)

TailSeesLatest == tail.whole => MadeFromLatest(tail.row)

ResetInv ==
    /\ ~broken => ServedIsCurrent /\ CallsSeeLatest /\ TailSeesLatest
    /\ ResetsSeeLatest

\* What the files show is the last write, once the watermark has caught up.
LEMMA FilesShowLastWrite ==
    ASSUME IInv, ProjectionInv, watermark = Len(journal), NEW k \in Keys
    PROVE  projected[k] = LastWrite(k, Len(journal))
  <1> DEFINE writes == {i \in 1..Len(journal) : k \in KeysOf(journal[i])}
  <1>1. /\ Len(journal) \in Nat /\ DOMAIN journal = 1..Len(journal) /\ projected[k] \in Nat
    BY DEF IInv, JournalOK, ProjectionType, Revisions
  <1>2. /\ \A i \in writes : projected[k] >= i
        /\ projected[k] # 0 => projected[k] \in writes
    BY <1>1 DEF ProjectionInv, ProjectionCoversWatermark
  <1>3. CASE writes = {}  BY <1>2, <1>3 DEF LastWrite
  <1>4. CASE writes # {}
    <2>1. projected[k] \in writes  BY <1>1, <1>2, <1>4
    <2>2. \A i \in writes : (\A j \in writes : j <= i) => i = projected[k]
      BY <1>1, <1>2, <2>1
    <2>3. (CHOOSE i \in writes : \A j \in writes : j <= i) = projected[k]
      BY <1>2, <2>1, <2>2
    <2>4. QED  BY <1>4, <2>3 DEF LastWrite
  <1>5. QED  BY <1>3, <1>4

\* The last write among rows that stay stays the last.
LEMMA LastWriteStays ==
    ASSUME NEW n \in Nat, NEW k, \A i \in 1..n : journal'[i] = journal[i]
    PROVE  LastWrite(k, n)' = LastWrite(k, n)
  <1> DEFINE writes == {i \in 1..n : k \in KeysOf(journal[i])}
  <1>1. writes' = writes  BY DEF KeysOf
  <1>2. LastWrite(k, n) = IF writes = {} THEN 0 ELSE CHOOSE i \in writes : \A j \in writes : j <= i
    BY DEF LastWrite
  <1>3. LastWrite(k, n)' =
           IF writes' = {} THEN 0 ELSE CHOOSE i \in writes' : \A j \in writes' : j <= i
    BY DEF LastWrite
  <1> HIDE DEF writes
  <1>4. QED  BY <1>1, <1>2, <1>3

\* While no row enters, what was made from the latest record still is.
LEMMA SameRowsKeepResets ==
    ASSUME ResetsSeeLatest, UNCHANGED journal, ~broken' => ~broken
    PROVE  /\ ResetsSeeLatest'
           /\ \A op : MadeFromLatest(op)' = MadeFromLatest(op)
  <1>1. ResetsSeeLatest'  BY DEF ResetsSeeLatest, LastWrite, KeysOf
  <1>2. \A op : MadeFromLatest(op)' = MadeFromLatest(op)
    BY DEF MadeFromLatest, LastWrite, KeysOf
  <1>3. QED  BY <1>1, <1>2

\* A row that enters was made from the latest record if it is a reset, and
\* leaves every other captured revision behind.
LEMMA GrowthKeepsResets ==
    ASSUME IInv, ResetsSeeLatest, NEW row, Fits(row), MadeFromLatest(row) \/ broken,
           journal' = Append(journal, row), UNCHANGED broken
    PROVE  /\ ResetsSeeLatest'
           /\ \A op \in Operation : MadeFromLatest(op) => MadeFromLatest(op)'
  <1>0. Len(journal) \in Nat  BY DEF IInv, JournalOK
  <1>. PICK n \in Nat : n = Len(journal)  BY <1>0
  <1>1. /\ journal \in Seq(Operation) /\ Len(journal') = n + 1
        /\ DOMAIN journal = 1..n /\ DOMAIN journal' = 1..(n + 1)
        /\ \A i \in 1..n : journal'[i] = journal[i]
        /\ journal'[n + 1] = row
    BY DEF IInv, JournalOK, Fits
  <1>2. ASSUME NEW k, NEW m \in 0..n  PROVE  LastWrite(k, m)' = LastWrite(k, m)
    <2>1. m \in Nat /\ \A i \in 1..m : journal'[i] = journal[i]  BY <1>1
    <2>2. QED  BY <2>1, LastWriteStays
  <1>3. ASSUME ~broken', NEW i \in DOMAIN journal', journal'[i].kind = "reset",
               NEW k, k = journal'[i].keys[1], NEW m, m = i - 1
        PROVE  journal'[i].seen = LastWrite(k, m)'
    <2>1. m \in 0..n  BY <1>1, <1>3
    <2>2. LastWrite(k, m)' = LastWrite(k, m)  BY <1>2, <2>1
    <2>3. CASE i = n + 1
      <3>1. row.seen = LastWrite(k, m)  BY <1>1, <1>3, <2>3 DEF Fits, MadeFromLatest
      <3>2. QED  BY <1>1, <2>2, <2>3, <3>1
    <2>4. CASE i \in 1..n
      <3>1. journal[i].seen = LastWrite(k, m)  BY <1>1, <1>3, <2>4 DEF ResetsSeeLatest
      <3>2. QED  BY <1>1, <2>2, <2>4, <3>1
    <2>5. QED  BY <1>1, <2>3, <2>4
  <1>4. ResetsSeeLatest'  BY <1>3 DEF ResetsSeeLatest
  <1>5. \A op \in Operation : MadeFromLatest(op) => MadeFromLatest(op)'
    BY <1>1 DEF MadeFromLatest, Operation, Revisions
  <1>6. QED  BY <1>4, <1>5
-----------------------------------------------------------------------------
\* A step of one client's call that enters no row.
LEMMA OwnCallKeepsResets ==
    ASSUME ResetInv, NEW c \in Clients,
           UNCHANGED <<journal, tail, watermark, mode, broken>>,
           \/ step' \in {step, "project"}
           \/ step' = "append" /\ step = "idle" /\ mode = "serving",
           \A q \in Clients : q # c => call'[q] = call[q],
           ~broken => /\ call'[c].pc = "read" => call'[c].op.base <= watermark
                      /\ call'[c].pc \in {"ready", "sent", "lost"} => MadeFromLatest(call'[c].op)
    PROVE  ResetInv'
  <1>1. ResetsSeeLatest' /\ \A op : MadeFromLatest(op)' = MadeFromLatest(op)
    BY SameRowsKeepResets DEF ResetInv
  <1>2. SUFFICES ASSUME ~broken PROVE (ServedIsCurrent /\ CallsSeeLatest /\ TailSeesLatest)'
    BY <1>1 DEF ResetInv
  <1>3. ServedIsCurrent'  BY <1>2 DEF ResetInv, ServedIsCurrent
  <1>4. TailSeesLatest'  BY <1>1, <1>2 DEF ResetInv, TailSeesLatest
  <1>5. CallsSeeLatest'  BY <1>1, <1>2 DEF ResetInv, CallsSeeLatest
  <1>6. QED  BY <1>3, <1>4, <1>5

LEMMA StatusKeepsResets ==
    ASSUME IInv, ResetInv, NEW c \in Clients, Status(c)  PROVE  ResetInv'
  <1>0. /\ call[c].pc = "status" /\ CallsOK /\ Len(journal) \in Nat
        /\ UNCHANGED <<journal, tail, watermark, mode, step, broken>>
    BY DEF Status, IInv, JournalOK, NoFault, disk, authority
  <1>1. CASE mode = "serving"
    <2>1. /\ step = "idle"
          /\ call'[c].op = [call[c].op EXCEPT !.base = Len(journal)]
          /\ call'[c].pc = IF call[c].op.kind = "reset" THEN "read" ELSE "ready"
          /\ \A q \in Clients : q # c => call'[q] = call[q]
      BY <1>0, <1>1 DEF Status, Revision, CallsOK
    <2>2. call[c].op \in Operation  BY <1>0, OwnCallTyped
    <2>3. call'[c].op.kind = call[c].op.kind /\ call'[c].op.base = Len(journal)
      BY <2>1, <2>2 DEF Operation
    <2>4. ~broken => watermark = Len(journal)
      BY <1>1, <2>1 DEF ResetInv, ServedIsCurrent
    <2>5. call'[c].pc \in {"ready", "sent", "lost"} => MadeFromLatest(call'[c].op)
      BY <2>1, <2>3 DEF MadeFromLatest
    <2>6. ~broken => call'[c].op.base <= watermark  BY <1>0, <2>3, <2>4
    <2>7. QED  BY <1>0, <2>1, <2>5, <2>6, OwnCallKeepsResets
  <1>2. CASE mode # "serving"
    <2>1. call'[c].pc = "idle" /\ \A q \in Clients : q # c => call'[q] = call[q]
      BY <1>0, <1>2 DEF Status, Return, Idle, CallsOK
    <2>2. QED  BY <1>0, <2>1, OwnCallKeepsResets
  <1>3. QED  BY <1>1, <1>2

\* What was read may be newer than the captured revision; then the journal is.
LEMMA ReadKeepsResets ==
    ASSUME IInv, ProjectionInv, ResetInv, NEW c \in Clients, Read(c)  PROVE  ResetInv'
  <1> DEFINE k == call[c].op.keys[1]
  <1>0. /\ call[c].pc = "read" /\ CallsOK /\ Len(journal) \in Nat /\ watermark \in Nat
        /\ UNCHANGED <<journal, tail, watermark, mode, step, broken>>
        /\ call'[c].pc = "ready" /\ call'[c].op = [call[c].op EXCEPT !.seen = projected[k]]
        /\ \A q \in Clients : q # c => call'[q] = call[q]
    BY DEF Read, IInv, JournalOK, ProjectionType, Revisions, CallsOK, NoFault, disk, authority
  <1>1. call[c].op \in Operation  BY <1>0, OwnCallTyped
  <1>2. /\ call'[c].op.base = call[c].op.base /\ call'[c].op.keys = call[c].op.keys
        /\ call'[c].op.seen = projected[k] /\ call[c].op.base \in Nat
    BY <1>0, <1>1 DEF Operation, Revisions
  <1>3. k \in Keys
    <2>1. call[c].op.keys \in Seq(Keys) /\ call[c].op.keys # <<>>
      BY <1>1, KeyListsAreLists DEF Operation
    <2>2. QED  BY <2>1
  <1>4. ASSUME ~broken  PROVE  MadeFromLatest(call'[c].op)
    <2>1. call[c].op.base <= watermark /\ watermark <= Len(journal)
      BY <1>0, <1>4 DEF ResetInv, CallsSeeLatest, ProjectionInv
    <2>2. CASE call[c].op.base = Len(journal)
      <3>1. watermark = Len(journal)  BY <1>0, <2>1, <2>2
      <3>2. projected[k] = LastWrite(k, Len(journal))  BY <1>3, <3>1, FilesShowLastWrite
      <3>3. QED  BY <1>0, <1>2, <2>2, <3>2 DEF MadeFromLatest
    <2>3. CASE call[c].op.base # Len(journal)
      BY <1>0, <1>2, <2>1, <2>3 DEF MadeFromLatest
    <2>4. QED  BY <2>2, <2>3
  <1>5. QED  BY <1>0, <1>4, OwnCallKeepsResets

\* A request carries what its call prepared, under an id.
LEMMA RequestsSeeLatest ==
    ASSUME CallsOK, NEW c \in Clients, call[c].pc \in {"ready", "lost"}, NEW op \in Requests(c),
           MadeFromLatest(call[c].op)
    PROVE  MadeFromLatest(op)
  <1>1. call[c].op \in Operation  BY OwnCallTyped
  <1>2. CASE call[c].pc = "ready"
    <2>1. PICK id \in FreshIds : op = [call[c].op EXCEPT !.id = id]  BY <1>2 DEF Requests
    <2>2. /\ op.kind = call[c].op.kind /\ op.base = call[c].op.base
          /\ op.seen = call[c].op.seen /\ op.keys = call[c].op.keys
      BY <1>1, <2>1 DEF Operation
    <2>3. QED  BY <2>2 DEF MadeFromLatest
  <1>3. CASE call[c].pc # "ready"  BY <1>3 DEF Requests
  <1>4. QED  BY <1>2, <1>3

LEMMA RequestKeepsResets ==
    ASSUME IInv, ResetInv, NEW c \in Clients, NEW op \in Requests(c),
           Replay(c, op) \/ Admit(c, op) \/ Conflict(c, op) \/ RefuseUntilReopened(c, op)
    PROVE  ResetInv'
  <1>0. /\ mode = "serving" /\ step = "idle" /\ call[c].pc \in {"ready", "lost"} /\ CallsOK
        /\ UNCHANGED <<journal, tail, watermark, mode, broken>>
    BY DEF Replay, Admit, Conflict, RefuseUntilReopened, Submits, IInv, disk, NoFault
  <1>1. ~broken => MadeFromLatest(op)
    BY <1>0, RequestsSeeLatest DEF ResetInv, CallsSeeLatest
  <1>2. CASE Replay(c, op) \/ Admit(c, op) \/ RefuseUntilReopened(c, op)
    <2>1. /\ step' \in {"idle", "append", "project"}
          /\ call'[c].op = op /\ call'[c].pc \in {"sent", "lost"}
          /\ \A q \in Clients : q # c => call'[q] = call[q]
      BY <1>0, <1>2 DEF Replay, Admit, RefuseUntilReopened, Handles, CallsOK
    <2>2. QED  BY <1>0, <1>1, <2>1, OwnCallKeepsResets
  <1>3. CASE Conflict(c, op)
    <2>1. /\ step' = step /\ call'[c].pc \in {"status", "idle"}
          /\ \A q \in Clients : q # c => call'[q] = call[q]
      BY <1>0, <1>3 DEF Conflict, Return, Idle, CallsOK
    <2>2. QED  BY <1>0, <2>1, OwnCallKeepsResets
  <1>4. QED  BY <1>2, <1>3

LEMMA ClientKeepsResets ==
    ASSUME IInv, ProjectionInv, ResetInv, NEW c \in Clients, Client(c)  PROVE  ResetInv'
  <1>1. CASE (\E intent \in Intents : intent[1] = c /\ Begin(c, intent[2], intent[3])) \/ Fails(c)
    <2>1. CallsOK /\ UNCHANGED <<journal, tail, watermark, mode, step, broken>>
      BY <1>1 DEF Begin, Fails, IInv, NoFault, disk, authority
    <2>2. /\ call'[c].pc \in {"status", "idle"}
          /\ \A q \in Clients : q # c => call'[q] = call[q]
      <3>1. CASE Fails(c)
        <4>1. Idle.pc = "idle" /\ call' = [call EXCEPT ![c] = Idle]
          BY <3>1 DEF Fails, Return, Idle
        <4>2. QED  BY <2>1, <4>1 DEF CallsOK
      <3>2. CASE \E intent \in Intents : intent[1] = c /\ Begin(c, intent[2], intent[3])
        <4>1. PICK intent \in Intents : Begin(c, intent[2], intent[3])  BY <3>2
        <4> DEFINE r == [pc |-> "status", tries |-> 0,
                         op |-> [NoOperation EXCEPT !.kind = intent[2], !.keys = intent[3]]]
        <4>2. r.pc = "status" /\ call' = [call EXCEPT ![c] = r]  BY <4>1 DEF Begin
        <4> HIDE DEF r
        <4>3. QED  BY <2>1, <4>2 DEF CallsOK
      <3>3. QED  BY <1>1, <3>1, <3>2
    <2>3. QED  BY <2>1, <2>2, OwnCallKeepsResets
  <1>2. CASE Status(c) \/ Read(c)  BY <1>2, StatusKeepsResets, ReadKeepsResets
  <1>3. CASE \E op \in Requests(c) :
                Replay(c, op) \/ Admit(c, op) \/ Conflict(c, op) \/ RefuseUntilReopened(c, op)
    BY <1>3, RequestKeepsResets
  <1>4. QED  BY <1>1, <1>2, <1>3 DEF Client
-----------------------------------------------------------------------------
\* The served client's operation was made from the latest record.
LEMMA ServedSeesLatest ==
    ASSUME IInv, ResetInv, ~broken, client # Nobody
    PROVE  MadeFromLatest(call[client].op)
  BY ServedClient DEF ResetInv, CallsSeeLatest

\* A row that enters from a request or from the end of the file.
LEMMA RowKeepsResets ==
    ASSUME IInv, ResetInv, NEW row, Fits(row), MadeFromLatest(row) \/ broken,
           journal' = Append(journal, row), step' = "project", ~tail'.whole,
           UNCHANGED <<watermark, call, broken>>
    PROVE  ResetInv'
  <1>1. /\ ResetsSeeLatest'
        /\ \A op \in Operation : MadeFromLatest(op) => MadeFromLatest(op)'
    BY GrowthKeepsResets DEF ResetInv
  <1>2. ServedIsCurrent' /\ TailSeesLatest'  BY DEF ServedIsCurrent, TailSeesLatest
  <1>3. ~broken => CallsSeeLatest'
    <2>1. \A c \in Clients : call[c].pc # "idle" => call[c].op \in Operation
      BY DEF IInv, CallsOK
    <2>2. QED  BY <1>1, <2>1 DEF ResetInv, CallsSeeLatest
  <1>4. QED  BY <1>1, <1>2, <1>3 DEF ResetInv

LEMMA RowsKeepResets ==
    ASSUME IInv, ResetInv, AppendRow \/ (Attach /\ tail.whole)  PROVE  ResetInv'
  <1>1. CASE AppendRow
    <2>1. /\ Fits(call[client].op) /\ client # Nobody /\ ~tail.whole
      BY <1>1 DEF AppendRow, IInv, AuthorityOK, TailOK
    <2>2. MadeFromLatest(call[client].op) \/ broken  BY <2>1, ServedSeesLatest
    <2>3. QED  BY <1>1, <2>1, <2>2, RowKeepsResets DEF AppendRow, NoFault
  <1>2. CASE Attach /\ tail.whole
    <2>1. Fits(tail.row) /\ (MadeFromLatest(tail.row) \/ broken)
      BY <1>2 DEF IInv, TailOK, ResetInv, TailSeesLatest
    <2>2. QED  BY <1>2, <2>1, NoTailIsTail, RowKeepsResets DEF Attach, NoFault
  <1>3. QED  BY <1>1, <1>2

\* A step of the authority that enters no row: calls end, or are left.
LEMMA QuietKeepsResets ==
    ASSUME IInv, ResetInv, UNCHANGED <<journal, broken>>,
           watermark' \in {watermark, watermark + 1},
           ~broken => ServedIsCurrent',
           \/ UNCHANGED call
           \/ client # Nobody /\ (Return(client) \/ At(client, "lost")),
           \/ ~tail'.whole \/ UNCHANGED tail
           \/ client # Nobody /\ tail' \in Remains(call[client].op)
    PROVE  ResetInv'
  <1>1. ResetsSeeLatest' /\ \A op : MadeFromLatest(op)' = MadeFromLatest(op)
    BY SameRowsKeepResets DEF ResetInv
  <1>2. SUFFICES ASSUME ~broken PROVE (CallsSeeLatest /\ TailSeesLatest)'
    BY <1>1 DEF ResetInv
  <1>3. CallsSeeLatest'
    <2>1. SUFFICES ASSUME NEW c \in Clients
                   PROVE  (/\ call[c].pc = "read" => call[c].op.base <= watermark
                           /\ call[c].pc \in {"ready", "sent", "lost"} => MadeFromLatest(call[c].op))'
      BY DEF CallsSeeLatest
    <2>2. /\ call[c].pc = "read" => call[c].op.base <= watermark
          /\ call[c].pc \in {"ready", "sent", "lost"} => MadeFromLatest(call[c].op)
      BY <1>2 DEF ResetInv, CallsSeeLatest
    <2>3. CASE call'[c] = call[c]
      <3>1. call[c].pc = "read" => call[c].op.base \in Nat
        BY DEF IInv, CallsOK, Operation, Revisions
      <3>2. watermark \in Nat  BY DEF IInv, ProjectionType, Revisions
      <3>3. call'[c].pc = "read" => call'[c].op.base <= watermark'  BY <2>2, <2>3, <3>1, <3>2
      <3>4. QED  BY <1>1, <2>2, <2>3, <3>3
    <2>4. CASE call'[c].pc = "idle"  BY <2>4
    <2>5. CASE c = client /\ client # Nobody /\ At(client, "lost")
      <3>1. call'[c].pc = "lost" /\ call'[c].op = call[c].op
        BY <2>5, ServedClient DEF At, IInv, CallsOK
      <3>2. MadeFromLatest(call[c].op)  BY <1>2, <2>5, ServedSeesLatest
      <3>3. QED  BY <1>1, <3>1, <3>2
    <2>6. QED  BY <2>3, <2>4, <2>5 DEF Return, At, Idle, IInv, CallsOK
  <1>4. TailSeesLatest'
    <2>1. CASE UNCHANGED tail  BY <1>1, <1>2, <2>1 DEF ResetInv, TailSeesLatest
    <2>2. CASE ~tail'.whole  BY <2>2 DEF TailSeesLatest
    <2>3. CASE client # Nobody /\ tail' \in Remains(call[client].op)
      <3>1. ~tail'.whole \/ tail'.row = call[client].op  BY <2>3, NoTailIsTail DEF Remains
      <3>2. MadeFromLatest(call[client].op)  BY <1>2, <2>3, ServedSeesLatest
      <3>3. QED  BY <1>1, <3>1, <3>2 DEF TailSeesLatest, MadeFromLatest
    <2>4. QED  BY <2>1, <2>2, <2>3
  <1>5. QED  BY <1>3, <1>4

LEMMA AuthorityKeepsResets ==
    ASSUME IInv, ResetInv,
           \/ Project \/ WriteRecord \/ WriteWatermark \/ Projected
           \/ AppendFails \/ Detach \/ Crash \/ (Attach /\ ~tail.whole)
    PROVE  ResetInv'
  <1>1. CASE Project \/ WriteRecord \/ WriteWatermark
    <2>1. /\ UNCHANGED <<journal, broken, call, tail>> /\ watermark' \in {watermark, watermark + 1}
          /\ step' \in {"project", "write"}
      BY <1>1 DEF Project, WriteRecord, WriteWatermark, NoFault, disk
    <2>2. QED  BY <2>1, QuietKeepsResets DEF ServedIsCurrent
  <1>2. CASE Projected
    <2>1. /\ UNCHANGED <<journal, watermark, tail, broken>> /\ watermark = Len(journal)
          /\ UNCHANGED call \/ (client # Nobody /\ Return(client))
      BY <1>2 DEF Projected, Revision, disk, NoFault
    <2>2. QED  BY <2>1, QuietKeepsResets DEF ServedIsCurrent
  <1>3. CASE AppendFails
    <2>1. /\ UNCHANGED <<journal, watermark, mode, broken>> /\ step = "append" /\ mode = "serving"
          /\ tail' \in Remains(call[client].op) /\ client # Nobody /\ At(client, "lost")
      BY <1>3 DEF AppendFails, IInv, AuthorityOK
    <2>2. ~broken => ServedIsCurrent'  BY <2>1 DEF ResetInv, ServedIsCurrent
    <2>3. QED  BY <2>1, <2>2, QuietKeepsResets
  <1>4. CASE Detach
    <2>1. UNCHANGED <<journal, watermark, tail, call, broken>> /\ mode' = "down"
      BY <1>4 DEF Detach, Down, disk, NoFault
    <2>2. QED  BY <2>1, QuietKeepsResets DEF ServedIsCurrent
  <1>5. CASE Crash
    <2>1. /\ UNCHANGED <<journal, watermark, broken>> /\ mode' = "down"
          /\ UNCHANGED call \/ (client # Nobody /\ At(client, "lost"))
          /\ UNCHANGED tail \/ (client # Nobody /\ tail' \in Remains(call[client].op))
      BY <1>5 DEF Crash, Down, IInv, AuthorityOK
    <2>2. QED  BY <2>1, QuietKeepsResets DEF ServedIsCurrent
  <1>6. CASE Attach /\ ~tail.whole
    <2>1. UNCHANGED <<journal, watermark, call, broken>> /\ mode' = "attaching" /\ ~tail'.whole
      BY <1>6, NoTailIsTail DEF Attach, NoFault
    <2>2. QED  BY <2>1, QuietKeepsResets DEF ServedIsCurrent
  <1>7. QED  BY <1>1, <1>2, <1>3, <1>4, <1>5, <1>6

\* For any clients, operations and faults, if records are written whole and no
\* write of the projection failed: a reset that was accepted replaced the
\* latest record, whoever wrote between its reading and its acceptance,
\* and wherever the authority went down and came back meanwhile.
THEOREM AcceptedResetsSeeLatest ==
    ASSUME ~TearsRecords  PROVE  Spec => []ResetsSeeLatest
  <1>1. Spec => []ProjectionInv  BY ProjectionIsInvariant
  <1>2. Init => ResetInv
    BY DEF Init, ResetInv, ServedIsCurrent, CallsSeeLatest, TailSeesLatest, ResetsSeeLatest, Idle,
           NoTail
  <1>3. IInv /\ ProjectionInv /\ ResetInv /\ [Next]_vars => ResetInv'
    <2>1. SUFFICES ASSUME IInv, ProjectionInv, ResetInv, [Next]_vars PROVE ResetInv'  OBVIOUS
    <2>2. CASE \E c \in Clients : Client(c)  BY <2>1, <2>2, ClientKeepsResets
    <2>3. CASE Handle \/ Attach \/ AppendFails \/ Detach \/ Crash
      BY <2>1, <2>3, RowsKeepResets, AuthorityKeepsResets DEF Handle
    <2>4. CASE ProjectionFails \/ LoseWatermark
      <3>1. broken'  BY <2>4 DEF ProjectionFails, LoseWatermark
      <3>2. QED  BY <3>1 DEF ResetInv, ResetsSeeLatest
    <2>5. CASE UNCHANGED vars
      <3>1. UNCHANGED <<journal, tail, watermark, mode, step, call, broken>>
        BY <2>5 DEF vars, disk, authority
      <3>2. ~broken => ServedIsCurrent'  BY <2>1, <3>1 DEF ResetInv, ServedIsCurrent
      <3>3. QED  BY <2>1, <3>1, <3>2, QuietKeepsResets
    <2>6. QED  BY <2>1, <2>2, <2>3, <2>4, <2>5 DEF Next, Disturb
  <1>4. ResetInv => ResetsSeeLatest  BY DEF ResetInv
  <1>5. QED  BY <1>1, <1>2, <1>3, <1>4, JournalIsInvariant, PTL DEF Spec
=============================================================================
