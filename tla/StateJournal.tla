------------------------------ MODULE StateJournal ------------------------------
(***************************************************************************)
(* The shared-state authority of one project: an operation journal, the     *)
(* JSONL projection made from it, the projection watermark, and the clients *)
(* of the control socket.                                                  *)
(*                                                                         *)
(* The supervisor handles one request at a time, but everyone reads the     *)
(* projected files without a lock, and the process may end between any two  *)
(* writes.  A record's contents are abstracted to the revision that wrote it.*)
(***************************************************************************)
EXTENDS Naturals, Sequences, FiniteSets

CONSTANTS
    Clients,       \* processes that write through SupervisorStoreWriter
    Keys,          \* orbs, whose records are lines of orbs.jsonl
    Intents,       \* what clients may want: <<client, kind, sequence of keys>>
    MaxTries,      \* MAX_CONFLICT_RETRIES
    TearsRecords,  \* whether a projected record may be cut off
    MaxRows,       \* bound on journaled operations
    MaxFaults      \* bound on crashes and failed writes

ASSUME JournalAssumption ==
    /\ IsFiniteSet(Clients) /\ "nobody" \notin Clients
    /\ Intents \subseteq Clients \X {"upsert", "reset", "batch"} \X (Seq(Keys) \ {<<>>})
    /\ MaxTries \in Nat \ {0} /\ MaxRows \in Nat /\ MaxFaults \in Nat
    /\ TearsRecords \in BOOLEAN

Revisions == 0..MaxRows
Ids == 0..(MaxRows + Cardinality(Clients) + 1)
Kinds == {intent[2] : intent \in Intents}
KeyLists == {intent[3] : intent \in Intents}

\* `seen` is the revision of the record that a reset was made from.
Operation == [id : Ids, kind : Kinds, keys : KeyLists, base : Revisions, seen : Revisions]

VARIABLES
    journal,   \* complete rows of operations.jsonl; the revision is the index
    tail,      \* the row of an uncertain append, or NoTail
    projected, \* the revision of the last readable record of each key
    torn,      \* the last projected line is cut off
    watermark, \* projection-revision
    mode,      \* the authority: "down", "attaching" or "serving"
    step,      \* what it does: "idle", "append", "project", "write"
    todo,      \* records of revision watermark + 1 still to append
    recovery,  \* recovery_required
    client,    \* whose request is handled
    call,      \* each client's operation and where it is
    acked,     \* history variable: receipts that reached a client
    faults, broken

disk == <<journal, tail, projected, torn, watermark>>
authority == <<mode, step, todo, recovery, client>>
vars == <<disk, authority, call, acked, faults, broken>>

Nobody == "nobody"
NoOperation == [id |-> 0, kind |-> "upsert", keys |-> <<>>, base |-> 0, seen |-> 0]
NoTail == [row |-> NoOperation, whole |-> FALSE]
Idle == [pc |-> "idle", op |-> NoOperation, tries |-> 0]
CallSteps == {"idle", "status", "read", "ready", "sent", "lost"}

TypeOK ==
    /\ journal \in Seq(Operation)
    /\ tail \in [row : Operation \cup {NoOperation}, whole : BOOLEAN]
    /\ projected \in [Keys -> Revisions]
    /\ torn \in BOOLEAN /\ recovery \in BOOLEAN /\ broken \in BOOLEAN
    /\ watermark \in Revisions
    /\ mode \in {"down", "attaching", "serving"}
    /\ step \in {"idle", "append", "project", "write"}
    /\ todo \in Seq(Keys)
    /\ client \in Clients \cup {Nobody}
    /\ call \in [Clients -> [pc : CallSteps, op : Operation \cup {NoOperation},
                         tries : 0..(MaxTries - 1)]]
    /\ acked \subseteq (Ids \X Revisions)
    /\ faults \in 0..MaxFaults

-----------------------------------------------------------------------------
CanFault == faults < MaxFaults
Fault == faults' = faults + 1
NoFault == UNCHANGED <<faults, broken>>

Revision == Len(journal)
Accepted(id) == \E i \in DOMAIN journal : journal[i].id = id
RevisionOf(id) == CHOOSE i \in DOMAIN journal : journal[i].id = id

\* A new operation id: one no row, no request and no remains of a row carry.
FreshIds ==
    LET known == {journal[i].id : i \in DOMAIN journal} \cup {tail.row.id, 0}
                 \cup {call[c].op.id : c \in Clients}
    IN  {id \in Ids \ known : \A lower \in 0..(id - 1) : lower \in known}

KeysOf(op) == {op.keys[i] : i \in DOMAIN op.keys}

\* The revision that wrote key k last, among the first n.
LastWrite(k, n) ==
    LET writes == {i \in 1..n : k \in KeysOf(journal[i])}
    IN  IF writes = {} THEN 0 ELSE CHOOSE i \in writes : \A j \in writes : j <= i

At(c, pc) == call' = [call EXCEPT ![c].pc = pc]
Return(c) == call' = [call EXCEPT ![c] = Idle]

-----------------------------------------------------------------------------
(* Clients.  An upsert carries whatever record its caller holds, a batch new   *)
(* records; a reset captures the revision and reads the record afterwards.   *)

Begin(c, kind, keys) ==
    /\ call[c].pc = "idle" /\ Revision < MaxRows
    /\ call' = [call EXCEPT ![c] =
          [pc |-> "status", tries |-> 0, op |-> [NoOperation EXCEPT !.kind = kind, !.keys = keys]]]
    /\ UNCHANGED <<disk, authority, acked>> /\ NoFault

\* Mutant: a reset keeps the record it read before it captured the revision.
ReadBeforeStatus(c) ==
    /\ call[c].pc = "status"
    /\ IF mode = "serving"
       THEN /\ step = "idle"
            /\ call' = [call EXCEPT ![c].op.base = Revision, ![c].pc = "ready"]
       ELSE Return(c)
    /\ UNCHANGED <<disk, authority, acked>> /\ NoFault

\* snapshot_revision; without a serving supervisor it is an error.
Status(c) ==
    /\ call[c].pc = "status"
    /\ IF mode = "serving"
       THEN /\ step = "idle"
            /\ call' = [call EXCEPT ![c].op.base = Revision,
                          ![c].pc = IF call[c].op.kind = "reset" THEN "read" ELSE "ready"]
       ELSE Return(c)
    /\ UNCHANGED <<disk, authority, acked>> /\ NoFault

Read(c) ==
    /\ call[c].pc = "read"
    /\ call' = [call EXCEPT ![c].op.seen = projected[call[c].op.keys[1]], ![c].pc = "ready"]
    /\ UNCHANGED <<disk, authority, acked>> /\ NoFault

\* A connection that finds no supervisor, or a caller that accepts not to know.
Fails(c) ==
    /\ \/ call[c].pc = "ready" /\ mode # "serving"
       \/ call[c].pc = "lost"
    /\ Return(c)
    /\ UNCHANGED <<disk, authority, acked>> /\ NoFault

-----------------------------------------------------------------------------
(* ProjectStateAuthority::accept, under the supervisor's mutex: what becomes of *)
(* a submitted operation.                                                   *)

\* SupervisorStoreWriter makes a fresh operation id for every submission; a
\* client of the socket that keeps its request sends the same operation again.
Submits(c) ==
    /\ mode = "serving" /\ step = "idle"
    /\ call[c].pc \in {"ready", "lost"}
    /\ UNCHANGED <<disk, mode, todo, recovery, acked>> /\ NoFault

Requests(c) ==
    IF call[c].pc = "ready" THEN {[call[c].op EXCEPT !.id = id] : id \in FreshIds}
    ELSE {call[c].op}

Handles(c, op, next) ==
    /\ step' = next /\ client' = c
    /\ call' = [call EXCEPT ![c].op = op, ![c].pc = "sent"]

\* An operation the journal knows: finish its projection and answer again.
Replay(c, op) ==
    /\ Submits(c)
    /\ Accepted(op.id)
    /\ Handles(c, op, "project")

\* Mutant: a repeated operation is not recognised.
AdmitAgain(c, op) ==
    /\ Submits(c)
    /\ op.base = Revision \/ Accepted(op.id)
    /\ ~recovery /\ Revision < MaxRows
    /\ Handles(c, op, "append")

\* Mutant: a write may be based on any revision.
AdmitStale(c, op) ==
    /\ Submits(c)
    /\ ~Accepted(op.id) /\ op.base <= Revision
    /\ ~recovery /\ Revision < MaxRows
    /\ Handles(c, op, "append")

Admit(c, op) ==
    /\ Submits(c)
    /\ ~Accepted(op.id) /\ op.base = Revision
    /\ ~recovery /\ Revision < MaxRows
    /\ Handles(c, op, "append")

\* Mutant: one submission too many.
ConflictOnceMore(c, op) ==
    /\ Submits(c)
    /\ ~Accepted(op.id) /\ op.base # Revision
    /\ IF op.kind # "reset" /\ call[c].tries < MaxTries
       THEN call' = [call EXCEPT ![c].pc = "status", ![c].tries = @ + 1]
       ELSE Return(c)
    /\ UNCHANGED <<step, client>>

\* revision_conflict: a write without a captured revision tries again on a
\* fresh one; a reset gives up.
Conflict(c, op) ==
    /\ Submits(c)
    /\ ~Accepted(op.id) /\ op.base # Revision
    /\ IF op.kind # "reset" /\ call[c].tries + 1 < MaxTries
       THEN call' = [call EXCEPT ![c].pc = "status", ![c].tries = @ + 1]
       ELSE Return(c)
    /\ UNCHANGED <<step, client>>

\* After an uncertain append the journal takes nothing until it is reopened.
RefuseUntilReopened(c, op) ==
    /\ Submits(c)
    /\ ~Accepted(op.id) /\ op.base = Revision /\ recovery
    /\ call' = [call EXCEPT ![c].op = op, ![c].pc = "lost"]
    /\ UNCHANGED <<step, client>>

AppendRow ==
    /\ step = "append"
    /\ journal' = Append(journal, call[client].op)
    /\ step' = "project"
    /\ UNCHANGED <<tail, projected, torn, watermark, mode, todo, recovery, client, call, acked>>
    /\ NoFault

\* What an interrupted append may leave of the row at the end of the file.
Remains(row) == {NoTail, [row |-> row, whole |-> FALSE], [row |-> row, whole |-> TRUE]}

\* Mutant: the error of the sync is ignored and the client gets its receipt.
AppendErrorIgnored ==
    /\ step = "append" /\ CanFault
    /\ tail' \in Remains(call[client].op)
    /\ recovery' = TRUE
    /\ acked' = acked \cup {<<call[client].op.id, Revision + 1>>}
    /\ step' = "idle" /\ client' = Nobody /\ Return(client)
    /\ UNCHANGED <<journal, projected, torn, watermark, mode, todo, broken>>
    /\ Fault

AppendFails ==
    /\ step = "append" /\ CanFault
    /\ tail' \in Remains(call[client].op)
    /\ recovery' = TRUE
    /\ step' = "idle" /\ client' = Nobody /\ At(client, "lost")
    /\ UNCHANGED <<journal, projected, torn, watermark, mode, todo, acked, broken>>
    /\ Fault
-----------------------------------------------------------------------------
(* project_pending_operations: each revision after the watermark, its records *)
(* one by one, then the watermark.                                          *)

Project ==
    /\ step = "project" /\ watermark < Revision
    /\ step' = "write"
    /\ todo' = journal[watermark + 1].keys
    /\ UNCHANGED <<disk, mode, recovery, client, call, acked>> /\ NoFault

\* A record appended behind a cut-off line becomes part of that line, which
\* readers skip as malformed.
WriteRecord ==
    /\ step = "write" /\ todo # <<>>
    /\ projected' = IF torn THEN projected ELSE [projected EXCEPT ![Head(todo)] = watermark + 1]
    /\ torn' = FALSE
    /\ todo' = Tail(todo)
    /\ UNCHANGED <<journal, tail, watermark, mode, step, recovery, client, call, acked>> /\ NoFault

\* Mutant: the watermark is published before the records.
WriteWatermarkFirst ==
    /\ step = "write" /\ todo # <<>>
    /\ watermark' = watermark + 1
    /\ step' = "project" /\ todo' = <<>>
    /\ UNCHANGED <<journal, tail, projected, torn, mode, recovery, client, call, acked>> /\ NoFault

WriteWatermark ==
    /\ step = "write" /\ todo = <<>>
    /\ watermark' = watermark + 1
    /\ step' = "project"
    /\ UNCHANGED <<journal, tail, projected, torn, mode, todo, recovery, client, call, acked>> /\ NoFault

\* Whoever is owed an answer gets it; an attachment is complete.
Projected ==
    /\ step = "project" /\ watermark = Revision
    /\ step' = "idle" /\ mode' = "serving" /\ client' = Nobody
    /\ IF client = Nobody THEN UNCHANGED <<call, acked>>
       ELSE /\ acked' = acked \cup {<<call[client].op.id, RevisionOf(call[client].op.id)>>}
            /\ Return(client)
    /\ UNCHANGED <<disk, todo, recovery>> /\ NoFault

\* A write of the projection fails.  The row stays journaled; the request is
\* answered with the error, an attachment is given up with its lease.
ProjectionFails ==
    /\ step = "write" /\ CanFault
    /\ torn' \in {torn} \cup IF todo # <<>> /\ TearsRecords THEN {TRUE} ELSE {}
    /\ step' = "idle" /\ todo' = <<>> /\ client' = Nobody
    /\ mode' = IF mode = "attaching" THEN "down" ELSE mode
    /\ IF client = Nobody THEN UNCHANGED call ELSE At(client, "lost")
    /\ broken' = TRUE
    /\ UNCHANGED <<journal, tail, projected, watermark, recovery, acked>>
    /\ Fault
-----------------------------------------------------------------------------
(* The life of the authority.                                               *)

Down ==
    /\ mode' = "down" /\ step' = "idle" /\ todo' = <<>> /\ client' = Nobody

Detach ==
    /\ mode = "serving" /\ step = "idle"
    /\ Down
    /\ UNCHANGED <<disk, recovery, call, acked>> /\ NoFault

\* The process ends anywhere.  A client that was being served cannot know.
Crash ==
    /\ mode # "down" /\ CanFault
    /\ Down
    /\ tail' \in IF step = "append" THEN Remains(call[client].op) ELSE {tail}
    /\ torn' \in {torn} \cup IF step = "write" /\ todo # <<>> /\ TearsRecords THEN {TRUE} ELSE {}
    /\ IF client = Nobody THEN UNCHANGED call ELSE At(client, "lost")
    /\ UNCHANGED <<journal, projected, watermark, recovery, acked, broken>>
    /\ Fault

\* Mutant: an attachment serves before it has caught up with the journal.
AttachWithoutReplay ==
    /\ mode = "down"
    /\ journal' = IF tail.whole THEN Append(journal, tail.row) ELSE journal
    /\ tail' = NoTail
    /\ recovery' = FALSE
    /\ mode' = "serving" /\ step' = "idle"
    /\ UNCHANGED <<projected, torn, watermark, todo, client, call, acked>> /\ NoFault

\* OperationJournal::open keeps a complete last row and drops a cut-off one;
\* then the projection catches up before anyone is served.
Attach ==
    /\ mode = "down"
    /\ journal' = IF tail.whole THEN Append(journal, tail.row) ELSE journal
    /\ tail' = NoTail
    /\ recovery' = FALSE
    /\ mode' = "attaching" /\ step' = "project"
    /\ UNCHANGED <<projected, torn, watermark, todo, client, call, acked>> /\ NoFault

\* The watermark file is lost or unreadable: replay starts from the beginning.
LoseWatermark ==
    /\ mode = "down" /\ CanFault /\ watermark # 0
    /\ watermark' = 0
    /\ broken' = TRUE
    /\ UNCHANGED <<journal, tail, projected, torn, authority, call, acked>>
    /\ Fault
-----------------------------------------------------------------------------
Init ==
    /\ journal = <<>> /\ tail = NoTail
    /\ projected = [k \in Keys |-> 0]
    /\ torn = FALSE /\ watermark = 0
    /\ mode = "down" /\ step = "idle" /\ todo = <<>>
    /\ recovery = FALSE /\ client = Nobody
    /\ call = [c \in Clients |-> Idle]
    /\ acked = {} /\ faults = 0 /\ broken = FALSE

Client(c) ==
    \/ \E intent \in Intents : intent[1] = c /\ Begin(c, intent[2], intent[3])
    \/ Status(c) \/ Read(c) \/ Fails(c)
    \/ \E op \in Requests(c) :
          Replay(c, op) \/ Admit(c, op) \/ Conflict(c, op) \/ RefuseUntilReopened(c, op)

Handle == AppendRow \/ Project \/ WriteRecord \/ WriteWatermark \/ Projected

Disturb == AppendFails \/ ProjectionFails \/ Detach \/ Crash \/ LoseWatermark

Next == (\E c \in Clients : Client(c)) \/ Handle \/ Attach \/ Disturb

Spec == Init /\ [][Next]_vars

\* The supervisor goes on with the request it is handling.
LiveSpec == Spec /\ WF_vars(Handle)
-----------------------------------------------------------------------------
(* Properties.                                                              *)

\* Every operation is entered once, however often it is submitted and wherever
\* an append was interrupted, and each on the revision it was based on.
OneRowPerOperation ==
    /\ \A i, j \in DOMAIN journal : journal[i].id = journal[j].id => i = j
    /\ \A i \in DOMAIN journal : journal[i].base = i - 1

\* A receipt names a durable row and keeps naming it through crashes.
AcknowledgedIsDurable ==
    \A receipt \in acked :
        receipt[2] \in DOMAIN journal /\ journal[receipt[2]].id = receipt[1]

\* "A crash cannot advance the watermark ahead of durable state": what readers
\* find is at least as new as the watermark says, and never comes from anywhere
\* but a journaled operation.
ProjectionCoversWatermark ==
    \A k \in Keys :
        /\ \A i \in 1..watermark : k \in KeysOf(journal[i]) => projected[k] >= i
        /\ projected[k] # 0 =>
              projected[k] \in DOMAIN journal /\ k \in KeysOf(journal[projected[k]])

\* A reset is made from the latest record: whatever was accepted after its
\* revision was captured refuses it.  After a failed projection write the
\* captured revision may be ahead of the files, so it is claimed without one.
ResetsSeeLatest ==
    ~broken => \A i \in DOMAIN journal :
        journal[i].kind = "reset" => journal[i].seen = LastWrite(journal[i].keys[1], i - 1)

\* "A reader never observes only part of that intent": of every journaled
\* operation the files show all records or none.
BatchesAppearWhole ==
    \A i \in DOMAIN journal : \A k, l \in KeysOf(journal[i]) :
        projected[k] >= i => projected[l] >= i

\* What is journaled gets readable, unless the authority goes away or a write of
\* the projection fails.
DurableIsMaterialized ==
    \A n \in 1..MaxRows :
        (mode # "down" /\ Revision >= n) ~> (watermark >= n \/ mode = "down" \/ broken)

\* The journal implements the promised sequence of operations.
A == INSTANCE StateAuthority WITH log <- journal, receipts <- acked
ImplementsAuthority == A!Spec
=============================================================================
