------------------------------ MODULE Conversation ------------------------------
(***************************************************************************)
(* An interactive chat: chat_loop, the session runtime below it, and the pipe *)
(* to its worker.  A worker answers every message with events and a result, and *)
(* the reader files what it finds on the pipe under the turn that is reading:  *)
(* a result carries the id of its message, which is not compared.  A chat sets  *)
(* none of the worker's timeouts.                                             *)
(***************************************************************************)
EXTENDS Naturals, Sequences, FiniteSets

CONSTANTS
    WorkerModels,   \* worker configurations
    MaxTurns,       \* bound on messages of the user
    MaxExtras       \* bound on what else is filed: resets, orbs and their results

ASSUME ConversationAssumption == WorkerModels # {} /\ MaxTurns \in Nat /\ MaxExtras \in Nat

VARIABLES
    chat,       \* "editing", "streaming", or "over"
    turn,       \* the turn that is, or was last, sent
    context,    \* a result of /await waits for the next message
    model,      \* the worker configuration of the next restart
    worker,     \* "none", "live", or "dead" while the runtime still holds it
    asked,      \* the turn the worker has still to answer, or 0
    pipe,       \* lines of the worker not read yet: what they are, and of which turn
    broken,     \* history variable: a turn of this worker ended before its result
    log,        \* the stored transcript
    status,     \* of the stored transcript
    full,       \* appends fail: the transcript is at its size limit
    orbs        \* orbs made by /spawn

held == <<model, worker, asked, pipe, broken>>
stored == <<log, status, full, orbs>>
cvars == <<chat, turn, context, held, stored>>

Event(what, t, of) == [what |-> what, turn |-> t, of |-> of]
Filed(kinds) == {k \in DOMAIN log : log[k].what \in kinds}
Extras == {"reset", "spawned", "orbResult"}
Room == Cardinality(Filed(Extras)) < MaxExtras

ConversationTypeOK ==
    /\ chat \in {"editing", "streaming", "over"} /\ turn \in 0..MaxTurns
    /\ model \in WorkerModels /\ worker \in {"none", "live", "dead"} /\ asked \in 0..MaxTurns
    /\ pipe \in Seq([what : {"event", "stray", "result"}, of : 1..MaxTurns])
    /\ log \in Seq([what : {"user", "delta", "answer"} \cup Extras,
                    turn : 0..MaxTurns, of : 0..MaxTurns])
    /\ status \in {"active", "closed"} /\ orbs \in 0..MaxExtras
    /\ {context, full, broken} \subseteq BOOLEAN

\* append_event; a transcript at its limit takes nothing more.
File(event) == log' = IF full THEN log ELSE Append(log, event)
-----------------------------------------------------------------------------
(* send_turn.  The message takes the waiting context along, also when it fails. *)

Refused ==
    /\ chat = "editing" /\ (worker = "none" \/ full) /\ context
    /\ context' = FALSE
    /\ UNCHANGED <<chat, turn, held, stored>>

Send ==
    /\ chat = "editing" /\ worker # "none" /\ ~full /\ turn < MaxTurns
    /\ chat' = "streaming" /\ turn' = turn + 1 /\ context' = FALSE
    /\ File(Event("user", turn + 1, turn + 1))
    /\ asked' = IF worker = "live" THEN turn + 1 ELSE 0
    /\ UNCHANGED <<model, worker, pipe, broken, status, full, orbs>>

Writes(lines) == pipe' = pipe \o [k \in DOMAIN lines |-> [what |-> lines[k], of |-> asked]]

\* The worker is a process of its own.  It may write a line that is no response.
WorkerAnswers ==
    /\ worker = "live" /\ asked # 0 /\ asked' = 0
    /\ \E lines \in {<<"event", "result">>, <<"event", "stray", "result">>} : Writes(lines)
    /\ UNCHANGED <<chat, turn, context, model, worker, broken, stored>>

WorkerDies ==
    /\ worker = "live" /\ worker' = "dead" /\ asked' = 0
    /\ IF asked = 0 THEN UNCHANGED pipe ELSE \E lines \in {<<>>, <<"event">>} : Writes(lines)
    /\ UNCHANGED <<chat, turn, context, model, broken, stored>>

\* The next line, filed as what it is, or not at all; the last one ends the turn.
Reads(what, as) ==
    /\ chat = "streaming" /\ pipe # <<>> /\ Head(pipe).what = what
    /\ pipe' = Tail(pipe)
    /\ File(Event(as, turn, Head(pipe).of))
    /\ UNCHANGED <<turn, context, model, worker, asked, broken, status, full, orbs>>

\* Mutant: the turn ends with the first event.
ReadFirstEvent == Reads("event", "delta") /\ chat' = "editing"
ReadEvent == Reads("event", "delta") /\ UNCHANGED chat

\* A turn whose events could not be filed fails, with its result read.
ReadResult == Reads("result", "answer") /\ chat' = "editing"

\* The turn fails at a line it cannot use, or at the pipe of a worker that died; the
\* worker, and what else it wrote, stay.
ReadFails ==
    /\ chat = "streaming"
    /\ \/ pipe # <<>> /\ Head(pipe).what = "stray" /\ pipe' = Tail(pipe)
       \/ worker = "dead" /\ UNCHANGED pipe
    /\ chat' = "editing" /\ broken' = TRUE
    /\ UNCHANGED <<turn, context, model, worker, asked, stored>>
-----------------------------------------------------------------------------
(* The commands of the chat.                                                  *)

\* Mutant: the new worker is read through the pipe of the old one.
KeepPipe == broken' = FALSE /\ asked' = 0 /\ UNCHANGED pipe
FreshPipe == broken' = FALSE /\ asked' = 0 /\ pipe' = <<>>

\* restart_worker files the reset first; then the old worker ends, whatever becomes
\* of the new one.  Only on success /clear drops the context, and /model stays.
Restart(m, clears) ==
    /\ chat = "editing" /\ worker # "none" /\ ~full /\ Room
    /\ File(Event("reset", 0, 0)) /\ FreshPipe
    /\ \/ worker' = "live" /\ model' = m /\ context' = (context /\ ~clears)
       \/ worker' = "none" /\ UNCHANGED <<model, context>>
    /\ UNCHANGED <<chat, turn, status, full, orbs>>

Clear == Restart(model, TRUE)
ChangeModel == \E m \in WorkerModels : Restart(m, FALSE)

\* The orb is there before it is filed, and stays when it cannot be.
Spawn ==
    /\ chat = "editing" /\ orbs < MaxExtras /\ Room
    /\ orbs' = orbs + 1
    /\ File(Event("spawned", 0, 0))
    /\ UNCHANGED <<chat, turn, context, held, status, full>>

\* The end of an orb, with or without success; a wait that runs out does nothing.
Await ==
    /\ chat = "editing" /\ ~full /\ Room
    /\ File(Event("orbResult", 0, 0)) /\ context' = TRUE
    /\ UNCHANGED <<chat, turn, held, status, full, orbs>>

\* close_session, which may fail in a full transcript.
Exit ==
    /\ chat = "editing" /\ chat' = "over"
    /\ worker' = "none" /\ asked' = 0 /\ pipe' = <<>>
    /\ status' = IF full THEN status ELSE "closed"
    /\ UNCHANGED <<turn, context, model, broken, log, full, orbs>>

\* A terminal that fails ends the chat at once; the worker is killed with it.
Abort ==
    /\ chat # "over" /\ chat' = "over"
    /\ worker' = "none" /\ asked' = 0 /\ pipe' = <<>>
    /\ UNCHANGED <<turn, context, model, broken, stored>>

FillUp == ~full /\ full' = TRUE /\ UNCHANGED <<chat, turn, context, held, log, status, orbs>>

\* start_session: the header is there before the worker, and closed without it.
ConversationInit ==
    /\ \/ chat = "editing" /\ worker = "live" /\ status = "active"
       \/ chat = "over" /\ worker = "none" /\ status = "closed"
    /\ turn = 0 /\ context = FALSE /\ model \in WorkerModels
    /\ asked = 0 /\ pipe = <<>> /\ broken = FALSE
    /\ log = <<>> /\ full = FALSE /\ orbs = 0

ConversationNext ==
    \/ Refused \/ Send \/ WorkerAnswers \/ WorkerDies \/ ReadEvent \/ ReadResult \/ ReadFails
    \/ Clear \/ ChangeModel \/ Spawn \/ Await
    \/ Exit \/ Abort \/ FillUp

ConversationSpec == ConversationInit /\ [][ConversationNext]_cvars
-----------------------------------------------------------------------------
\* Text is filed under the message it answers, unless a turn failed before on the
\* same worker: what that turn left in the pipe is filed under the ones after it.
AnswersBelongToTheirTurn ==
    \A k \in DOMAIN log :
        log[k].of # log[k].turn =>
            broken \/ \E r \in Filed({"reset"}) : r > k

\* Nothing of what was asked before a reset is answered after it, failures or not.
ResetsSeparate ==
    \A r \in Filed({"reset"}), k \in DOMAIN log :
        k > r /\ log[k].of # 0 =>
            \E u \in Filed({"user"}) : u > r /\ log[u].turn = log[k].of
=============================================================================
