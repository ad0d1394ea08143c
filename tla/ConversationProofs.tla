--------------------------- MODULE ConversationProofs ---------------------------
(***************************************************************************)
(* Proofs about Conversation, for any number of messages and other events.     *)
(* Both properties are about what is filed; the invariants carry them back to   *)
(* what is still in the pipe and what the worker has still to write.          *)
(***************************************************************************)
EXTENDS Conversation, SequenceTheorems, TLAPS

Line == [what : {"event", "stray", "result"}, of : 1..MaxTurns]
Entry == [what : {"user", "delta", "answer"} \cup Extras, turn : 0..MaxTurns, of : 0..MaxTurns]
Written == {<<>>, <<"event">>, <<"event", "result">>, <<"event", "stray", "result">>}

\* What a worker writes follows what is in its pipe, and ends with its result if it
\* has one.
LEMMA WritesAppends ==
    ASSUME ConversationTypeOK, asked # 0, NEW lines \in Written, Writes(lines)
    PROVE  /\ pipe' \in Seq(Line) /\ Len(pipe) <= Len(pipe')
           /\ \A n \in 1..Len(pipe') :
                 \/ n \in 1..Len(pipe) /\ pipe'[n] = pipe[n]
                 \/ /\ n \notin 1..Len(pipe) /\ pipe'[n].of = asked
                    /\ pipe'[n].what = "result" => n = Len(pipe')
  <1> DEFINE new == [k \in DOMAIN lines |-> [what |-> lines[k], of |-> asked]]
  <1>1. asked \in 1..MaxTurns /\ pipe \in Seq(Line)
    BY ConversationAssumption DEF ConversationTypeOK, Line
  <1>2. /\ lines \in Seq({"event", "stray", "result"}) /\ Len(lines) \in Nat
        /\ \A k \in 1..Len(lines) : lines[k] = "result" => k = Len(lines)
    <2>1. CASE lines = <<>>  BY <2>1
    <2>2. CASE lines = <<"event">>  BY <2>2
    <2>3. CASE lines = <<"event", "result">>  BY <2>3
    <2>4. CASE lines = <<"event", "stray", "result">>  BY <2>4
    <2>5. QED  BY <2>1, <2>2, <2>3, <2>4 DEF Written
  <1>3. new \in Seq(Line) /\ Len(new) = Len(lines) /\ Len(lines) \in Nat
        /\ DOMAIN lines = 1..Len(lines)
    <2>1. DOMAIN lines = 1..Len(lines)  BY <1>2
    <2>2. \A k \in 1..Len(lines) : lines[k] \in {"event", "stray", "result"}  BY <1>2
    <2>3. \A k \in 1..Len(lines) : [what |-> lines[k], of |-> asked] \in Line
      BY <1>1, <2>2 DEF Line
    <2>4. new \in [1..Len(lines) -> Line]  BY <2>1, <2>3
    <2> HIDE DEF new
    <2>5. new \in Seq(Line) /\ Len(new) = Len(lines)  BY <1>2, <2>4
    <2>6. QED  BY <1>2, <2>1, <2>5
  <1>4. \A k \in 1..Len(lines) : new[k].of = asked /\ new[k].what = lines[k]  BY <1>3
  <1>5. pipe' = pipe \o new  BY DEF Writes
  <1> HIDE DEF new
  <1>6. /\ pipe' \in Seq(Line) /\ Len(pipe') = Len(pipe) + Len(lines) /\ Len(pipe) \in Nat
        /\ \A n \in 1..Len(pipe') :
              pipe'[n] = IF n <= Len(pipe) THEN pipe[n] ELSE new[n - Len(pipe)]
    <2>1. /\ pipe \o new \in Seq(Line) /\ Len(pipe \o new) = Len(pipe) + Len(new)
          /\ \A i \in 1..(Len(pipe) + Len(new)) :
                (pipe \o new)[i] = IF i <= Len(pipe) THEN pipe[i] ELSE new[i - Len(pipe)]
      BY <1>1, <1>3, ConcatProperties
    <2>2. Len(pipe) \in Nat  BY <1>1
    <2>3. QED  BY <1>3, <1>5, <2>1, <2>2
  <1>7. ASSUME NEW n \in 1..Len(pipe'), ~(n <= Len(pipe))
        PROVE  /\ pipe'[n].of = asked
               /\ pipe'[n].what = "result" => n = Len(pipe')
    <2>1. n - Len(pipe) \in 1..Len(lines)  BY <1>3, <1>6, <1>7
    <2>2. pipe'[n] = new[n - Len(pipe)]  BY <1>6, <1>7
    <2>3. pipe'[n].what = "result" => n - Len(pipe) = Len(lines)  BY <1>2, <1>4, <2>1, <2>2
    <2>4. QED  BY <1>3, <1>4, <1>6, <2>1, <2>2, <2>3
  <1>8. QED  BY <1>3, <1>6, <1>7

\* Filing appends, or does nothing in a full transcript.
LEMMA FileAppends ==
    ASSUME log \in Seq(Entry), NEW e \in Entry, File(e)
    PROVE  /\ log' \in Seq(Entry) /\ Len(log) \in Nat
           /\ \A k \in 1..Len(log) : log'[k] = log[k]
           /\ IF full THEN Len(log') = Len(log)
                      ELSE Len(log') = Len(log) + 1 /\ log'[Len(log) + 1] = e
  BY DEF File

LEMMA EventIsEntry ==
    ASSUME NEW t \in 0..MaxTurns, NEW of \in 0..MaxTurns,
           NEW what \in {"user", "delta", "answer"} \cup Extras
    PROVE  Event(what, t, of) \in Entry
  BY DEF Event, Entry

\* Each step files one event or none; what it files says where it came from.
LEMMA StepFiles ==
    ASSUME ConversationTypeOK, [ConversationNext]_cvars
    PROVE  \/ log' = log
           \/ Send /\ File(Event("user", turn + 1, turn + 1))
           \/ ReadEvent /\ File(Event("delta", turn, Head(pipe).of))
           \/ ReadResult /\ File(Event("answer", turn, Head(pipe).of))
           \/ (Clear \/ ChangeModel) /\ File(Event("reset", 0, 0)) /\ FreshPipe /\ ~full
           \/ Spawn /\ File(Event("spawned", 0, 0))
           \/ Await /\ File(Event("orbResult", 0, 0))
  BY DEF ConversationNext, Refused, Send, WorkerAnswers, WorkerDies, ReadEvent, ReadResult, Reads,
         ReadFails, Clear, ChangeModel, Restart, Spawn, Await, Exit, Abort, FillUp, stored, held, cvars

LEMMA ReadsHead ==
    ASSUME ConversationTypeOK, pipe # <<>>
    PROVE  /\ 1 \in 1..Len(pipe) /\ Head(pipe) = pipe[1] /\ Head(pipe) \in Line
           /\ Tail(pipe) \in Seq(Line) /\ Len(Tail(pipe)) = Len(pipe) - 1 /\ Len(pipe) \in Nat
           /\ \A n \in 1..Len(Tail(pipe)) : n + 1 \in 1..Len(pipe) /\ Tail(pipe)[n] = pipe[n + 1]
  <1>1. pipe \in Seq(Line)  BY DEF ConversationTypeOK, Line
  <1>2. Len(pipe) \in Nat /\ Len(pipe) # 0  BY <1>1
  <1>3. QED  BY <1>1, <1>2, HeadTailProperties

LEMMA LogKeepsType ==
    ASSUME ConversationTypeOK, [ConversationNext]_cvars  PROVE log' \in Seq(Entry)
  <1>1. log \in Seq(Entry) /\ turn \in 0..MaxTurns /\ 0 \in 0..MaxTurns
    BY ConversationAssumption DEF ConversationTypeOK, Entry
  <1>2. CASE Send
    <2>1. turn + 1 \in 0..MaxTurns /\ File(Event("user", turn + 1, turn + 1))
      BY <1>1, <1>2, ConversationAssumption DEF Send
    <2>2. QED  BY <1>1, <2>1, EventIsEntry, FileAppends
  <1>3. CASE ReadEvent \/ ReadResult
    <2>1. Head(pipe).of \in 0..MaxTurns
      BY <1>3, ReadsHead, ConversationAssumption DEF ReadEvent, ReadResult, Reads, Line
    <2>2. \E what \in {"delta", "answer"} : File(Event(what, turn, Head(pipe).of))
      BY <1>3 DEF ReadEvent, ReadResult, Reads
    <2>3. QED  BY <1>1, <2>1, <2>2, EventIsEntry, FileAppends
  <1>4. CASE \E what \in Extras : File(Event(what, 0, 0))
    BY <1>1, <1>4, EventIsEntry, FileAppends
  <1>5. CASE log' = log  BY <1>1, <1>5
  <1>6. QED  BY <1>2, <1>3, <1>4, <1>5, StepFiles DEF Extras

LEMMA PipeKeepsType ==
    ASSUME ConversationTypeOK, [ConversationNext]_cvars  PROVE pipe' \in Seq(Line)
  <1>1. pipe \in Seq(Line)  BY DEF ConversationTypeOK, Line
  <1>2. CASE WorkerAnswers \/ WorkerDies
    BY <1>1, <1>2, WritesAppends DEF WorkerAnswers, WorkerDies, Written
  <1>3. CASE ReadEvent \/ ReadResult \/ ReadFails
    BY <1>1, <1>3, ReadsHead DEF ReadEvent, ReadResult, Reads, ReadFails
  <1>4. CASE pipe' = pipe \/ pipe' = <<>>
    <2>1. <<>> \in Seq(Line)  BY EmptySeq
    <2>2. QED  BY <1>1, <1>4, <2>1
  <1>5. \/ WorkerAnswers \/ WorkerDies \/ ReadEvent \/ ReadResult \/ ReadFails
        \/ pipe' = pipe \/ pipe' = <<>>
    BY Zenon
    DEF ConversationNext, Refused, Send, Clear, ChangeModel, Restart, FreshPipe, Spawn, Await,
           Exit, Abort, FillUp, held, cvars
  <1>6. QED  BY <1>2, <1>3, <1>4, <1>5

\* Every reachable state is of the declared types.
THEOREM ConversationTypeCorrect == ConversationSpec => []ConversationTypeOK
  <1>1. ConversationInit => ConversationTypeOK
    <2>1. SUFFICES ASSUME ConversationInit PROVE ConversationTypeOK  OBVIOUS
    <2>2. 0 \in 0..MaxTurns /\ 0 \in 0..MaxExtras  BY ConversationAssumption
    <2>3. pipe \in Seq(Line) /\ log \in Seq(Entry)  BY <2>1 DEF ConversationInit
    <2>4. context \in BOOLEAN /\ full \in BOOLEAN /\ broken \in BOOLEAN
      BY <2>1 DEF ConversationInit
    <2>5. QED  BY <2>1, <2>2, <2>3, <2>4 DEF ConversationInit, ConversationTypeOK, Line, Entry
  <1>2. ConversationTypeOK /\ [ConversationNext]_cvars => ConversationTypeOK'
    <2>1. SUFFICES ASSUME ConversationTypeOK, [ConversationNext]_cvars PROVE ConversationTypeOK'
      OBVIOUS
    <2>2. /\ chat' \in {"editing", "streaming", "over"} /\ worker' \in {"none", "live", "dead"}
          /\ model' \in WorkerModels /\ status' \in {"active", "closed"}
      BY <2>1
      DEF ConversationTypeOK, ConversationNext, Refused, Send, WorkerAnswers, WorkerDies, ReadEvent,
          ReadResult, Reads, ReadFails, Clear, ChangeModel, Restart, FreshPipe, Spawn, Await, Exit,
          Abort, FillUp, held, stored, cvars
    <2>3. /\ turn' = turn \/ (turn' = turn + 1 /\ turn < MaxTurns)
          /\ orbs' = orbs \/ (orbs' = orbs + 1 /\ orbs < MaxExtras)
          /\ asked' \in {asked, 0, turn'}
      BY <2>1
      DEF ConversationNext, Refused, Send, WorkerAnswers, WorkerDies, ReadEvent,
          ReadResult, Reads, ReadFails, Clear, ChangeModel, Restart, FreshPipe, Spawn, Await, Exit,
          Abort, FillUp, held, stored, cvars
    <2>4. turn' \in 0..MaxTurns /\ orbs' \in 0..MaxExtras /\ asked' \in 0..MaxTurns
      BY <2>1, <2>3, ConversationAssumption DEF ConversationTypeOK
    <2>5. context' \in BOOLEAN /\ full' \in BOOLEAN /\ broken' \in BOOLEAN
      BY <2>1
      DEF ConversationTypeOK, ConversationNext, Refused, Send, WorkerAnswers, WorkerDies, ReadEvent,
          ReadResult, Reads, ReadFails, Clear, ChangeModel, Restart, FreshPipe, Spawn, Await, Exit,
          Abort, FillUp, held, stored, cvars
    <2>6. log' \in Seq(Entry) /\ pipe' \in Seq(Line)  BY <2>1, LogKeepsType, PipeKeepsType
    <2>7. QED  BY <2>2, <2>5, <2>6, <2>4 DEF ConversationTypeOK, Entry, Line
  <1>3. QED  BY <1>1, <1>2, PTL DEF ConversationSpec

-----------------------------------------------------------------------------
(* As long as no turn of the worker failed, the pipe holds the answer to the   *)
(* current turn alone, and its result comes last.                            *)

PipeIsOfTurn ==
    ~broken =>
        /\ asked \in {0, turn}
        /\ \A n \in 1..Len(pipe) : pipe[n].of = turn
        /\ \A n \in 1..Len(pipe) : pipe[n].what = "result" => n = Len(pipe) /\ asked = 0
        /\ chat = "editing" => pipe = <<>> /\ asked = 0

TurnInv == PipeIsOfTurn /\ AnswersBelongToTheirTurn

LEMMA ReadsKeepPipe ==
    ASSUME ConversationTypeOK, PipeIsOfTurn, ReadEvent \/ ReadResult
    PROVE  PipeIsOfTurn' /\ (~broken => Head(pipe).of = turn)
  <1>1. /\ chat = "streaming" /\ pipe # <<>> /\ pipe' = Tail(pipe)
        /\ UNCHANGED <<turn, asked, broken>>
        /\ chat' = "editing" => Head(pipe).what = "result"
    BY DEF ReadEvent, ReadResult, Reads
  <1>2. SUFFICES ASSUME ~broken PROVE PipeIsOfTurn' /\ Head(pipe).of = turn
    BY <1>1 DEF PipeIsOfTurn
  <1>3. /\ Len(pipe) \in Nat /\ 1 \in 1..Len(pipe) /\ Head(pipe) = pipe[1]
        /\ pipe' \in Seq(Line) /\ Len(pipe') = Len(pipe) - 1
        /\ \A n \in 1..Len(pipe') : n + 1 \in 1..Len(pipe) /\ pipe'[n] = pipe[n + 1]
    BY <1>1, ReadsHead
  <1>4. \A n \in 1..Len(pipe') : pipe'[n].of = turn
    BY <1>2, <1>3 DEF PipeIsOfTurn
  <1>5. ASSUME NEW n \in 1..Len(pipe'), pipe'[n].what = "result"
        PROVE  n = Len(pipe') /\ asked = 0
    <2>1. n + 1 \in 1..Len(pipe) /\ pipe[n + 1].what = "result"  BY <1>3, <1>5
    <2>2. n + 1 = Len(pipe) /\ asked = 0  BY <1>2, <2>1 DEF PipeIsOfTurn
    <2>3. QED  BY <1>3, <2>2
  <1>6. ASSUME chat' = "editing" PROVE pipe' = <<>> /\ asked = 0
    <2>1. pipe[1].what = "result"  BY <1>1, <1>3, <1>6
    <2>2. Len(pipe) = 1 /\ asked = 0  BY <1>2, <1>3, <2>1 DEF PipeIsOfTurn
    <2>3. Len(pipe') = 0  BY <1>3, <2>2
    <2>4. pipe' = <<>>  BY <1>3, <2>3, EmptySeq
    <2>5. QED  BY <2>2, <2>4
  <1>7. PipeIsOfTurn'  BY <1>1, <1>2, <1>4, <1>5, <1>6 DEF PipeIsOfTurn
  <1>8. QED  BY <1>2, <1>3, <1>7 DEF PipeIsOfTurn

LEMMA WorkerKeepsPipe ==
    ASSUME ConversationTypeOK, PipeIsOfTurn, WorkerAnswers \/ WorkerDies
    PROVE  PipeIsOfTurn'
  <1>1. UNCHANGED <<chat, turn, broken>> /\ asked' = 0
    BY DEF WorkerAnswers, WorkerDies
  <1>2. SUFFICES ASSUME ~broken PROVE PipeIsOfTurn'
    BY <1>1 DEF PipeIsOfTurn
  <1>3. CASE pipe' = pipe  BY <1>1, <1>2, <1>3 DEF PipeIsOfTurn
  <1>4. CASE asked # 0 /\ \E lines \in Written : Writes(lines)
    <2>1. PICK lines \in Written : Writes(lines)  BY <1>4
    <2>2. \A n \in 1..Len(pipe') :
             \/ n \in 1..Len(pipe) /\ pipe'[n] = pipe[n]
             \/ pipe'[n].of = asked /\ (pipe'[n].what = "result" => n = Len(pipe'))
      BY <1>4, <2>1, WritesAppends
    <2>3. /\ asked = turn /\ chat # "editing" /\ \A n \in 1..Len(pipe) : pipe[n].of = turn
          /\ \A n \in 1..Len(pipe) : pipe[n].what # "result"
      BY <1>2, <1>4 DEF PipeIsOfTurn
    <2>4. QED  BY <1>1, <2>2, <2>3 DEF PipeIsOfTurn
  <1>5. QED  BY <1>3, <1>4 DEF WorkerAnswers, WorkerDies, Written

LEMMA StepKeepsPipe ==
    ASSUME ConversationTypeOK, PipeIsOfTurn, [ConversationNext]_cvars
    PROVE  PipeIsOfTurn'
  <1>1. ASSUME Send PROVE PipeIsOfTurn'
    <2>1. /\ chat = "editing" /\ chat' = "streaming" /\ asked' \in {0, turn'}
          /\ UNCHANGED <<pipe, broken>>
      BY <1>1 DEF Send
    <2>2. pipe = <<>> => Len(pipe) = 0  OBVIOUS
    <2>3. Len(pipe) = 0 => \A n \in 1..Len(pipe) : FALSE  OBVIOUS
    <2>4. QED  BY <2>1, <2>2, <2>3 DEF PipeIsOfTurn
  <1>2. ASSUME pipe' = <<>>, asked' = 0 PROVE PipeIsOfTurn'
    <2>1. Len(pipe') = 0 /\ \A n \in 1..Len(pipe') : FALSE  BY <1>2
    <2>2. QED  BY <1>2, <2>1 DEF PipeIsOfTurn
  <1>3. ASSUME UNCHANGED <<chat, turn, asked, pipe, broken>> PROVE PipeIsOfTurn'
    BY <1>3 DEF PipeIsOfTurn
  <1>4. ASSUME ReadFails PROVE PipeIsOfTurn'  BY <1>4 DEF ReadFails, PipeIsOfTurn
  <1>5. ASSUME Clear \/ ChangeModel \/ Exit \/ Abort PROVE PipeIsOfTurn'
    BY <1>2, <1>5 DEF Clear, ChangeModel, Restart, FreshPipe, Exit, Abort
  <1>6. ASSUME Refused \/ Spawn \/ Await \/ FillUp \/ UNCHANGED cvars PROVE PipeIsOfTurn'
    BY <1>3, <1>6 DEF Refused, Spawn, Await, FillUp, held, cvars
  <1>7. QED
    BY <1>1, <1>4, <1>5, <1>6, ReadsKeepPipe, WorkerKeepsPipe DEF ConversationNext

LEMMA LogFacts ==
    ASSUME ConversationTypeOK
    PROVE  /\ log \in Seq(Entry) /\ DOMAIN log = 1..Len(log) /\ Len(log) \in Nat
           /\ \A kinds : Filed(kinds) = {k \in 1..Len(log) : log[k].what \in kinds}
  BY DEF ConversationTypeOK, Entry, Filed

\* Filing keeps what was filed, and adds at most one event at the end.
LEMMA FiledAfter ==
    ASSUME ConversationTypeOK, ConversationTypeOK', NEW e \in Entry, File(e)
    PROVE  /\ \A k \in DOMAIN log' :
                 \/ k \in DOMAIN log /\ log'[k] = log[k]
                 \/ ~full /\ k = Len(log) + 1 /\ log'[k] = e
           /\ \A k \in DOMAIN log : k \in DOMAIN log' /\ log'[k] = log[k] /\ k < Len(log) + 1
           /\ ~full => Len(log) + 1 \in DOMAIN log' /\ log'[Len(log) + 1] = e
  BY LogFacts, FileAppends

LEMMA StepKeepsAnswers ==
    ASSUME ConversationTypeOK, ConversationTypeOK', TurnInv, [ConversationNext]_cvars
    PROVE  AnswersBelongToTheirTurn'
  <1> DEFINE Excused(k) == broken \/ \E r \in Filed({"reset"}) : r > k
  <1>1. \A k \in DOMAIN log : log[k].of # log[k].turn => Excused(k)
    BY DEF TurnInv, AnswersBelongToTheirTurn
  <1>2. ASSUME NEW e \in Entry, File(e), broken => broken', e.of # e.turn => broken
        PROVE  AnswersBelongToTheirTurn'
    <2>1. ASSUME NEW k \in DOMAIN log, \E r \in Filed({"reset"}) : r > k
          PROVE  \E r \in Filed({"reset"})' : r > k
      BY <1>2, <2>1, FiledAfter DEF Filed
    <2>2. QED  BY <1>1, <1>2, <2>1, FiledAfter DEF AnswersBelongToTheirTurn
  <1>3. ASSUME File(Event("reset", 0, 0)), ~full PROVE AnswersBelongToTheirTurn'
    <2> DEFINE e == Event("reset", 0, 0)
    <2>1. e \in Entry /\ e.of = e.turn /\ e.what = "reset"
      <3>1. 0 \in 0..MaxTurns /\ "reset" \in Extras  BY ConversationAssumption DEF Extras
      <3>2. e \in Entry  BY <3>1, EventIsEntry
      <3>3. QED  BY <3>2 DEF Event
    <2>2. e = Event("reset", 0, 0)  OBVIOUS
    <2> HIDE DEF e
    <2>3. Len(log) + 1 \in Filed({"reset"})'
      BY <1>3, <2>1, <2>2, FiledAfter DEF Filed
    <2>4. \A k \in DOMAIN log' : k < Len(log) + 1 \/ log'[k] = e
      BY <1>3, <2>1, <2>2, FiledAfter
    <2>5. Len(log) \in Nat /\ \A k \in DOMAIN log' : k \in Nat  BY LogFacts
    <2>6. QED  BY <2>1, <2>3, <2>4, <2>5 DEF AnswersBelongToTheirTurn
  <1>4. CASE (broken => broken') /\ log' = log
    BY <1>1, <1>4 DEF AnswersBelongToTheirTurn, Filed
  <1>5. (broken => broken') \/ ((Clear \/ ChangeModel) /\ File(Event("reset", 0, 0)) /\ ~full)
    BY DEF ConversationNext, Refused, Send, WorkerAnswers, WorkerDies, ReadEvent, ReadResult, Reads,
           ReadFails, Clear, ChangeModel, Restart, Spawn, Await, Exit, Abort, FillUp, held, cvars
  <1>6. turn \in 0..MaxTurns /\ 0 \in 0..MaxTurns
    BY ConversationAssumption DEF ConversationTypeOK
  <1>7. CASE broken => broken'
    <2>1. CASE Send
      <3>1. turn + 1 \in 0..MaxTurns /\ File(Event("user", turn + 1, turn + 1))
        BY <1>6, <2>1, ConversationAssumption DEF Send
      <3>2. Event("user", turn + 1, turn + 1) \in Entry  BY <3>1, EventIsEntry
      <3>3. Event("user", turn + 1, turn + 1).of = Event("user", turn + 1, turn + 1).turn
        BY DEF Event
      <3>4. QED  BY <1>2, <1>7, <3>1, <3>2, <3>3
    <2>2. CASE ReadEvent \/ ReadResult
      <3>1. PICK what \in {"delta", "answer"} : File(Event(what, turn, Head(pipe).of))
        BY <2>2 DEF ReadEvent, ReadResult, Reads
      <3>2. pipe # <<>>  BY <2>2 DEF ReadEvent, ReadResult, Reads
      <3>3. Head(pipe).of \in 0..MaxTurns /\ (~broken => Head(pipe).of = turn)
        BY <2>2, <3>2, ReadsHead, ReadsKeepPipe, ConversationAssumption DEF TurnInv, Line
      <3>4. Event(what, turn, Head(pipe).of) \in Entry  BY <1>6, <3>3, EventIsEntry
      <3>5. /\ Event(what, turn, Head(pipe).of).of = Head(pipe).of
            /\ Event(what, turn, Head(pipe).of).turn = turn
        BY DEF Event
      <3>6. QED  BY <1>2, <1>7, <3>1, <3>3, <3>4, <3>5
    <2>3. CASE \E what \in Extras : File(Event(what, 0, 0))
      <3>1. PICK what \in Extras : File(Event(what, 0, 0))  BY <2>3
      <3>2. Event(what, 0, 0) \in Entry  BY <1>6, EventIsEntry
      <3>3. Event(what, 0, 0).of = Event(what, 0, 0).turn  BY DEF Event
      <3>4. QED  BY <1>2, <1>7, <3>1, <3>2, <3>3
    <2>4. CASE log' = log  BY <1>4, <1>7, <2>4
    <2>5. QED  BY <2>1, <2>2, <2>3, <2>4, StepFiles DEF Extras
  <1>8. QED  BY <1>3, <1>5, <1>7

\* What the worker has written and has still to write belongs to the message it
\* was asked last, as long as no turn on it has failed.
THEOREM TurnsAreSeparate == ConversationSpec => []TurnInv
  <1>1. ConversationInit => TurnInv
    <2>1. SUFFICES ASSUME ConversationInit PROVE TurnInv  OBVIOUS
    <2>2. asked = 0 /\ turn = 0 /\ Len(pipe) = 0 /\ pipe = <<>> /\ Len(log) = 0 /\ log = <<>>
      BY <2>1 DEF ConversationInit
    <2>3. DOMAIN log = {} /\ \A n \in 1..Len(pipe) : FALSE  BY <2>2
    <2>4. QED  BY <2>2, <2>3 DEF TurnInv, PipeIsOfTurn, AnswersBelongToTheirTurn
  <1>2. ConversationTypeOK /\ ConversationTypeOK' /\ TurnInv /\ [ConversationNext]_cvars => TurnInv'
    BY StepKeepsPipe, StepKeepsAnswers DEF TurnInv
  <1>3. QED  BY <1>1, <1>2, ConversationTypeCorrect, PTL DEF ConversationSpec

\* Text is filed under the message it answers, as long as no turn of the same worker
\* has failed.
THEOREM AnswersBelong == ConversationSpec => []AnswersBelongToTheirTurn
  <1>1. TurnInv => AnswersBelongToTheirTurn  BY DEF TurnInv
  <1>2. QED  BY <1>1, TurnsAreSeparate, PTL

-----------------------------------------------------------------------------
(* A reset empties the pipe and asks nothing: what comes after it was asked     *)
(* after it, whether or not turns fail.                                      *)

AskedSinceReset ==
    {t \in 0..MaxTurns : \A r \in Filed({"reset"}) : \E u \in Filed({"user"}) : u > r /\ log[u].turn = t}

ResetInv ==
    /\ asked # 0 => asked \in AskedSinceReset
    /\ \A n \in 1..Len(pipe) : pipe[n].of \in AskedSinceReset
    /\ ResetsSeparate

\* What was asked since the last reset still was, when anything but a reset is filed.
LEMMA AskedStays ==
    ASSUME ConversationTypeOK, ConversationTypeOK', NEW e \in Entry, File(e), e.what # "reset",
           NEW t \in AskedSinceReset
    PROVE  t \in AskedSinceReset'
  BY FiledAfter DEF AskedSinceReset, Filed

\* An event that is filed under no message, or under one asked since the last reset.
LEMMA FilingKeepsResets ==
    ASSUME ConversationTypeOK, ConversationTypeOK', NEW e \in Entry, File(e), e.what # "reset",
           ResetsSeparate, e.of = 0 \/ e.of \in AskedSinceReset
    PROVE  ResetsSeparate'
  <1>1. Filed({"reset"})' = Filed({"reset"}) /\ Filed({"user"}) \subseteq Filed({"user"})'
    BY FiledAfter DEF Filed
  <1>2. \A k \in DOMAIN log : log'[k] = log[k]  BY FiledAfter
  <1>3. Filed({"user"}) \subseteq DOMAIN log  BY DEF Filed
  <1>4. ASSUME NEW r \in Filed({"reset"})', NEW k \in DOMAIN log', k > r, log'[k].of # 0
        PROVE  \E u \in Filed({"user"})' : u > r /\ log'[u].turn = log'[k].of
    <2>1. CASE k \in DOMAIN log
      BY <1>1, <1>2, <1>3, <1>4, <2>1 DEF ResetsSeparate
    <2>2. CASE k \notin DOMAIN log
      <3>1. log'[k] = e  BY <2>2, FiledAfter
      <3>2. log'[k].of \in AskedSinceReset  BY <1>4, <3>1
      <3>3. QED  BY <1>1, <1>2, <1>3, <3>2 DEF AskedSinceReset
    <2>3. QED  BY <2>1, <2>2
  <1>5. QED  BY <1>4 DEF ResetsSeparate

\* Resets and what users send, which nothing before them answers.
LEMMA ResetKeepsResets ==
    ASSUME ConversationTypeOK, ConversationTypeOK', ResetInv, Clear \/ ChangeModel
    PROVE  ResetInv'
  <1> DEFINE e == Event("reset", 0, 0)
  <1>1. File(e) /\ ~full /\ asked' = 0 /\ pipe' = <<>>
    BY DEF Clear, ChangeModel, Restart, FreshPipe
  <1>2. e \in Entry /\ e.of = 0
    <2>1. 0 \in 0..MaxTurns /\ "reset" \in Extras  BY ConversationAssumption DEF Extras
    <2>2. e \in Entry  BY <2>1, EventIsEntry
    <2>3. QED  BY <2>2 DEF Event
  <1> HIDE DEF e
  <1>3. ASSUME NEW r \in Filed({"reset"})', NEW k \in DOMAIN log', k > r, log'[k].of # 0
        PROVE  \E u \in Filed({"user"})' : u > r /\ log'[u].turn = log'[k].of
    <2>1. k \in DOMAIN log /\ log'[k] = log[k]  BY <1>1, <1>2, <1>3, FiledAfter
    <2>2. r \in DOMAIN log' /\ k \in Nat /\ Len(log) \in Nat /\ k < Len(log) + 1 /\ r \in Nat
      BY <1>1, <1>2, <2>1, FiledAfter, LogFacts DEF Filed
    <2>3. r # Len(log) + 1  BY <1>3, <2>2
    <2>4. r \in Filed({"reset"})  BY <1>1, <1>2, <1>3, <2>2, <2>3, FiledAfter DEF Filed
    <2>5. PICK u \in Filed({"user"}) : u > r /\ log[u].turn = log[k].of
      BY <1>3, <2>1, <2>4 DEF ResetInv, ResetsSeparate
    <2>6. u \in Filed({"user"})' /\ log'[u] = log[u]
      BY <1>1, <1>2, FiledAfter DEF Filed
    <2>7. QED  BY <2>1, <2>5, <2>6
  <1>4. \A n \in 1..Len(pipe') : FALSE
    <2>1. Len(pipe') = 0  BY <1>1
    <2>2. QED  BY <2>1
  <1>5. QED  BY <1>1, <1>3, <1>4 DEF ResetInv, ResetsSeparate

LEMMA SendKeepsResets ==
    ASSUME ConversationTypeOK, ConversationTypeOK', ResetInv, Send
    PROVE  ResetInv'
  <1> DEFINE e == Event("user", turn + 1, turn + 1)
  <1>1. File(e) /\ ~full /\ asked' \in {0, turn + 1} /\ pipe' = pipe
    BY DEF Send
  <1>2. /\ e \in Entry /\ e.of = turn + 1 /\ e.turn = turn + 1 /\ e.what = "user"
        /\ turn + 1 \in 0..MaxTurns
    <2>1. turn + 1 \in 0..MaxTurns  BY ConversationAssumption DEF Send, ConversationTypeOK
    <2>2. e \in Entry  BY <2>1, EventIsEntry
    <2>3. QED  BY <2>1, <2>2 DEF Event
  <1> HIDE DEF e
  <1>3. turn + 1 \in AskedSinceReset'
    <2>1. Len(log) + 1 \in Filed({"user"})' /\ log'[Len(log) + 1].turn = turn + 1
      BY <1>1, <1>2, FiledAfter DEF Filed
    <2>2. \A r \in Filed({"reset"})' : r \in DOMAIN log
      BY <1>1, <1>2, FiledAfter DEF Filed
    <2>3. \A r \in DOMAIN log : r \in Nat /\ Len(log) \in Nat /\ Len(log) + 1 > r  BY LogFacts
    <2>4. QED  BY <1>2, <2>1, <2>2, <2>3 DEF AskedSinceReset
  <1>4. \A n \in 1..Len(pipe') : pipe'[n].of \in AskedSinceReset'
    BY <1>1, <1>2, AskedStays DEF ResetInv
  <1>5. ResetsSeparate'
    <2>1. ASSUME NEW r \in Filed({"reset"})', NEW k \in DOMAIN log', k > r, log'[k].of # 0
          PROVE  \E u \in Filed({"user"})' : u > r /\ log'[u].turn = log'[k].of
      <3>1. CASE k \in DOMAIN log
        <4>1. /\ log'[k] = log[k] /\ r \in Filed({"reset"})
              /\ \A u \in Filed({"user"}) : u \in Filed({"user"})' /\ log'[u] = log[u]
          BY <1>1, <1>2, <3>1, FiledAfter DEF Filed
        <4>2. QED  BY <2>1, <3>1, <4>1 DEF ResetInv, ResetsSeparate
      <3>2. CASE k \notin DOMAIN log
        <4>1. log'[k] = e  BY <1>1, <1>2, <3>2, FiledAfter
        <4>2. k \in Filed({"user"})' /\ log'[k].turn = log'[k].of
          BY <1>2, <4>1 DEF Filed
        <4>3. QED  BY <2>1, <4>2
      <3>3. QED  BY <3>1, <3>2
    <2>2. QED  BY <2>1 DEF ResetsSeparate
  <1>6. asked' # 0 => asked' \in AskedSinceReset'
    BY <1>1, <1>3 DEF Send
  <1>7. QED  BY <1>4, <1>5, <1>6 DEF ResetInv

LEMMA ReadKeepsResets ==
    ASSUME ConversationTypeOK, ConversationTypeOK', ResetInv, ReadEvent \/ ReadResult
    PROVE  ResetInv'
  <1>1. PICK what \in {"delta", "answer"} : File(Event(what, turn, Head(pipe).of))
    BY DEF ReadEvent, ReadResult, Reads
  <1>2. pipe # <<>> /\ pipe' = Tail(pipe) /\ asked' = asked
    BY DEF ReadEvent, ReadResult, Reads
  <1>3. /\ 1 \in 1..Len(pipe) /\ Head(pipe) = pipe[1] /\ Head(pipe).of \in 0..MaxTurns
        /\ \A n \in 1..Len(pipe') : n + 1 \in 1..Len(pipe) /\ pipe'[n] = pipe[n + 1]
    BY <1>2, ReadsHead, ConversationAssumption DEF Line
  <1> DEFINE e == Event(what, turn, Head(pipe).of)
  <1>4. e \in Entry /\ e.of = Head(pipe).of /\ e.what # "reset"
    <2>1. e \in Entry  BY <1>3, EventIsEntry DEF ConversationTypeOK
    <2>2. QED  BY <2>1 DEF Event
  <1>5. File(e)  BY <1>1
  <1> HIDE DEF e
  <1>6. ResetsSeparate'  BY <1>3, <1>4, <1>5, FilingKeepsResets DEF ResetInv
  <1>7. \A n \in 1..Len(pipe') : pipe'[n].of \in AskedSinceReset'
    BY <1>3, <1>4, <1>5, AskedStays DEF ResetInv
  <1>8. asked' # 0 => asked' \in AskedSinceReset'
    BY <1>2, <1>4, <1>5, AskedStays DEF ResetInv
  <1>9. QED  BY <1>6, <1>7, <1>8 DEF ResetInv

LEMMA WorkerKeepsResets ==
    ASSUME ConversationTypeOK, ResetInv, WorkerAnswers \/ WorkerDies
    PROVE  ResetInv'
  <1>1. UNCHANGED log /\ asked' = 0  BY DEF WorkerAnswers, WorkerDies, stored
  <1>2. \A n \in 1..Len(pipe') : \/ n \in 1..Len(pipe) /\ pipe'[n] = pipe[n]
                                 \/ asked # 0 /\ pipe'[n].of = asked
    BY WritesAppends DEF WorkerAnswers, WorkerDies, Written
  <1>3. AskedSinceReset' = AskedSinceReset
    BY <1>1 DEF AskedSinceReset, Filed
  <1>4. ResetsSeparate'  BY <1>1 DEF ResetInv, ResetsSeparate, Filed
  <1>5. \A n \in 1..Len(pipe') : pipe'[n].of \in AskedSinceReset
    BY <1>2 DEF ResetInv
  <1>6. \A n \in 1..Len(pipe') : pipe'[n].of \in AskedSinceReset'
    BY <1>3, <1>5
  <1>7. QED  BY <1>1, <1>4, <1>6 DEF ResetInv

\* The steps that only drop what could have been answered.
LEMMA QuietKeepsResets ==
    ASSUME ConversationTypeOK, ResetInv, UNCHANGED log, asked' \in {0, asked},
           pipe' = pipe \/ pipe' = <<>> \/ (pipe # <<>> /\ pipe' = Tail(pipe))
    PROVE  ResetInv'
  <1>1. AskedSinceReset' = AskedSinceReset  BY DEF AskedSinceReset, Filed
  <1>2. ASSUME NEW n \in 1..Len(pipe') PROVE pipe'[n].of \in AskedSinceReset
    <2>1. CASE pipe' = pipe  BY <2>1 DEF ResetInv
    <2>2. CASE pipe' = <<>>
      <3>1. Len(pipe') = 0  BY <2>2
      <3>2. QED  BY <3>1
    <2>3. CASE pipe # <<>> /\ pipe' = Tail(pipe)  BY <2>3, ReadsHead DEF ResetInv
    <2>4. QED  BY <2>1, <2>2, <2>3
  <1>3. ResetsSeparate'  BY DEF ResetInv, ResetsSeparate, Filed
  <1>4. QED  BY <1>1, <1>2, <1>3 DEF ResetInv

LEMMA SpawnAndAwaitKeepResets ==
    ASSUME ConversationTypeOK, ConversationTypeOK', ResetInv, Spawn \/ Await
    PROVE  ResetInv'
  <1>1. UNCHANGED <<asked, pipe>>  BY DEF Spawn, Await, held
  <1>2. PICK what \in {"spawned", "orbResult"} : File(Event(what, 0, 0))  BY DEF Spawn, Await
  <1> DEFINE e == Event(what, 0, 0)
  <1>3. e \in Entry /\ e.of = 0 /\ e.what # "reset"
    <2>1. 0 \in 0..MaxTurns /\ what \in Extras  BY ConversationAssumption DEF Extras
    <2>2. e \in Entry  BY <2>1, EventIsEntry
    <2>3. QED  BY <2>2 DEF Event
  <1>4. File(e)  BY <1>2
  <1> HIDE DEF e
  <1>5. ResetsSeparate'  BY <1>3, <1>4, FilingKeepsResets DEF ResetInv
  <1>6. \A t \in AskedSinceReset : t \in AskedSinceReset'  BY <1>3, <1>4, AskedStays
  <1>7. QED  BY <1>1, <1>5, <1>6 DEF ResetInv

\* Nothing in the pipe or in the worker answers a message sent before the last
\* reset: the inductive invariant.
THEOREM ResetsAreInvariant == ConversationSpec => []ResetInv
  <1>1. ConversationInit => ResetInv
    <2>1. SUFFICES ASSUME ConversationInit PROVE ResetInv  OBVIOUS
    <2>2. asked = 0 /\ Len(pipe) = 0 /\ log = <<>>  BY <2>1 DEF ConversationInit
    <2>3. DOMAIN log = {} /\ \A n \in 1..Len(pipe) : FALSE  BY <2>2
    <2>4. QED  BY <2>2, <2>3 DEF ResetInv, ResetsSeparate
  <1>2. ConversationTypeOK /\ ConversationTypeOK' /\ ResetInv /\ [ConversationNext]_cvars => ResetInv'
    <2>1. SUFFICES ASSUME ConversationTypeOK, ConversationTypeOK', ResetInv, [ConversationNext]_cvars
                   PROVE  ResetInv'
      OBVIOUS
    <2>2. CASE Refused \/ ReadFails \/ Exit \/ Abort \/ FillUp \/ UNCHANGED cvars
      <3>1. /\ UNCHANGED log /\ asked' \in {0, asked}
            /\ pipe' = pipe \/ pipe' = <<>> \/ (pipe # <<>> /\ pipe' = Tail(pipe))
        BY <2>2 DEF Refused, ReadFails, Exit, Abort, FillUp, held, stored, cvars
      <3>2. QED  BY <2>1, <3>1, QuietKeepsResets
    <2>3. QED
      BY <2>1, <2>2, ResetKeepsResets, SendKeepsResets, ReadKeepsResets, WorkerKeepsResets,
         SpawnAndAwaitKeepResets
      DEF ConversationNext
  <1>3. QED  BY <1>1, <1>2, ConversationTypeCorrect, PTL DEF ConversationSpec

\* After /clear or /model nothing is filed that answers a message sent before it,
\* however many turns have failed.
THEOREM ResetsSeparateAnswers == ConversationSpec => []ResetsSeparate
  <1>1. ResetInv => ResetsSeparate  BY DEF ResetInv
  <1>2. QED  BY <1>1, ResetsAreInvariant, PTL
=============================================================================
