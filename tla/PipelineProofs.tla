---------------------------- MODULE PipelineProofs ----------------------------
(***************************************************************************)
(* Proofs about Pipeline, for every input, configuration, host and set of  *)
(* faults: IInv is the inductive invariant of the threads, EInv that of    *)
(* the parsers and the errors they find, MInv that of the memory in use,   *)
(* Released that of a call's end; each of their parts is named for what it *)
(* says.  ChunkLeft and ThreadsLeft measure what is left to do.            *)
(***************************************************************************)
EXTENDS Pipeline, ParseChunkProofs

\* A worker fails with an error in hand and past the line it read.
ParsersSane ==
  \A c \in Chunk :
    /\ parser[c].open \subseteq 1 .. parser[c].line
    /\ pc[c] \notin {"failing", "failed"} => parser[c].err = "none"
    /\ pc[c] = "failing" => parser[c].err # "none" /\ parser[c].line >= 1

\* Until the caller looks, the mutex remembers that a chunk was left out.
ErrorNoticed ==
  /\ main \in {"setup", "parsing"}
  /\ \E c \in Chunk : pc[c] \in {"failed", "skipped"}
  => parse_error # NoError

AllDone == \A c \in Chunk : pc[c] = "done"

\* What the caller has seen before it joins a thread or returns Ok.
JoinOrder ==
  /\ main = "setup" => writer = "unborn" /\ dl = "unborn"
  /\ main \in {"join_writer", "join_dl"} => AllDone
  /\ main = "join_dl" => writer = "ok" /\ config.dead_letter
  /\ main # "setup" /\ ~config.dead_letter => dl \in {"none", "unborn"}
  /\ main \in {"parsing", "join_writer", "join_dl"} =>
       writer # "unborn" /\ dl # "unborn"
  /\ result = "ok" => /\ main = "returned" /\ AllDone
                      /\ writer = "ok" /\ dl \in {"ok", "none"}

\* The writer lives between Spawn and the last drop of a sender.
WriterLife ==
  /\ writer # "writing" => inhand = <<>>
  /\ writer = "unborn" => \A c \in Chunk : pc[c] = "pending"
  /\ writer = "ok" => \A c \in Chunk : pc[c] \in Settled

Control == ParsersSane /\ ErrorNoticed /\ JoinOrder /\ WriterLife

IInv == TypeOK /\ Control

\* Every worker's loop knows what parse_chunk knows on its own.
AllKnow == \A c \in Chunk : Knows(config, Input[c], parser[c])

AtFault(e) ==
  e # NoError => \E k \in Offending(config, Input[e.chunk]) : k <= e.line

\* An error in the mutex, or on its way to the caller, is in its chunk.
EInv == AllKnow /\ AtFault(parse_error) /\ ErrorIsGenuine

------------------------------------------------------------------------------
(***************************************************************************)
(* A chunk of the input is a sequence of line kinds.                       *)
(***************************************************************************)
LEMMA ChunkFacts ==
  /\ Chunk \subseteq Nat
  /\ \A c \in Chunk : Input[c] \in Seq(LineKind)
  /\ config.dead_letter \in BOOLEAN
  BY PipelineAssumption, ElementOfSeq DEF Chunk, PipelineConfig

(***************************************************************************)
(* run_pipeline starts in the invariant.                                   *)
(***************************************************************************)
LEMMA InitIInv == Init => IInv
<1> SUFFICES ASSUME Init PROVE IInv
  OBVIOUS
<1>1. TypeOK
  <2>1. WorkersType
    BY NewParserType DEF Init, WorkersType, Settled
  <2>2. CallerType /\ SharedType
    BY DEF Init, CallerType, SharedType
  <2>3. SinkType /\ QuarantineType /\ chan \in Seq(Batch)
    BY DEF Init, SinkType, QuarantineType
  <2> QED
    BY <2>1, <2>2, <2>3 DEF Init, TypeOK
<1>2. ParsersSane
  BY DEF Init, ParsersSane, NewParser
<1> QED
  BY <1>1, <1>2
  DEF Init, IInv, Control, ErrorNoticed, JoinOrder, WriterLife, AllDone

(***************************************************************************)
(* The calling thread keeps every type: it starts threads, looks at the    *)
(* mutex and joins.                                                        *)
(***************************************************************************)
LEMMA CallerKeepsTypes ==
  ASSUME TypeOK, Caller, UNCHANGED exited
  PROVE  TypeOK'
<1> USE DEF CallerOnly, Return, caller, shared, workers, sink, quarantine
<1>1. CASE Spawn
  BY <1>1 DEF Spawn, TypeOK, CallerType, SharedType, WorkersType, SinkType,
              QuarantineType, Batch
<1>2. CASE SetupFails
  BY <1>2 DEF SetupFails, TypeOK, CallerType, SharedType, WorkersType,
              SinkType, QuarantineType, Batch
<1>3. CASE BeginJoin
  BY <1>3 DEF BeginJoin, TypeOK, CallerType, SharedType, WorkersType,
              SinkType, QuarantineType, Batch
<1>4. CASE ReturnParseError
  BY <1>4 DEF ReturnParseError, TypeOK, CallerType, SharedType, WorkersType,
              SinkType, QuarantineType, Batch
<1>5. CASE JoinWriter
  BY <1>5 DEF JoinWriter, AfterWriter, TypeOK, CallerType, SharedType,
              WorkersType, SinkType, QuarantineType, Batch
<1>6. CASE JoinWriterFails
  BY <1>6 DEF JoinWriterFails, TypeOK, CallerType, SharedType, WorkersType,
              SinkType, QuarantineType, Batch
<1>7. CASE JoinDead
  BY <1>7 DEF JoinDead, TypeOK, CallerType, SharedType, WorkersType,
              SinkType, QuarantineType, Batch
<1>8. CASE JoinDeadFails
  BY <1>8 DEF JoinDeadFails, TypeOK, CallerType, SharedType, WorkersType,
              SinkType, QuarantineType, Batch
<1> QED
  BY <1>1, <1>2, <1>3, <1>4, <1>5, <1>6, <1>7, <1>8 DEF Caller

(***************************************************************************)
(* So do the writer thread and the dead-letter thread.                     *)
(***************************************************************************)
LEMMA SinksKeepTypes ==
  ASSUME TypeOK, Writer \/ DeadLetter, UNCHANGED exited
  PROVE  TypeOK'
<1> USE DEF WriterDies, DeadDies, caller, shared, workers, sink, quarantine
<1>1. /\ chan \in Seq(Batch) /\ inhand \in Seq(Batch)
      /\ written \in Seq(Batch)
      /\ dlq \in Seq(Place) /\ dlfile \in Seq(Place)
  BY DEF TypeOK, SinkType, QuarantineType
<1>2. CASE Writer
  <2>1. UNCHANGED <<caller, shared, workers, quarantine, exited>>
    BY <1>2 DEF Writer, OpenOutput, OpenFails, Receive, WriteBatch,
                WriteFails, CloseOutput, CloseFails
  <2>2. CallerType' /\ SharedType' /\ WorkersType' /\ QuarantineType'
    BY <2>1 DEF TypeOK, CallerType, SharedType, WorkersType, QuarantineType
  <2>3. CASE OpenOutput \/ CloseOutput
    <3>1. /\ writer' \in {"recv", "ok"} /\ output' \in {"partial", "closed"}
          /\ UNCHANGED <<chan, inhand, written>>
      BY <2>3 DEF OpenOutput, CloseOutput
    <3> QED
      BY <1>1, <2>1, <2>2, <3>1 DEF TypeOK, SinkType
  <2>4. CASE OpenFails \/ WriteFails \/ CloseFails
    <3>1. /\ writer' = "err" /\ output' \in {output, "partial"}
          /\ inhand' = <<>> /\ chan' = <<>> /\ UNCHANGED written
      BY <2>4 DEF OpenFails, WriteFails, CloseFails
    <3>2. inhand' \in Seq(Batch) /\ chan' \in Seq(Batch)
      BY <3>1
    <3>3. output' \in {"untouched", "partial", "closed"}
      BY <3>1 DEF TypeOK, SinkType
    <3> QED
      BY <1>1, <2>1, <2>2, <3>1, <3>2, <3>3 DEF TypeOK, SinkType
  <2>5. CASE Receive
    <3>1. Head(chan) \in Batch /\ Tail(chan) \in Seq(Batch)
      BY <1>1, <2>5 DEF Receive
    <3>2. inhand' \in Seq(Batch) /\ chan' \in Seq(Batch)
      BY <2>5, <3>1 DEF Receive
    <3> QED
      BY <2>2, <2>1, <2>5, <3>2 DEF Receive, TypeOK, SinkType
  <2>6. CASE WriteBatch
    <3>1. written' \in Seq(Batch) /\ inhand' \in Seq(Batch)
      BY <1>1, <2>6 DEF WriteBatch
    <3> QED
      BY <2>2, <2>1, <2>6, <3>1 DEF WriteBatch, TypeOK, SinkType
  <2> QED
    BY <1>2, <2>3, <2>4, <2>5, <2>6 DEF Writer
<1>3. CASE DeadLetter
  <2>1. UNCHANGED <<caller, shared, workers, chan, sink, exited>>
    BY <1>3 DEF DeadLetter, OpenDead, OpenDeadFails, WriteDead,
                WriteDeadFails, CloseDead
  <2>2. CallerType' /\ SharedType' /\ WorkersType' /\ SinkType'
    BY <2>1 DEF TypeOK, CallerType, SharedType, WorkersType, SinkType
  <2>3. CASE OpenDead \/ CloseDead \/ OpenDeadFails \/ WriteDeadFails
    <3>1. dlq' = dlq \/ dlq' = <<>>
      BY <2>3 DEF OpenDead, CloseDead, OpenDeadFails, WriteDeadFails
    <3>2. dlq' \in Seq(Place)
      <4>1. <<>> \in Seq(Place)
        OBVIOUS
      <4> QED
        BY <1>1, <3>1, <4>1, Zenon
    <3>3. dl' \in {"recv", "ok", "err"} /\ dlfile' = dlfile
      BY <2>3 DEF OpenDead, CloseDead, OpenDeadFails, WriteDeadFails
    <3>4. QuarantineType'
      BY <1>1, <3>2, <3>3 DEF QuarantineType
    <3> QED
      BY <1>1, <2>1, <2>2, <3>4 DEF TypeOK
  <2>4. CASE WriteDead
    <3>1. Head(dlq) \in Place /\ Tail(dlq) \in Seq(Place)
      BY <1>1, <2>4 DEF WriteDead
    <3>2. dlfile' \in Seq(Place) /\ dlq' \in Seq(Place)
      BY <1>1, <2>4, <3>1 DEF WriteDead
    <3> QED
      BY <2>1, <2>2, <2>4, <3>2 DEF WriteDead, TypeOK, QuarantineType
  <2> QED
    BY <1>3, <2>3, <2>4 DEF DeadLetter
<1> QED
  BY <1>2, <1>3

(***************************************************************************)
(* A worker's step through parse_chunk keeps its type.                     *)
(***************************************************************************)
LEMMA ProceedType ==
  ASSUME WorkersType, NEW c \in Chunk, NEW q \in ParserState,
         NEW next \in {"parsing", "sending"}, Proceed(c, q, next)
  PROVE  /\ WorkersType'
         /\ parser'[c] = q
         /\ pc'[c] = IF q.err = "none" THEN next ELSE "failing"
         /\ \A d \in Chunk \ {c} : parser'[d] = parser[d] /\ pc'[d] = pc[d]
<1>1. parser' = [parser EXCEPT ![c] = q] /\ parser \in [Chunk -> ParserState]
  BY DEF Proceed, WorkersType
<1>2. parser' \in [Chunk -> ParserState]
  BY <1>1
<1>3. WorkersType'
  BY <1>2 DEF Proceed, WorkersType
<1> QED
  BY <1>1, <1>3 DEF Proceed, WorkersType

(***************************************************************************)
(* So does handing out the first batch of its chunk.                       *)
(***************************************************************************)
LEMMA DropType ==
  ASSUME WorkersType, NEW c \in Chunk, HasBatch(c), DropBatch(c)
  PROVE  /\ parser' \in [Chunk -> ParserState]
         /\ NextBatch(c) \in Batch
         /\ parser[c].batches \in Seq(SUBSET Nat)
         /\ parser'[c] = [parser[c] EXCEPT !.batches = Tail(@)]
         /\ parser'[c].batches = Tail(parser[c].batches)
         /\ parser'[c].open = parser[c].open
         /\ parser'[c].line = parser[c].line
         /\ parser'[c].err = parser[c].err
         /\ \A d \in Chunk \ {c} : parser'[d] = parser[d]
<1> DEFINE b == parser[c].batches
           q == [parser[c] EXCEPT !.batches = Tail(b)]
<1>1. parser[c] \in ParserState /\ parser \in [Chunk -> ParserState]
  BY DEF WorkersType
<1>2. b \in Seq(SUBSET Nat) /\ b # <<>>
  BY <1>1 DEF ParserState, HasBatch
<1>3. Head(b) \in SUBSET Nat /\ Tail(b) \in Seq(SUBSET Nat)
  BY <1>2
<1>4. /\ q \in ParserState /\ q.batches = Tail(b) /\ q.open = parser[c].open
      /\ q.line = parser[c].line /\ q.err = parser[c].err
  BY <1>1, <1>3 DEF ParserState
<1>5. parser' = [parser EXCEPT ![c] = q]
  BY DEF DropBatch
<1>6. parser'[c] = q /\ \A d \in Chunk \ {c} : parser'[d] = parser[d]
  BY <1>1, <1>5
<1>7. parser' \in [Chunk -> ParserState]
  <2> HIDE DEF q
  <2> QED
    BY <1>1, <1>4, <1>5
<1>8. NextBatch(c) \in Batch
  BY <1>3, ChunkFacts DEF NextBatch, Tagged, Batch, Place
<1> QED
  BY <1>2, <1>4, <1>6, <1>7, <1>8

(***************************************************************************)
(* The workers keep every type.                                            *)
(***************************************************************************)
LEMMA WorkerKeepsTypes ==
  ASSUME TypeOK, ParsersSane, NEW c \in Chunk, Worker(c), UNCHANGED exited
  PROVE  TypeOK'
<1> DEFINE p == parser[c]
<1>1. /\ WorkersType /\ p \in ParserState /\ p.line \in Nat
      /\ p.line + 1 \in Nat \ {0} /\ p.ok \in Nat /\ p.skip \in Nat
      /\ chan \in Seq(Batch) /\ inhand \in Seq(Batch)
      /\ dlq \in Seq(Place) /\ <<c, p.line + 1>> \in Place
  <2>1. /\ WorkersType /\ chan \in Seq(Batch) /\ inhand \in Seq(Batch)
        /\ dlq \in Seq(Place)
    BY DEF TypeOK, SinkType, QuarantineType
  <2>2. p \in ParserState
    BY <2>1 DEF WorkersType
  <2>3. p.line \in Nat /\ p.ok \in Nat /\ p.skip \in Nat
    BY <2>2 DEF ParserState
  <2>4. p.line + 1 \in Nat \ {0}
    BY <2>3
  <2>5. <<c, p.line + 1>> \in Place
    BY <2>4, ChunkFacts DEF Place
  <2> QED
    BY <2>1, <2>2, <2>3, <2>4, <2>5
<1>2. ASSUME WorkersType', UNCHANGED <<caller, shared, chan, sink, quarantine>>
      PROVE  TypeOK'
  BY <1>2 DEF TypeOK, CallerType, SharedType, SinkType, QuarantineType,
              caller, shared, sink, quarantine
<1>3. CASE StartChunk(c) \/ SkipChunk(c) \/ ChunkDone(c)
  <2>1. /\ pc' \in {[pc EXCEPT ![c] = v] : v \in {"parsing", "skipped", "done"}}
        /\ parser' = parser
    BY <1>3 DEF StartChunk, SkipChunk, ChunkDone
  <2>2. WorkersType'
    BY <1>1, <2>1 DEF WorkersType, Settled
  <2> QED
    BY <1>2, <1>3, <2>2 DEF StartChunk, SkipChunk, ChunkDone
<1>4. CASE BlankLine(c)
  BY <1>1, <1>2, <1>4, SkipTypes, ProceedType DEF BlankLine
<1>5. CASE BadLine(c)
  <2>1. WorkersType'
    BY <1>1, <1>5, SkipTypes, ProceedType DEF BadLine
  <2>2. dlq' \in Seq(Place)
    <3>1. Append(dlq, <<c, p.line + 1>>) \in Seq(Place)
      BY <1>1
    <3>2. dlq' = dlq \/ dlq' = Append(dlq, <<c, p.line + 1>>)
      BY <1>5 DEF BadLine, Quarantine
    <3> QED
      BY <1>1, <3>1, <3>2, Zenon
  <2>3. UNCHANGED <<caller, shared, chan, sink, dl, dlfile>>
    BY <1>5 DEF BadLine
  <2> QED
    BY <2>1, <2>2, <2>3
    DEF TypeOK, CallerType, SharedType, SinkType, QuarantineType, caller,
        shared, sink
<1>6. CASE Row(c)
  <2>1. AddRow(config, Input[c], p) \in ParserState
    BY <1>1, AddRowAdds
  <2> QED
    BY <1>1, <1>2, <1>6, <2>1, ProceedType DEF Row
<1>7. CASE AbortingLine(c)
  <2>1. Abort(Line(c), p) \in ParserState
    BY <1>1, SkipTypes
  <2> QED
    BY <1>1, <1>2, <1>7, <2>1, ProceedType DEF AbortingLine
<1>8. CASE EndChunk(c)
  <2> DEFINE q == Finish(Input[c], p)
  <2>1. q \in ParserState
    BY <1>1, FinishMoves
  <2>2. WorkersType'
    BY <1>1, <1>8, <2>1, ProceedType DEF EndChunk
  <2>3. q.ok \in Nat /\ q.skip \in Nat
    BY <2>1 DEF ParserState
  <2>4. Count(q) /\ UNCHANGED <<caller, parse_error, chan, sink, quarantine>>
    BY <1>8 DEF EndChunk
  <2>5. SharedType'
    <3> HIDE DEF q
    <3> QED
      BY <2>3, <2>4 DEF TypeOK, SharedType, Count
  <2> QED
    BY <2>2, <2>4, <2>5
    DEF TypeOK, CallerType, SinkType, QuarantineType, caller, sink, quarantine
<1>9. CASE FailChunk(c)
  <2>1. p.err \in ErrKind \ {"none"} /\ p.line \in Nat \ {0}
    BY <1>1, <1>9 DEF FailChunk, ParsersSane, ParserState
  <2>2. [kind |-> p.err, chunk |-> c, line |-> p.line] \in ParseError
    BY <2>1 DEF ParseError
  <2>3. SharedType'
    BY <1>9, <2>2 DEF FailChunk, TypeOK, SharedType
  <2>4. WorkersType'
    BY <1>1, <1>9 DEF FailChunk, WorkersType, Settled
  <2> QED
    BY <1>9, <2>3, <2>4
    DEF FailChunk, TypeOK, CallerType, SinkType, QuarantineType, caller, sink,
        quarantine
<1>10. CASE Send(c)
  <2>1. WorkersType' /\ NextBatch(c) \in Batch
    BY <1>1, <1>10, DropType DEF Send, WorkersType
  <2>2. chan' \in Seq(Batch)
    BY <1>1, <1>10, <2>1 DEF Send
  <2> QED
    BY <1>10, <2>1, <2>2
    DEF Send, TypeOK, CallerType, SharedType, SinkType, QuarantineType,
        caller, shared, sink, quarantine
<1>11. CASE HandOver(c)
  <2>1. parser' \in [Chunk -> ParserState] /\ NextBatch(c) \in Batch
    BY <1>1, <1>11, DropType DEF HandOver
  <2>2. WorkersType'
    BY <1>11, <2>1 DEF HandOver, TypeOK, WorkersType
  <2>3. inhand' \in Seq(Batch)
    BY <1>11, <2>1 DEF HandOver
  <2>4. SinkType'
    BY <1>11, <2>3 DEF HandOver, TypeOK, SinkType
  <2> QED
    BY <1>11, <2>2, <2>4
    DEF HandOver, TypeOK, CallerType, SharedType, QuarantineType, caller,
        shared, quarantine
<1>12. CASE SendClosed(c)
  <2>1. WorkersType'
    BY <1>1, <1>12, DropType DEF SendClosed, WorkersType
  <2> QED
    BY <1>12, <2>1
    DEF SendClosed, TypeOK, CallerType, SharedType, SinkType, QuarantineType,
        caller, shared, sink, quarantine
<1> QED
  BY <1>3, <1>4, <1>5, <1>6, <1>7, <1>8, <1>9, <1>10, <1>11, <1>12 DEF Worker

------------------------------------------------------------------------------
(***************************************************************************)
(* The caller joins only what it may join: it leaves the loop without an   *)
(* error only when every chunk is done.                                    *)
(***************************************************************************)
LEMMA CallerKeepsControl ==
  ASSUME IInv, Caller
  PROVE  Control'
<1> USE DEF CallerOnly, Return, caller, shared, workers, sink, quarantine
<1>1. /\ ParsersSane /\ ErrorNoticed /\ JoinOrder /\ WriterLife
      /\ WorkersType /\ CallerType /\ SinkType /\ QuarantineType
  BY DEF IInv, TypeOK, Control
<1>2. UNCHANGED workers
  BY DEF Caller, Spawn, SetupFails, BeginJoin, ReturnParseError, JoinWriter,
         AfterWriter, JoinWriterFails, JoinDead, JoinDeadFails
<1>3. ParsersSane'
  BY <1>1, <1>2 DEF ParsersSane
<1>4. ASSUME main = "parsing", LoopOver, parse_error = NoError
      PROVE  AllDone
  <2> SUFFICES ASSUME NEW c \in Chunk PROVE pc[c] = "done"
    BY DEF AllDone
  <2>1. pc[c] \in Settled
    BY <1>4 DEF LoopOver
  <2> QED
    BY <1>1, <1>4, <2>1 DEF ErrorNoticed, Settled
<1>5. CASE Spawn
  <2>1. ErrorNoticed' /\ WriterLife'
    BY <1>1, <1>5 DEF Spawn, ErrorNoticed, WriterLife, JoinOrder
  <2>2. JoinOrder'
    BY <1>1, <1>5, ChunkFacts DEF Spawn, JoinOrder
  <2> QED
    BY <1>3, <2>1, <2>2 DEF Control
<1>6. CASE SetupFails
  BY <1>1, <1>3, <1>6
  DEF SetupFails, Control, ErrorNoticed, JoinOrder, WriterLife, AllDone
<1>7. CASE BeginJoin
  BY <1>1, <1>3, <1>4, <1>7
  DEF BeginJoin, Control, ErrorNoticed, JoinOrder, WriterLife, AllDone
<1>8. CASE ReturnParseError
  BY <1>1, <1>3, <1>8
  DEF ReturnParseError, Control, ErrorNoticed, JoinOrder, WriterLife, AllDone
<1>9. CASE JoinWriter
  <2>1. ErrorNoticed' /\ WriterLife'
    BY <1>1, <1>2, <1>9
    DEF JoinWriter, AfterWriter, ErrorNoticed, WriterLife
  <2>2. JoinOrder'
    BY <1>1, <1>2, <1>9
    DEF JoinWriter, AfterWriter, JoinOrder, AllDone
  <2> QED
    BY <1>3, <2>1, <2>2 DEF Control
<1>10. CASE JoinWriterFails
  BY <1>1, <1>3, <1>10
  DEF JoinWriterFails, Control, ErrorNoticed, JoinOrder, WriterLife, AllDone
<1>11. CASE JoinDead
  BY <1>1, <1>3, <1>11
  DEF JoinDead, Control, ErrorNoticed, JoinOrder, WriterLife, AllDone
<1>12. CASE JoinDeadFails
  BY <1>1, <1>3, <1>12
  DEF JoinDeadFails, Control, ErrorNoticed, JoinOrder, WriterLife, AllDone
<1> QED
  BY <1>5, <1>6, <1>7, <1>8, <1>9, <1>10, <1>11, <1>12 DEF Caller

(***************************************************************************)
(* The writer and the dead-letter thread end only when the senders are     *)
(* gone or something failed, and nothing they do is undone.                *)
(***************************************************************************)
LEMMA SinksKeepControl ==
  ASSUME IInv, Writer \/ DeadLetter
  PROVE  Control'
<1> USE DEF WriterDies, DeadDies, caller, shared, workers, sink, quarantine
<1>1. /\ ParsersSane /\ ErrorNoticed /\ JoinOrder /\ WriterLife
      /\ WorkersType /\ CallerType /\ SinkType /\ QuarantineType
  BY DEF IInv, TypeOK, Control
<1>2. UNCHANGED <<caller, shared, workers>>
  BY DEF Writer, OpenOutput, OpenFails, Receive, WriteBatch, WriteFails,
         CloseOutput, CloseFails, DeadLetter, OpenDead, OpenDeadFails,
         WriteDead, WriteDeadFails, CloseDead
<1>3. ParsersSane' /\ ErrorNoticed'
  BY <1>1, <1>2 DEF ParsersSane, ErrorNoticed
<1>4. CASE Writer
  <2>1. /\ UNCHANGED quarantine
        /\ writer \in {"opening", "recv", "writing"} /\ writer' # "unborn"
    BY <1>4 DEF Writer, OpenOutput, OpenFails, Receive, WriteBatch, WriteFails,
                CloseOutput, CloseFails
  <2>2. JoinOrder'
    BY <1>1, <1>2, <2>1 DEF JoinOrder, AllDone
  <2>3. writer' # "writing" => inhand' = <<>>
    BY <1>1, <1>4 DEF Writer, OpenOutput, OpenFails, Receive, WriteBatch,
                      WriteFails, CloseOutput, CloseFails, WriterLife
  <2>4. writer' = "ok" => CloseOutput
    BY <1>4 DEF Writer, OpenOutput, OpenFails, Receive, WriteBatch, WriteFails,
                CloseFails
  <2>5. WriterLife'
    BY <1>2, <2>1, <2>3, <2>4
    DEF WriterLife, CloseOutput, SendersGone, LoopOver
  <2> QED
    BY <1>3, <2>2, <2>5 DEF Control
<1>5. CASE DeadLetter
  <2>1. /\ UNCHANGED sink
        /\ dl \in {"opening", "recv"} /\ dl' \in {"recv", "ok", "err"}
    BY <1>5 DEF DeadLetter, OpenDead, OpenDeadFails, WriteDead,
                WriteDeadFails, CloseDead
  <2>2. WriterLife'
    BY <1>1, <1>2, <2>1 DEF WriterLife
  <2>3. main # "setup" => config.dead_letter
    BY <1>1, <2>1, ChunkFacts DEF JoinOrder
  <2>4. JoinOrder'
    BY <1>1, <1>2, <2>1, <2>3 DEF JoinOrder, AllDone
  <2> QED
    BY <1>3, <2>2, <2>4 DEF Control
<1> QED
  BY <1>4, <1>5

(***************************************************************************)
(* A chunk's worker fails only with an error in hand.                      *)
(***************************************************************************)
LEMMA WorkerKeepsSane ==
  ASSUME IInv, NEW c \in Chunk, Worker(c)
  PROVE  ParsersSane'
<1> DEFINE p == parser[c]
<1>1. /\ ParsersSane /\ WorkersType /\ p \in ParserState /\ p.line \in Nat
      /\ p.line + 1 \in Nat /\ 1 .. p.line + 1 = 1 .. p.line \cup {p.line + 1}
      /\ p.open \subseteq 1 .. p.line
      /\ pc[c] \notin {"failing", "failed"} => p.err = "none"
  <2>1. ParsersSane /\ WorkersType /\ p \in ParserState /\ p.line \in Nat
    BY DEF IInv, TypeOK, Control, WorkersType, ParserState
  <2> QED
    BY <2>1 DEF ParsersSane
\* A step that hands over q in place of p.
<1>2. ASSUME NEW q \in ParserState, NEW next \in {"parsing", "sending"},
             Proceed(c, q, next),
             q.open \subseteq 1 .. q.line,
             q.err # "none" => q.line >= 1
      PROVE  ParsersSane'
  <2>1. /\ parser'[c] = q
        /\ pc'[c] = IF q.err = "none" THEN next ELSE "failing"
        /\ \A d \in Chunk \ {c} : parser'[d] = parser[d] /\ pc'[d] = pc[d]
    BY <1>1, <1>2, ProceedType
  <2>2. ASSUME NEW d \in Chunk \ {c}
        PROVE  /\ parser'[d].open \subseteq 1 .. parser'[d].line
               /\ pc'[d] \notin {"failing", "failed"} => parser'[d].err = "none"
               /\ pc'[d] = "failing" =>
                    parser'[d].err # "none" /\ parser'[d].line >= 1
    BY <1>1, <2>1, <2>2 DEF ParsersSane
  <2> QED
    BY <1>2, <2>1, <2>2 DEF ParsersSane
\* A step that touches neither open, line nor err.
<1>3. ASSUME pc' = [pc EXCEPT ![c] = pc'[c]], pc'[c] # "failing",
             pc[c] \notin {"failing", "failed"} \/ pc'[c] = "failed",
             parser'[c].open = p.open, parser'[c].line = p.line,
             parser'[c].err = p.err,
             \A d \in Chunk \ {c} : parser'[d] = parser[d]
      PROVE  ParsersSane'
  <2>1. \A d \in Chunk \ {c} : pc'[d] = pc[d]
    BY <1>1, <1>3 DEF WorkersType
  <2>2. ASSUME NEW d \in Chunk \ {c}
        PROVE  /\ parser'[d].open \subseteq 1 .. parser'[d].line
               /\ pc'[d] \notin {"failing", "failed"} => parser'[d].err = "none"
               /\ pc'[d] = "failing" =>
                    parser'[d].err # "none" /\ parser'[d].line >= 1
    BY <1>1, <1>3, <2>1, <2>2 DEF ParsersSane
  <2> QED
    BY <1>1, <1>3, <2>2 DEF ParsersSane
<1>4. CASE StartChunk(c) \/ SkipChunk(c) \/ ChunkDone(c) \/ FailChunk(c)
  <2>1. /\ parser' = parser /\ pc[c] \in {"pending", "sending", "failing"}
        /\ pc[c] = "failing" => pc' = [pc EXCEPT ![c] = "failed"]
        /\ pc' \in {[pc EXCEPT ![c] = v] :
                      v \in {"parsing", "skipped", "done", "failed"}}
    BY <1>4 DEF StartChunk, SkipChunk, ChunkDone, FailChunk
  <2>2. /\ pc' = [pc EXCEPT ![c] = pc'[c]] /\ pc'[c] # "failing"
        /\ pc[c] \notin {"failing", "failed"} \/ pc'[c] = "failed"
    BY <1>1, <2>1 DEF WorkersType
  <2> QED
    BY <1>3, <2>1, <2>2
<1>5. CASE BlankLine(c)
  BY <1>1, <1>2, <1>5, SkipTypes DEF BlankLine, AtLine
<1>6. CASE BadLine(c)
  BY <1>1, <1>2, <1>6, SkipTypes DEF BadLine, AtLine
<1>7. CASE Row(c)
  BY <1>1, <1>2, <1>7, AddRowAdds DEF Row
<1>8. CASE AbortingLine(c)
  BY <1>1, <1>2, <1>8, SkipTypes DEF AbortingLine
<1>9. CASE EndChunk(c)
  <2> DEFINE q == Finish(Input[c], p)
  <2>1. /\ q \in ParserState /\ q.line = p.line /\ q.open \subseteq p.open
        /\ q.err # p.err => p.open # {}
    BY <1>1, FinishMoves
  <2>2. q.err # "none" => q.line >= 1
    BY <1>1, <1>9, <2>1 DEF EndChunk
  <2>3. Proceed(c, q, "sending")
    BY <1>9 DEF EndChunk
  <2> QED
    BY <1>1, <1>2, <2>1, <2>2, <2>3
<1>10. CASE Send(c) \/ HandOver(c) \/ SendClosed(c)
  <2>1. HasBatch(c) /\ DropBatch(c) /\ pc' = pc
    BY <1>10 DEF Send, HandOver, SendClosed, workers
  <2>2. /\ parser'[c].open = p.open /\ parser'[c].line = p.line
        /\ parser'[c].err = p.err
        /\ \A d \in Chunk \ {c} : parser'[d] = parser[d]
    BY <1>1, <2>1, DropType
  <2>3. pc[c] = "sending" /\ pc' = [pc EXCEPT ![c] = pc'[c]]
    BY <1>1, <2>1 DEF HasBatch, WorkersType
  <2> QED
    BY <1>3, <2>1, <2>2, <2>3
<1> QED
  BY <1>4, <1>5, <1>6, <1>7, <1>8, <1>9, <1>10 DEF Worker

(***************************************************************************)
(* A worker moves only in the loop: the caller cannot have seen every      *)
(* chunk done, nor the writer the last sender dropped.                     *)
(***************************************************************************)
LEMMA WorkerKeepsControl ==
  ASSUME IInv, NEW c \in Chunk, Worker(c)
  PROVE  Control'
<1> USE DEF caller, shared, workers, sink, quarantine
<1>1. /\ ErrorNoticed /\ JoinOrder /\ WriterLife /\ WorkersType /\ ParsersSane
  BY DEF IInv, TypeOK, Control
<1>2. UNCHANGED <<main, result, dl>>
  BY DEF Worker, StartChunk, SkipChunk, BlankLine, BadLine, Row, AbortingLine,
         EndChunk, FailChunk, Send, HandOver, SendClosed, ChunkDone
<1>3. /\ pc[c] \notin Settled
      /\ pc[c] = "pending" => main = "parsing"
  BY DEF Worker, StartChunk, SkipChunk, BlankLine, BadLine, Row, AbortingLine,
         EndChunk, FailChunk, Send, HandOver, SendClosed, ChunkDone, AtLine,
         HasBatch, Settled
<1>4. ~AllDone /\ writer \notin {"unborn", "ok"}
  BY <1>1, <1>3 DEF AllDone, JoinOrder, WriterLife, Settled
<1>5. \/ UNCHANGED <<writer, inhand>>
      \/ writer = "recv" /\ writer' = "writing"
  BY DEF Worker, StartChunk, SkipChunk, BlankLine, BadLine, Row, AbortingLine,
         EndChunk, FailChunk, Send, HandOver, SendClosed, ChunkDone
<1>6. JoinOrder' /\ WriterLife'
  BY <1>1, <1>2, <1>4, <1>5 DEF JoinOrder, WriterLife
<1>7. ErrorNoticed'
  <2>1. /\ parse_error # NoError => parse_error' # NoError
        /\ \A d \in Chunk : pc'[d] \in {"failed", "skipped"} =>
             \/ pc[d] \in {"failed", "skipped"}
             \/ parse_error' # NoError
    <3>1. CASE FailChunk(c)
      <4>1. parse_error' # NoError
        BY <1>1, <3>1 DEF FailChunk, ParsersSane, NoError
      <4> QED
        BY <4>1
    <3>2. CASE SkipChunk(c)
      BY <3>2 DEF SkipChunk
    <3>3. CASE ~FailChunk(c) /\ ~SkipChunk(c)
      <4>1. parse_error' = parse_error
        BY <3>3 DEF Worker, StartChunk, BlankLine, BadLine, Row, AbortingLine,
                    EndChunk, Send, HandOver, SendClosed, ChunkDone
      <4>2. \E v \in {"parsing", "sending", "failing", "done", pc[c]} :
              pc' = [pc EXCEPT ![c] = v]
        BY <1>1, <3>3
        DEF Worker, StartChunk, BlankLine, BadLine, Row, AbortingLine,
            EndChunk, Send, HandOver, SendClosed, ChunkDone, Proceed,
            WorkersType
      <4> QED
        BY <1>1, <4>1, <4>2 DEF WorkersType
    <3> QED
      BY <3>1, <3>2, <3>3
  <2> QED
    BY <1>1, <1>2, <2>1 DEF ErrorNoticed
<1> QED
  BY <1>6, <1>7, WorkerKeepsSane DEF Control

------------------------------------------------------------------------------
(***************************************************************************)
(* Every step keeps the invariant.                                         *)
(***************************************************************************)
LEMMA NextIInv == IInv /\ [Next]_vars => IInv'
<1> SUFFICES ASSUME IInv, [Next]_vars PROVE IInv'
  OBVIOUS
<1>1. TypeOK /\ ParsersSane
  BY DEF IInv, Control
<1>2. CASE Alive(Caller)
  BY <1>1, <1>2, CallerKeepsTypes, CallerKeepsControl DEF IInv, Alive
<1>3. CASE \E c \in Chunk : Alive(Worker(c))
  BY <1>1, <1>3, WorkerKeepsTypes, WorkerKeepsControl DEF IInv, Alive
<1>4. CASE Alive(Writer) \/ Alive(DeadLetter)
  BY <1>1, <1>4, SinksKeepTypes, SinksKeepControl DEF IInv, Alive
<1>5. ASSUME UNCHANGED <<caller, shared, workers, chan, sink, quarantine>>,
             exited' \in BOOLEAN
      PROVE  IInv'
  <2> USE DEF caller, shared, workers, sink, quarantine
  <2>1. TypeOK'
    BY <1>1, <1>5 DEF TypeOK, CallerType, SharedType, WorkersType, SinkType,
                      QuarantineType
  <2>2. ParsersSane' /\ ErrorNoticed'
    BY <1>5 DEF IInv, Control, ParsersSane, ErrorNoticed
  <2>3. JoinOrder' /\ WriterLife'
    BY <1>5 DEF IInv, Control, JoinOrder, WriterLife, AllDone
  <2> QED
    BY <2>1, <2>2, <2>3 DEF IInv, Control
<1>6. CASE Exit \/ Killed
  BY <1>5, <1>6 DEF Exit, Killed
<1>7. CASE Quiet \/ UNCHANGED vars
  BY <1>1, <1>5, <1>7 DEF Quiet, vars, TypeOK
<1> QED
  BY <1>2, <1>3, <1>4, <1>6, <1>7 DEF Next

(***************************************************************************)
(* The inductive invariant holds in every behaviour of the pipeline.       *)
(***************************************************************************)
THEOREM Invariance == Spec => []IInv
  BY InitIInv, NextIInv, PTL DEF Spec

(***************************************************************************)
(* Every variable of run_pipeline keeps its type: no error, batch or place *)
(* that the code could not hold is ever in flight.                         *)
(***************************************************************************)
THEOREM TypeCorrect == Spec => []TypeOK
<1>1. IInv => TypeOK
  BY DEF IInv
<1> QED
  BY <1>1, Invariance, PTL

(***************************************************************************)
(* run_pipeline returns Ok only when every chunk was parsed and sent and   *)
(* neither of the threads it started has failed: no failure is swallowed.  *)
(***************************************************************************)
THEOREM NoFailureSwallowed == Spec => []FailureIsReported
<1>1. IInv => FailureIsReported
  BY DEF IInv, Control, JoinOrder, AllDone, FailureIsReported
<1> QED
  BY <1>1, Invariance, PTL

(***************************************************************************)
(* Once run_pipeline has returned Ok, nothing touches the two files.       *)
(***************************************************************************)
THEOREM FilesFinal == Spec => FinalAfterOk
<1> USE DEF caller, shared, workers, sink, quarantine
<1>1. IInv /\ [Next]_vars => [result = "ok" => UNCHANGED <<sink, quarantine>>]_vars
  <2> SUFFICES ASSUME IInv, Next, result = "ok"
               PROVE  UNCHANGED <<sink, quarantine>>
    BY DEF vars
  <2>1. main = "returned" /\ AllDone /\ writer = "ok" /\ dl \in {"ok", "none"}
    BY DEF IInv, Control, JoinOrder
  <2>2. ~Caller /\ ~Writer /\ ~DeadLetter
    BY <2>1 DEF Caller, Spawn, SetupFails, BeginJoin, ReturnParseError,
                JoinWriter, JoinWriterFails, JoinDead, JoinDeadFails,
                Writer, OpenOutput, OpenFails, Receive, WriteBatch, WriteFails,
                CloseOutput, CloseFails, DeadLetter, OpenDead, OpenDeadFails,
                WriteDead, WriteDeadFails, CloseDead
  <2>3. \A c \in Chunk : ~Worker(c)
    BY <2>1 DEF AllDone, Worker, StartChunk, SkipChunk, BlankLine, BadLine,
                Row, AbortingLine, EndChunk, FailChunk, Send, HandOver,
                SendClosed, ChunkDone, AtLine, HasBatch
  <2> QED
    BY <2>2, <2>3 DEF Next, Alive, Exit, Killed, Quiet, vars
<1> QED
  BY <1>1, Invariance, PTL DEF Spec, FinalAfterOk

------------------------------------------------------------------------------
(***************************************************************************)
(* The pipeline starts without an error.                                   *)
(***************************************************************************)
LEMMA InitEInv == Init => EInv
<1> SUFFICES ASSUME Init PROVE EInv
  OBVIOUS
<1>1. ASSUME NEW c \in Chunk PROVE Knows(config, Input[c], parser[c])
  BY ChunkFacts, NewParserKnows DEF Init, Knows
<1>2. AtFault(parse_error) /\ ErrorIsGenuine
  BY DEF Init, AtFault, ErrorIsGenuine
<1> QED
  BY <1>1, <1>2 DEF EInv, AllKnow

(***************************************************************************)
(* A worker's step keeps its parser faithful and touches no other.         *)
(***************************************************************************)
LEMMA WorkerKnows ==
  ASSUME IInv, AllKnow, NEW c \in Chunk, Worker(c)
  PROVE  AllKnow'
<1> DEFINE p == parser[c]
           lines == Input[c]
<1>1. /\ lines \in Seq(LineKind) /\ p \in ParserState /\ WorkersType
      /\ Knows(config, lines, p)
      /\ pc[c] \notin {"failing", "failed"} => p.err = "none"
      /\ config.limit \in Nat \cup {NoLimit}
  BY ChunkFacts, PipelineAssumption
  DEF IInv, TypeOK, Control, WorkersType, ParsersSane, AllKnow,
      PipelineConfig
\* The worker hands over q in place of p.
<1>2. ASSUME NEW q \in ParserState, NEW next \in {"parsing", "sending"},
             Proceed(c, q, next), Knows(config, lines, q)
      PROVE  AllKnow'
  <2>1. parser'[c] = q /\ \A d \in Chunk \ {c} : parser'[d] = parser[d]
    BY <1>1, <1>2, ProceedType
  <2> QED
    BY <1>2, <2>1 DEF AllKnow
<1>3. CASE StartChunk(c) \/ SkipChunk(c) \/ ChunkDone(c) \/ FailChunk(c)
  BY <1>3 DEF StartChunk, SkipChunk, ChunkDone, FailChunk, AllKnow
<1>4. AtLine(c) => /\ p.err = "none" /\ More(config, lines, p)
                   /\ p.line < Len(lines) /\ Line(c) = lines[p.line + 1]
  BY <1>1 DEF AtLine, More, Line, Current
<1>5. CASE BlankLine(c) \/ BadLine(c)
  <2>1. PICK q \in {PassBlank(p), SkipLine(p)} :
               /\ AtLine(c) /\ Proceed(c, q, "parsing")
               /\ \/ Line(c) = "blank" /\ q = PassBlank(p)
                  \/ Skips(config, Line(c)) /\ q = SkipLine(p)
    BY <1>5 DEF BlankLine, BadLine
  <2>2. q \in ParserState
    BY <1>1, <2>1, SkipTypes
  <2>3. Knows(config, lines, q)
    BY <1>1, <1>4, <2>1, <2>2, PassKnows
  <2> QED
    BY <1>2, <2>1, <2>2, <2>3
<1>6. CASE Row(c)
  <2>1. AtLine(c) /\ Accepts(config, Line(c))
    BY <1>6 DEF Row
  <2>2. Knows(config, lines, AddRow(config, lines, p))
    BY <1>1, <1>4, <2>1, RowKnows
  <2>3. AddRow(config, lines, p) \in ParserState
    BY <1>1, AddRowAdds
  <2> QED
    BY <1>2, <1>6, <2>2, <2>3 DEF Row
<1>7. CASE AbortingLine(c)
  <2>1. AtLine(c) /\ Aborts(config, Line(c))
    BY <1>7 DEF AbortingLine
  <2>2. Knows(config, lines, Abort(Line(c), p))
    BY <1>1, <1>4, <2>1, AbortKnows
  <2>3. Abort(Line(c), p) \in ParserState
    BY <1>1, SkipTypes
  <2> QED
    BY <1>2, <1>7, <2>2, <2>3 DEF AbortingLine
<1>8. CASE EndChunk(c)
  <2>1. p.err = "none" /\ Proceed(c, Finish(lines, p), "sending")
    BY <1>1, <1>8 DEF EndChunk
  <2>2. Knows(config, lines, Finish(lines, p))
    BY <1>1, <2>1, FinishKnows
  <2>3. Finish(lines, p) \in ParserState
    BY <1>1, FinishMoves
  <2> QED
    BY <1>2, <2>1, <2>2, <2>3
<1>9. CASE Send(c) \/ HandOver(c) \/ SendClosed(c)
  <2>1. HasBatch(c) /\ DropBatch(c)
    BY <1>9 DEF Send, HandOver, SendClosed
  <2>2. /\ parser'[c] = [p EXCEPT !.batches = Tail(@)]
        /\ \A d \in Chunk \ {c} : parser'[d] = parser[d]
    BY <1>1, <2>1, DropType
  <2>3. Knows(config, lines, parser'[c])
    BY <1>1, <2>1, <2>2, DropKnows DEF HasBatch
  <2> QED
    BY <2>2, <2>3 DEF AllKnow
<1> QED
  BY <1>3, <1>5, <1>6, <1>7, <1>8, <1>9 DEF Worker

(***************************************************************************)
(* The first failing worker puts its own offence into the mutex, and the   *)
(* caller takes out what is there.                                         *)
(***************************************************************************)
LEMMA NextEInv == IInv /\ EInv /\ [Next]_vars => EInv'
<1> SUFFICES ASSUME IInv, EInv, [Next]_vars PROVE EInv'
  OBVIOUS
<1> USE DEF caller, shared, workers, sink, quarantine
<1>1. CASE \E c \in Chunk : Alive(Worker(c))
  <2>1. PICK c \in Chunk : Worker(c)
    BY <1>1 DEF Alive
  <2>2. AllKnow'
    BY <2>1, WorkerKnows DEF EInv
  <2>3. UNCHANGED <<result, reported>>
    BY <2>1 DEF Worker, StartChunk, SkipChunk, BlankLine, BadLine, Row,
                AbortingLine, EndChunk, FailChunk, Send, HandOver, SendClosed,
                ChunkDone
  <2>4. AtFault(parse_error)'
    <3>1. CASE FailChunk(c)
      <4>1. parser[c].err # "none" /\ Faithful(config, Input[c], parser[c])
        BY <3>1 DEF FailChunk, IInv, Control, ParsersSane, EInv, AllKnow, Knows
      <4>2. \E k \in Offending(config, Input[c]) : k <= parser[c].line
        BY <4>1 DEF Faithful
      <4>3. \/ parse_error' = parse_error
            \/ parse_error' = [kind |-> parser[c].err, chunk |-> c,
                               line |-> parser[c].line]
        BY <3>1 DEF FailChunk
      <4> QED
        BY <4>2, <4>3 DEF EInv, AtFault
    <3>2. CASE ~FailChunk(c)
      <4>1. parse_error' = parse_error
        BY <2>1, <3>2
        DEF Worker, StartChunk, SkipChunk, BlankLine, BadLine, Row,
            AbortingLine, EndChunk, Send, HandOver, SendClosed, ChunkDone
      <4> QED
        BY <4>1 DEF EInv, AtFault
    <3> QED
      BY <3>1, <3>2
  <2> QED
    BY <2>2, <2>3, <2>4 DEF EInv, ErrorIsGenuine
<1>2. CASE ReturnParseError
  <2>1. /\ parse_error # NoError /\ reported' = parse_error
        /\ parse_error' = NoError /\ UNCHANGED parser
    BY <1>2 DEF ReturnParseError
  <2> QED
    BY <2>1 DEF EInv, AllKnow, AtFault, ErrorIsGenuine
<1>3. ASSUME UNCHANGED <<parse_error, parser, reported>>,
             result' = "parse" => result = "parse"
      PROVE  EInv'
  BY <1>3 DEF EInv, AllKnow, AtFault, ErrorIsGenuine
<1>4. CASE Alive(Caller) /\ ~ReturnParseError
  <2>1. /\ UNCHANGED <<parse_error, parser, reported>>
        /\ result' = "parse" => result = "parse"
    BY <1>4 DEF Alive, Caller, CallerOnly, Return, Spawn, SetupFails,
                BeginJoin, JoinWriter, AfterWriter, JoinWriterFails, JoinDead,
                JoinDeadFails
  <2> QED
    BY <1>3, <2>1
<1>5. CASE Alive(Writer) \/ Alive(DeadLetter)
  BY <1>3, <1>5
  DEF Alive, Writer, WriterDies, OpenOutput, OpenFails, Receive, WriteBatch,
      WriteFails, CloseOutput, CloseFails, DeadLetter, DeadDies, OpenDead,
      OpenDeadFails, WriteDead, WriteDeadFails, CloseDead
<1>6. CASE Exit \/ Killed \/ Quiet \/ UNCHANGED vars
  BY <1>3, <1>6 DEF Exit, Killed, Quiet, vars
<1> QED
  BY <1>1, <1>2, <1>4, <1>5, <1>6 DEF Next

(***************************************************************************)
(* Every parser knows its lines, in every behaviour of the pipeline.       *)
(***************************************************************************)
LEMMA KnowsInvariance == Spec => []EInv
  BY InitEInv, NextEInv, Invariance, PTL DEF Spec

(***************************************************************************)
(* The parse error that run_pipeline returns names a chunk that has a line *)
(* at fault within the limit, no later than the line it names, for every   *)
(* input and however many workers fail at once.                            *)
(***************************************************************************)
THEOREM ReportedErrorGenuine == Spec => []ErrorIsGenuine
<1>1. EInv => ErrorIsGenuine
  BY DEF EInv
<1> QED
  BY <1>1, KnowsInvariance, PTL

------------------------------------------------------------------------------
\* The rows of a full batch.
Size == IF config.batch_size = 0 THEN 1 ELSE config.batch_size

\* In the loop every batch of the chunk is full; one more may not be.
Full(p) == Len(p.batches) * Size + Cardinality(p.open) <= p.ok
Packed(p) == Len(p.batches) * Size + 1 <= p.ok + Size

\* Workers, their batches and the channel keep within the configuration.
MInv ==
  /\ \A c \in Chunk : /\ Packed(parser[c])
                      /\ pc[c] \in {"pending", "parsing"} => Full(parser[c])
  /\ Len(chan) <= config.channel_depth
  /\ Cardinality(Busy) <= config.threads
  /\ inhand = <<>> \/ \E b \in Batch : inhand = <<b>>

(***************************************************************************)
(* A full batch has at least one row.                                      *)
(***************************************************************************)
LEMMA SizeFacts ==
  /\ Size \in Nat /\ Size >= 1 /\ config.batch_size <= Size
  /\ config.batch_size \in Nat
  /\ \A n \in Nat : n >= 1 /\ n >= config.batch_size => n >= Size
  /\ \A n \in Nat : n * Size \in Nat /\ (n + 1) * Size = n * Size + Size
  /\ 0 * Size = 0
  /\ config.channel_depth \in Nat /\ config.threads \in Nat
<1>1. config.batch_size \in Nat /\ config.channel_depth \in Nat
      /\ config.threads \in Nat
  BY PipelineAssumption DEF PipelineConfig
<1>2. Size \in Nat /\ Size >= 1 /\ config.batch_size <= Size
  BY <1>1 DEF Size
<1>3. \A n \in Nat : n >= 1 /\ n >= config.batch_size => n >= Size
  BY DEF Size
<1>4. \A n \in Nat : n * Size \in Nat /\ (n + 1) * Size = n * Size + Size
  BY <1>2
<1>5. 0 * Size = 0
  BY <1>2
<1> QED
  BY <1>1, <1>2, <1>3, <1>4, <1>5

(***************************************************************************)
(* The sizes of a parser's parts.                                          *)
(***************************************************************************)
LEMMA ParserSizes ==
  ASSUME NEW p \in ParserState, p.open \subseteq 1 .. p.line
  PROVE  /\ p.ok \in Nat /\ Len(p.batches) \in Nat /\ p.line \in Nat
         /\ p.batches \in Seq(SUBSET Nat)
         /\ IsFiniteSet(p.open) /\ Cardinality(p.open) \in Nat
         /\ p.open # {} => Cardinality(p.open) >= 1
<1>1. p.ok \in Nat /\ p.batches \in Seq(SUBSET Nat) /\ p.line \in Nat
  BY DEF ParserState
<1>2. IsFiniteSet(1 .. p.line)
  BY <1>1, FS_Interval
<1>3. IsFiniteSet(p.open) /\ Cardinality(p.open) \in Nat
  BY <1>2, FS_Subset, FS_CardinalityType
<1>4. Cardinality(p.open) = 0 <=> p.open = {}
  BY <1>3, FS_EmptySet
<1>5. p.open # {} => Cardinality(p.open) >= 1
  BY <1>3, <1>4
<1> QED
  BY <1>1, <1>3, <1>5

(***************************************************************************)
(* A row fills the builders, which are flushed when they hold a batch.     *)
(***************************************************************************)
LEMMA RowPacks ==
  ASSUME NEW p \in ParserState, NEW lines, p.open \subseteq 1 .. p.line,
         Full(p)
  PROVE  LET q == AddRow(config, lines, p)
         IN  Packed(q) /\ (q.err = p.err => Full(q) \/ p.err # "none")
<1> DEFINE q == AddRow(config, lines, p)
           n == Len(p.batches)
<1>1. PICK r \in ParserState :
        /\ r.ok = p.ok + 1 /\ r.err = p.err /\ r.batches = p.batches
        /\ r.open = p.open \cup {p.line + 1}
        /\ q = IF Cardinality(r.open) >= config.batch_size
               THEN Flush(lines, r) ELSE r
  BY AddRowOutcome
<1>2. /\ p.ok \in Nat /\ n \in Nat /\ IsFiniteSet(p.open)
      /\ Cardinality(p.open) \in Nat /\ p.batches \in Seq(SUBSET Nat)
      /\ p.line \in Nat
  BY ParserSizes
<1>3. IsFiniteSet(r.open) /\ Cardinality(r.open) = Cardinality(p.open) + 1
  <2> DEFINE l == p.line + 1
  <2>1. l \notin p.open /\ r.open = p.open \cup {l}
    BY <1>1, <1>2
  <2> HIDE DEF l
  <2>2. /\ IsFiniteSet(p.open \cup {l})
        /\ Cardinality(p.open \cup {l}) = Cardinality(p.open) + 1
    BY <1>2, <2>1, FS_AddElement
  <2> QED
    BY <2>1, <2>2
<1>4. n * Size + Cardinality(p.open) <= p.ok /\ n * Size \in Nat
      /\ (n + 1) * Size = n * Size + Size
  BY <1>2, SizeFacts DEF Full
<1> HIDE DEF q, n
<1>5. n * Size + Cardinality(r.open) <= r.ok
  BY <1>1, <1>2, <1>3, <1>4
<1>6. CASE q = r
  <2>1. Full(r)
    BY <1>1, <1>5 DEF Full, n
  <2>2. n * Size + 1 <= r.ok + Size
    BY <1>1, <1>2, <1>3, <1>4, <1>5, SizeFacts
  <2> QED
    BY <1>1, <1>6, <2>1, <2>2 DEF Packed, q, n
<1>7. CASE q = Flush(lines, r) /\ Cardinality(r.open) >= config.batch_size
  <2>1. /\ q.ok = r.ok
        /\ \/ q.err = "Arrow" /\ q.batches = r.batches
           \/ q.open = {} /\ q.batches = Append(r.batches, r.open)
    BY <1>1, <1>7, FlushOutcome
  <2>2. Size <= Cardinality(r.open)
    BY <1>2, <1>3, <1>7, SizeFacts
  <2>3. CASE q.err = "Arrow" /\ q.batches = r.batches
    <3>1. n * Size + 1 <= r.ok + Size
      BY <1>1, <1>2, <1>3, <1>4, <1>5, SizeFacts
    <3> QED
      BY <1>1, <2>1, <2>3, <3>1 DEF Packed, q, n
  <2>4. CASE q.open = {} /\ q.batches = Append(r.batches, r.open)
    <3>1. Len(q.batches) = n + 1 /\ Cardinality(q.open) = 0
      <4>1. r.open \in SUBSET Nat
        BY DEF ParserState
      <4>2. Len(Append(p.batches, r.open)) = n + 1
        BY <1>2, <4>1 DEF n
      <4> QED
        BY <1>1, <2>4, <4>2, FS_EmptySet
    <3>2. (n + 1) * Size + 0 <= r.ok
      <4>1. \A a, k, o, s \in Nat : a + k <= o /\ s <= k => a + s + 0 <= o
        OBVIOUS
      <4>2. r.ok \in Nat /\ Cardinality(r.open) \in Nat
        BY <1>1, <1>2, <1>3
      <4> QED
        BY <1>4, <1>5, <2>2, <4>1, <4>2, SizeFacts
    <3>3. (n + 1) * Size + 1 <= r.ok + Size
      BY <1>1, <1>2, <1>4, <3>2, SizeFacts
    <3> QED
      BY <2>1, <3>1, <3>2, <3>3 DEF Full, Packed, q
  <2> QED
    BY <2>1, <2>3, <2>4
<1> QED
  BY <1>1, <1>6, <1>7

(***************************************************************************)
(* The last batch of a chunk may be a short one.                           *)
(***************************************************************************)
LEMMA FinishPacks ==
  ASSUME NEW p \in ParserState, NEW lines, p.open \subseteq 1 .. p.line,
         Full(p)
  PROVE  Packed(p) /\ Packed(Finish(lines, p))
<1> DEFINE q == Finish(lines, p)
           n == Len(p.batches)
<1>1. /\ p.ok \in Nat /\ n \in Nat /\ Cardinality(p.open) \in Nat
      /\ p.batches \in Seq(SUBSET Nat)
      /\ p.open # {} => Cardinality(p.open) >= 1
  BY ParserSizes
<1>2. n * Size + Cardinality(p.open) <= p.ok /\ n * Size \in Nat
      /\ (n + 1) * Size = n * Size + Size
  BY <1>1, SizeFacts DEF Full
<1> HIDE DEF n, q
<1>3. n * Size + 1 <= p.ok + Size
  BY <1>1, <1>2, SizeFacts
<1>4. Packed(p)
  BY <1>3 DEF Packed, n
<1>5. CASE p.open = {}
  BY <1>4, <1>5 DEF Finish
<1>6. CASE p.open # {}
  <2>1. /\ q.ok = p.ok
        /\ q.batches = p.batches \/ q.batches = Append(p.batches, p.open)
    BY <1>6, FlushOutcome DEF Finish, q
  <2>2. CASE q.batches = p.batches
    BY <1>4, <2>1, <2>2 DEF Packed, q
  <2>3. CASE q.batches = Append(p.batches, p.open)
    <3>1. Len(q.batches) = n + 1
      BY <1>1, <2>3 DEF n
    <3>2. (n + 1) * Size + 1 <= p.ok + Size
      <4>1. \A a, k, o, s \in Nat : a + k <= o /\ k >= 1 => a + s + 1 <= o + s
        OBVIOUS
      <4> QED
        BY <1>1, <1>2, <1>6, <4>1, SizeFacts
    <3> QED
      BY <1>4, <2>1, <3>1, <3>2 DEF Packed, q
  <2> QED
    BY <2>1, <2>2, <2>3
<1> QED
  BY <1>4, <1>5, <1>6

(***************************************************************************)
(* The chunks are finitely many, and so are the busy ones.                 *)
(***************************************************************************)
LEMMA ChunksFinite ==
  ASSUME NEW S \in SUBSET Chunk
  PROVE  IsFiniteSet(S) /\ Cardinality(S) \in Nat
<1>1. Len(Input) \in Nat /\ Chunk = 1 .. Len(Input)
  BY PipelineAssumption DEF Chunk
<1>2. IsFiniteSet(Chunk)
  BY <1>1, FS_Interval
<1> QED
  BY <1>2, FS_Subset, FS_CardinalityType

(***************************************************************************)
(* Only a free worker takes a chunk.                                       *)
(***************************************************************************)
LEMMA BusyBounded ==
  ASSUME IInv, Cardinality(Busy) <= config.threads,
         NEW c \in Chunk, Worker(c)
  PROVE  Cardinality(Busy') <= config.threads
<1> USE DEF workers
<1>1. WorkersType /\ config.threads \in Nat /\ Busy \in SUBSET Chunk
  BY PipelineAssumption DEF IInv, TypeOK, Busy, PipelineConfig
<1>2. /\ \A d \in Chunk \ {c} : pc'[d] = pc[d]
      /\ pc[c] = "pending" => /\ Cardinality(Busy) < config.threads
                              /\ pc'[c] \in {"parsing", "skipped"}
      /\ pc[c] \notin Settled
  BY <1>1
  DEF WorkersType, Worker, StartChunk, SkipChunk, BlankLine, BadLine, Row,
      AbortingLine, EndChunk, FailChunk, Send, HandOver, SendClosed, ChunkDone,
      Proceed, DropBatch, AtLine, HasBatch, Settled
<1>3. IsFiniteSet(Busy) /\ Cardinality(Busy) \in Nat
  BY <1>1, ChunksFinite
<1>4. CASE pc[c] = "pending"
  <2>1. Busy' \in SUBSET (Busy \cup {c})
    BY <1>2 DEF Busy
  <2>2. /\ IsFiniteSet(Busy \cup {c})
        /\ Cardinality(Busy \cup {c}) = Cardinality(Busy) + 1
    BY <1>3, <1>4, FS_AddElement DEF Busy
  <2>3. Cardinality(Busy') <= Cardinality(Busy \cup {c})
    BY <2>1, <2>2, FS_Subset
  <2>4. Cardinality(Busy') \in Nat /\ Cardinality(Busy \cup {c}) \in Nat
    BY <2>1, <2>2, FS_Subset, FS_CardinalityType
  <2> QED
    BY <1>1, <1>2, <1>3, <1>4, <2>2, <2>3, <2>4
<1>5. CASE pc[c] # "pending"
  <2>1. Busy' \in SUBSET Busy
    <3>1. c \in Busy
      BY <1>2, <1>5 DEF Busy
    <3> QED
      BY <1>2, <3>1 DEF Busy
  <2>2. Cardinality(Busy') <= Cardinality(Busy)
    BY <1>3, <2>1, FS_Subset
  <2>3. Cardinality(Busy') \in Nat
    BY <1>3, <2>1, FS_Subset, FS_CardinalityType
  <2> QED
    BY <1>1, <1>3, <2>2, <2>3
<1> QED
  BY <1>4, <1>5

(***************************************************************************)
(* A worker's step keeps its batches packed, and the channel bounded.      *)
(***************************************************************************)
LEMMA WorkerPacks ==
  ASSUME IInv, MInv, NEW c \in Chunk, Worker(c)
  PROVE  MInv'
<1> USE DEF caller, shared, workers, sink, quarantine
<1> DEFINE p == parser[c]
<1>1. /\ WorkersType /\ p \in ParserState /\ p.open \subseteq 1 .. p.line
      /\ pc[c] \notin {"failing", "failed"} => p.err = "none"
      /\ chan \in Seq(Batch) /\ Len(chan) \in Nat
  BY DEF IInv, TypeOK, WorkersType, Control, ParsersSane
<1>2. /\ p.ok \in Nat /\ Len(p.batches) \in Nat
      /\ p.batches \in Seq(SUBSET Nat)
  BY <1>1, ParserSizes
<1>3. Packed(p) /\ (pc[c] \in {"pending", "parsing"} => Full(p))
  BY DEF MInv
<1>4. \A d \in Chunk \ {c} : parser'[d] = parser[d] /\ pc'[d] = pc[d]
  BY <1>1
  DEF WorkersType, Worker, StartChunk, SkipChunk, BlankLine, BadLine, Row,
      AbortingLine, EndChunk, FailChunk, Send, HandOver, SendClosed, ChunkDone,
      Proceed, DropBatch
<1>5. Cardinality(Busy') <= config.threads
  BY BusyBounded DEF MInv
<1>6. /\ Len(chan') <= config.channel_depth
      /\ inhand' = <<>> \/ \E b \in Batch : inhand' = <<b>>
  <2>1. CASE Send(c)
    <3>1. /\ Len(chan) < config.channel_depth /\ inhand' = inhand
          /\ chan' = Append(chan, NextBatch(c))
      BY <2>1 DEF Send
    <3>2. Len(chan') = Len(chan) + 1
      BY <1>1, <3>1
    <3> QED
      BY <1>1, <3>1, <3>2, SizeFacts DEF MInv
  <2>2. CASE HandOver(c)
    <3>1. NextBatch(c) \in Batch
      BY <1>1, <2>2, DropType DEF HandOver
    <3> QED
      BY <2>2, <3>1 DEF HandOver, MInv
  <2>3. CASE ~Send(c) /\ ~HandOver(c)
    <3>1. UNCHANGED <<chan, inhand>>
      BY <2>3
      DEF Worker, StartChunk, SkipChunk, BlankLine, BadLine, Row,
          AbortingLine, EndChunk, FailChunk, SendClosed, ChunkDone
    <3> QED
      BY <3>1 DEF MInv
  <2> QED
    BY <2>1, <2>2, <2>3
<1>7. ASSUME Packed(parser'[c]),
             pc'[c] \in {"pending", "parsing"} => Full(parser'[c])
      PROVE  MInv'
  BY <1>4, <1>5, <1>6, <1>7 DEF MInv, Packed, Full
<1>8. CASE StartChunk(c) \/ SkipChunk(c) \/ FailChunk(c) \/ ChunkDone(c)
  BY <1>1, <1>3, <1>7, <1>8
  DEF WorkersType, StartChunk, SkipChunk, FailChunk, ChunkDone
\* A line read in the loop leaves q in place of p.
<1>9. ASSUME NEW q \in ParserState, NEW next \in {"parsing", "sending"},
             Proceed(c, q, next), Packed(q),
             q.err = "none" /\ next = "parsing" => Full(q)
      PROVE  MInv'
  <2>1. parser'[c] = q /\ pc'[c] = IF q.err = "none" THEN next ELSE "failing"
    BY <1>1, <1>9, ProceedType
  <2> QED
    BY <1>7, <1>9, <2>1
<1>10. CASE BlankLine(c) \/ BadLine(c) \/ AbortingLine(c)
  <2>1. PICK q \in {PassBlank(p), SkipLine(p), Abort(Line(c), p)} :
               Proceed(c, q, "parsing")
    BY <1>10 DEF BlankLine, BadLine, AbortingLine
  <2>2. q \in ParserState /\ q.open = p.open /\ q.batches = p.batches
    <3>1. /\ PassBlank(p) \in ParserState /\ SkipLine(p) \in ParserState
          /\ Abort(Line(c), p) \in ParserState
          /\ \A r \in {PassBlank(p), SkipLine(p), Abort(Line(c), p)} :
               r.open = p.open /\ r.batches = p.batches
      BY <1>1, SkipTypes
    <3> QED
      BY <2>1, <3>1
  <2>3. q.ok = p.ok
    BY <1>1, <2>1 DEF PassBlank, SkipLine, Abort, ParserState
  <2>4. pc[c] = "parsing"
    BY <1>10 DEF BlankLine, BadLine, AbortingLine, AtLine
  <2>5. Packed(q) /\ Full(q)
    BY <1>3, <2>2, <2>3, <2>4 DEF Packed, Full
  <2> QED
    BY <1>9, <2>1, <2>2, <2>5
<1>11. CASE Row(c)
  <2> DEFINE q == AddRow(config, Input[c], p)
  <2>1. Proceed(c, q, "parsing") /\ pc[c] = "parsing" /\ p.err = "none"
    BY <1>1, <1>11 DEF Row, AtLine
  <2>2. q \in ParserState
    BY <1>1, AddRowAdds
  <2>3. Packed(q) /\ (q.err = "none" => Full(q))
    BY <1>1, <1>3, <2>1, RowPacks
  <2> HIDE DEF q
  <2> QED
    BY <1>9, <2>1, <2>2, <2>3
<1>12. CASE EndChunk(c)
  <2> DEFINE q == Finish(Input[c], p)
  <2>1. Proceed(c, q, "sending") /\ pc[c] = "parsing"
    BY <1>12 DEF EndChunk
  <2>2. q \in ParserState
    BY <1>1, FinishMoves
  <2>3. Packed(q)
    BY <1>1, <1>3, <2>1, FinishPacks
  <2> HIDE DEF q
  <2> QED
    BY <1>9, <2>1, <2>2, <2>3
<1>13. CASE Send(c) \/ HandOver(c) \/ SendClosed(c)
  <2>1. /\ HasBatch(c) /\ DropBatch(c) /\ pc' = pc /\ pc[c] = "sending"
        /\ p.batches # <<>>
    BY <1>13 DEF Send, HandOver, SendClosed, HasBatch
  <2>2. /\ parser'[c] = [p EXCEPT !.batches = Tail(@)]
        /\ parser'[c].batches = Tail(p.batches)
    BY <1>1, <2>1, DropType
  <2>3. parser'[c].ok = p.ok
    BY <1>1, <2>2 DEF ParserState
  <2> DEFINE n == Len(Tail(p.batches))
  <2>4. n \in Nat /\ Len(p.batches) = n + 1
    BY <1>2, <2>1
  <2> HIDE DEF n
  <2>5. n * Size + 1 <= p.ok + Size
    <3>1. (n + 1) * Size + 1 <= p.ok + Size
      BY <1>3, <2>4 DEF Packed
    <3>2. (n + 1) * Size = n * Size + Size /\ n * Size \in Nat /\ Size \in Nat
      BY <2>4, SizeFacts
    <3>3. \A a, o, z \in Nat : a + z + 1 <= o + z => a + 1 <= o + z
      OBVIOUS
    <3> QED
      BY <1>2, <3>1, <3>2, <3>3
  <2>6. Packed(parser'[c])
    BY <2>2, <2>3, <2>5 DEF Packed, n
  <2> QED
    BY <1>7, <2>1, <2>6
<1> QED
  BY <1>8, <1>10, <1>11, <1>12, <1>13 DEF Worker

(***************************************************************************)
(* Nor does any other step put more into flight.                           *)
(***************************************************************************)
LEMMA NextMInv ==
  ASSUME IInv, MInv, [Next]_vars
  PROVE  MInv'
<1> USE DEF caller, shared, workers, sink, quarantine
<1>1. chan \in Seq(Batch) /\ config.channel_depth \in Nat
  BY PipelineAssumption DEF IInv, TypeOK, PipelineConfig
<1>2. CASE UNCHANGED <<workers, chan, inhand>>
  BY <1>2 DEF MInv, Packed, Full, Busy
<1>3. CASE Alive(Writer)
  <2>1. UNCHANGED workers
    BY <1>3 DEF Alive, Writer, OpenOutput, OpenFails, Receive, WriteBatch,
                WriteFails, CloseOutput, CloseFails, WriterDies
  <2>2. Len(chan') <= config.channel_depth
    <3>1. \/ chan' = chan \/ chan' = <<>>
          \/ chan # <<>> /\ chan' = Tail(chan)
      BY <1>3 DEF Alive, Writer, OpenOutput, OpenFails, Receive, WriteBatch,
                  WriteFails, CloseOutput, CloseFails, WriterDies
    <3>2. Len(chan') <= Len(chan) /\ Len(chan') \in Nat /\ Len(chan) \in Nat
      BY <1>1, <3>1
    <3> QED
      BY <1>1, <3>2 DEF MInv
  <2>3. inhand' = <<>> \/ \E b \in Batch : inhand' = <<b>>
    <3>1. chan # <<>> => Head(chan) \in Batch
      BY <1>1
    <3> QED
      BY <1>3, <3>1 DEF MInv, Alive, Writer, OpenOutput, OpenFails, Receive,
         WriteBatch, WriteFails, CloseOutput, CloseFails, WriterDies
  <2> QED
    BY <2>1, <2>2, <2>3 DEF MInv, Packed, Full, Busy
<1>4. CASE \/ Alive(Caller) \/ Alive(DeadLetter) \/ Exit \/ Killed \/ Quiet
           \/ UNCHANGED vars
  BY <1>2, <1>4
  DEF Alive, Caller, CallerOnly, Spawn, SetupFails, BeginJoin,
      ReturnParseError, JoinWriter, AfterWriter, JoinWriterFails, JoinDead,
      JoinDeadFails, DeadLetter, DeadDies, OpenDead, OpenDeadFails, WriteDead,
      WriteDeadFails, CloseDead, Exit, Killed, Quiet, vars
<1> QED
  BY <1>3, <1>4, WorkerPacks DEF Next, Alive

(***************************************************************************)
(* A chunk never has more batches than its owed rows fill.                 *)
(***************************************************************************)
LEMMA BatchesBounded ==
  ASSUME IInv, EInv, MInv, NEW c \in Chunk
  PROVE  /\ Len(parser[c].batches) <= BatchesOf(c) /\ BatchesOf(c) \in Nat
         /\ Len(parser[c].batches) \in Nat
<1> DEFINE p == parser[c]
           n == Len(p.batches)
           owed == Cardinality(OwedRows(config, Input[c]))
<1>1. /\ Input[c] \in Seq(LineKind) /\ p \in ParserState
      /\ p.open \subseteq 1 .. p.line /\ Knows(config, Input[c], p)
      /\ Packed(p)
  BY ChunkFacts DEF IInv, TypeOK, WorkersType, Control, ParsersSane, EInv,
                    AllKnow, MInv
<1>2. p.ok \in Nat /\ n \in Nat
  BY <1>1, ParserSizes
<1>3. owed \in Nat /\ p.ok <= owed
  <2>1. IsFiniteSet(OwedRows(config, Input[c]))
    <3>1. IsFiniteSet(1 .. Len(Input[c]))
      BY <1>1, FS_Interval
    <3>2. OwedRows(config, Input[c]) \in SUBSET (1 .. Len(Input[c]))
      BY DEF OwedRows, Reached
    <3> QED
      BY <3>1, <3>2, FS_Subset
  <2>2. RowsBefore(config, Input[c], p.line + 1)
          \in SUBSET OwedRows(config, Input[c])
    <3>1. 1 .. p.line \subseteq Reached(config, Input[c]) /\ p.line \in Nat
      BY <1>1 DEF Knows, Exact, ParserState
    <3>2. \A k \in 1 .. Len(Input[c]) : k < p.line + 1 => k \in 1 .. p.line
      BY <3>1
    <3> QED
      BY <3>1, <3>2 DEF RowsBefore, OwedRows
  <2>3. p.ok = Cardinality(RowsBefore(config, Input[c], p.line + 1))
    BY <1>1 DEF Knows, Faithful
  <2> QED
    BY <2>1, <2>2, <2>3, FS_Subset, FS_CardinalityType
<1>4. n * Size + 1 <= owed + Size
  <2>1. n * Size \in Nat
    BY <1>2, SizeFacts
  <2>2. n * Size + 1 <= p.ok + Size
    BY <1>1 DEF Packed
  <2>3. \A m, k, l, z \in Nat : m + 1 <= k + z /\ k <= l => m + 1 <= l + z
    OBVIOUS
  <2>4. n * Size + 1 <= owed + Size
    <3> HIDE DEF p, n, owed
    <3> QED
      BY <1>2, <1>3, <2>1, <2>2, <2>3, SizeFacts DEF n
  <2> QED
    BY <2>4
<1>5. BatchesOf(c) = (owed + Size - 1) \div Size
  BY DEF BatchesOf, Size
<1> HIDE DEF n, owed
<1>6. ASSUME NEW s \in Nat, s >= 1, NEW m \in Nat, NEW k \in Nat, 
             m * s + 1 <= k + s
      PROVE  m <= (k + s - 1) \div s /\ (k + s - 1) \div s \in Nat
  <2> DEFINE d == (k + s - 1) \div s
             e == k + s - 1
  <2>1. e \in Nat /\ m * s \in Nat /\ m * s <= e
    BY <1>6
  <2> HIDE DEF e
  <2>2. /\ e \div s \in Nat 
        /\ e < s * (e \div s) + s
    BY <1>6, <2>1
  <2>3. m <= e \div s
    <3> DEFINE v == e \div s
    <3>1. v \in Nat /\ e < s * v + s
      BY <2>2
    <3> HIDE DEF v
    <3>2. ASSUME m >= v + 1 PROVE FALSE
      <4>1. (v + 1) * s <= m * s
        BY <1>6, <3>1, <3>2
      <4>2. (v + 1) * s = s * v + s
        BY <1>6, <3>1
      <4> QED
        BY <1>6, <2>1, <3>1, <4>1, <4>2
    <3>3. m <= v
      BY <1>6, <3>1, <3>2
    <3> QED
      BY <3>3 DEF v
  <2> QED
    BY <2>2, <2>3 DEF e
<1>7. n <= BatchesOf(c) /\ BatchesOf(c) \in Nat
  BY <1>2, <1>3, <1>4, <1>5, <1>6, SizeFacts
<1> QED
  BY <1>2, <1>7 DEF n

(***************************************************************************)
(* The batches between a parser and the file are bounded by the threads,   *)
(* the channel's depth and the batches of one chunk, for every input: the  *)
(* backpressure works.                                                     *)
(***************************************************************************)
THEOREM MemoryIsBounded == Spec => []MemoryBounded
<1>1. Init => MInv
  <2> SUFFICES ASSUME Init PROVE MInv
    OBVIOUS
  <2>1. Cardinality({}) = 0 /\ Busy = {}
    BY FS_EmptySet DEF Init, Busy
  <2>2. ASSUME NEW c \in Chunk PROVE Packed(parser[c]) /\ Full(parser[c])
    <3>1. /\ parser[c].ok = 0 /\ Len(parser[c].batches) = 0
          /\ Cardinality(parser[c].open) = 0
      BY <2>1 DEF Init, NewParser
    <3>2. 0 * Size + 0 <= 0 /\ 0 * Size + 1 <= 0 + Size
      BY SizeFacts
    <3> QED
      BY <3>1, <3>2 DEF Packed, Full
  <2> QED
    BY <2>1, <2>2, SizeFacts DEF Init, MInv
<1>2. IInv /\ EInv /\ MInv => MemoryBounded
  <2> SUFFICES ASSUME IInv, EInv, MInv,
                      NEW worst \in {0} \cup {BatchesOf(c) : c \in Chunk},
                      \A c \in Chunk : BatchesOf(c) <= worst
               PROVE  InFlight <= config.channel_depth + 1
                                    + config.threads * worst
    BY DEF MemoryBounded
  <2> DEFINE held == UNION {{c} \X DOMAIN parser[c].batches : c \in Busy}
  <2>1. worst \in Nat
    BY BatchesBounded
  <2>2. ASSUME NEW c \in Chunk PROVE DOMAIN parser[c].batches \subseteq 1 .. worst
    <3>1. /\ Len(parser[c].batches) \in Nat /\ BatchesOf(c) \in Nat
          /\ Len(parser[c].batches) <= worst
      BY <2>1, BatchesBounded
    <3>2. parser[c].batches \in Seq(SUBSET Nat)
      BY DEF IInv, TypeOK, WorkersType, ParserState
    <3> QED
      BY <2>1, <3>1, <3>2
  <2>3. Busy \in SUBSET Chunk
    BY DEF Busy
  <2>4. IsFiniteSet(Busy) /\ Cardinality(Busy) \in Nat
    BY <2>3, ChunksFinite
  <2>5. IsFiniteSet(1 .. worst) /\ Cardinality(1 .. worst) = worst
    BY <2>1, FS_Interval
  <2>6. /\ IsFiniteSet(Busy \X (1 .. worst))
        /\ Cardinality(Busy \X (1 .. worst)) = Cardinality(Busy) * worst
    BY <2>4, <2>5, FS_Product
  <2>7. held \in SUBSET (Busy \X (1 .. worst))
    BY <2>2, <2>3
  <2>8. Cardinality(held) \in Nat /\ Cardinality(held) <= Cardinality(Busy) * worst
    BY <2>6, <2>7, FS_Subset, FS_CardinalityType
  <2>9. Cardinality(Busy) * worst <= config.threads * worst
    <3>1. Cardinality(Busy) <= config.threads /\ config.threads \in Nat
      BY SizeFacts DEF MInv
    <3> QED
      BY <2>1, <2>4, <3>1
  <2>10. Len(chan) \in Nat /\ Len(chan) <= config.channel_depth
    BY DEF MInv, IInv, TypeOK
  <2>11. Len(inhand) \in Nat /\ Len(inhand) <= 1
    <3>1. Len(<<>>) = 0 /\ \A b \in Batch : Len(<<b>>) = 1
      OBVIOUS
    <3>2. Len(inhand) = 0 \/ Len(inhand) = 1
      BY <3>1 DEF MInv
    <3>3. \A n : n = 0 \/ n = 1 => n \in Nat /\ n <= 1
      OBVIOUS
    <3> HIDE DEF held
    <3> QED
      BY <3>2, <3>3
  <2>12. InFlight = Cardinality(held) + Len(chan) + Len(inhand)
    BY DEF InFlight
  <2>13. Cardinality(Busy) * worst \in Nat /\ config.threads * worst \in Nat
    <3>1. \A m, n \in Nat : m * n \in Nat
      OBVIOUS
    <3> QED
      BY <2>1, <2>4, <3>1, SizeFacts
  <2> HIDE DEF held
  <2> QED
    BY <2>8, <2>9, <2>10, <2>11, <2>12, <2>13, SizeFacts
<1> QED
  BY <1>1, <1>2, NextMInv, Invariance, KnowsInvariance, PTL DEF Spec

------------------------------------------------------------------------------
\* After Spawn a configured quarantine has its thread; and a call that has
\* returned either started nothing or has left the loop.
Released ==
  /\ config.dead_letter => dl # "none"
  /\ main = "returned" =>
       \/ writer = "unborn" /\ dl \in {"unborn", "none"}
       \/ \A c \in Chunk : pc[c] \in Settled

(***************************************************************************)
(* No step brings a returned call back into the loop, or starts a thread   *)
(* for it.                                                                 *)
(***************************************************************************)
LEMMA NextReleased == IInv /\ Released /\ [Next]_vars => Released'
<1> SUFFICES ASSUME IInv, Released, [Next]_vars PROVE Released'
  OBVIOUS
<1> USE DEF caller, shared, workers, sink, quarantine
<1>1. JoinOrder /\ WorkersType
  BY DEF IInv, TypeOK, Control
<1>2. CASE Alive(Caller)
  <2>1. CASE Spawn
    BY <1>1, <2>1 DEF Spawn, Released
  <2>2. CASE SetupFails
    BY <1>1, <2>2 DEF SetupFails, Return, CallerOnly, Released, JoinOrder
  <2>3. CASE ReturnParseError
    BY <2>3 DEF ReturnParseError, Return, LoopOver, Released
  <2>4. CASE \/ BeginJoin \/ JoinWriter \/ JoinWriterFails
             \/ JoinDead \/ JoinDeadFails
    <3>1. UNCHANGED <<pc, dl>> /\ \A c \in Chunk : pc[c] \in Settled
      BY <1>1, <2>4
      DEF BeginJoin, JoinWriter, AfterWriter, JoinWriterFails, JoinDead,
          JoinDeadFails, CallerOnly, LoopOver, JoinOrder, AllDone, Settled
    <3> QED
      BY <3>1 DEF Released
  <2> QED
    BY <1>2, <2>1, <2>2, <2>3, <2>4 DEF Alive, Caller
<1>3. CASE \E c \in Chunk : Alive(Worker(c))
  <2>1. PICK c \in Chunk : Worker(c)
    BY <1>3 DEF Alive
  <2>2. UNCHANGED <<main, dl>>
    BY <2>1
    DEF Worker, StartChunk, SkipChunk, BlankLine, BadLine, Row, AbortingLine,
        EndChunk, FailChunk, Send, HandOver, SendClosed, ChunkDone
  <2>3. pc[c] \notin Settled /\ (pc[c] = "pending" => main = "parsing")
    BY <2>1
    DEF Worker, StartChunk, SkipChunk, BlankLine, BadLine, Row, AbortingLine,
        EndChunk, FailChunk, Send, HandOver, SendClosed, ChunkDone, AtLine,
        HasBatch, Settled
  <2>4. ~(main = "returned" /\ writer = "unborn")
    BY <2>3 DEF IInv, Control, WriterLife
  <2> QED
    BY <2>2, <2>3, <2>4 DEF Released
<1>4. CASE Alive(Writer)
  <2>1. UNCHANGED <<main, pc, dl>> /\ writer # "unborn"
    BY <1>4
    DEF Alive, Writer, WriterDies, OpenOutput, OpenFails, Receive, WriteBatch,
        WriteFails, CloseOutput, CloseFails
  <2> QED
    BY <2>1 DEF Released
<1>5. CASE Alive(DeadLetter)
  <2>1. UNCHANGED <<main, pc>> /\ dl \in {"opening", "recv"} /\ dl' # "none"
    BY <1>5
    DEF Alive, DeadLetter, DeadDies, OpenDead, OpenDeadFails, WriteDead,
        WriteDeadFails, CloseDead
  <2> QED
    BY <2>1 DEF Released
<1>6. CASE Exit \/ Killed \/ Quiet \/ UNCHANGED vars
  BY <1>6 DEF Exit, Killed, Quiet, vars, Released
<1> QED
  BY <1>2, <1>3, <1>4, <1>5, <1>6 DEF Next

(***************************************************************************)
(* In the loop a chunk that is not settled can always be moved: its worker *)
(* is not waiting, or the writer has a batch to take, or nobody is at work *)
(* and a chunk is there to be taken.                                       *)
(***************************************************************************)
LEMMA LoopMoves ==
  ASSUME IInv, main = "parsing", ~LoopOver
  PROVE  WriterReady \/ \E c \in Chunk : WorkerReady(c)
<1> SUFFICES ASSUME ~WriterReady, \A c \in Chunk : ~WorkerReady(c)
             PROVE  FALSE
  OBVIOUS
<1>1. /\ pc \in [Chunk -> {"pending", "parsing", "failing", "sending"}
                             \cup Settled]
      /\ writer \in {"unborn", "opening", "recv", "writing", "ok", "err"}
      /\ config.threads \in Nat \ {0} /\ config.channel_depth \in Nat
  BY PipelineAssumption
  DEF IInv, TypeOK, WorkersType, SinkType, PipelineConfig
<1>2. CanSend
  <2>1. CASE RxAlive
    <3>1. writer = "recv" /\ chan = <<>>
      BY <2>1 DEF RxAlive, WriterReady
    <3>2. Len(chan) = 0
      BY <3>1
    <3> QED
      BY <1>1, <3>1, <3>2 DEF CanSend
  <2> QED
    BY <2>1 DEF CanSend
<1>3. \A c \in Chunk : pc[c] \in {"pending"} \cup Settled
  BY <1>1, <1>2 DEF WorkerReady
<1>4. Busy = {}
  BY <1>3 DEF Busy
<1>5. Cardinality(Busy) < config.threads
  BY <1>1, <1>4, FS_EmptySet
<1>6. PICK c \in Chunk : pc[c] = "pending"
  BY <1>3 DEF LoopOver
<1> QED
  BY <1>5, <1>6 DEF WorkerReady

(***************************************************************************)
(* The pipeline cannot deadlock, whatever the depth of the channel (0, the *)
(* rendezvous, included), the number of threads and the failures: a worker *)
(* that waits for a slot has a writer that can take a batch, and a caller  *)
(* that waits for a thread has let go of the senders it waits on.          *)
(***************************************************************************)
THEOREM NobodyWaitsForEver == Spec => []NeverStuck
<1>1. Init => Released
  BY DEF Init, Released
<1>2. Spec => []Released
  BY <1>1, NextReleased, Invariance, PTL DEF Spec
<1>3. IInv /\ Released => NeverStuck
  <2> SUFFICES ASSUME IInv, Released, main # "returned" \/ RxAlive \/ DlAlive
               PROVE  \/ CallerReady \/ WriterReady \/ DeadLetterReady
                      \/ \E c \in Chunk : WorkerReady(c)
    BY DEF NeverStuck
  <2>1. /\ JoinOrder
        /\ main \in {"setup", "parsing", "join_writer", "join_dl", "returned"}
        /\ writer \in {"unborn", "opening", "recv", "writing", "ok", "err"}
        /\ dl \in {"unborn", "none", "opening", "recv", "ok", "err"}
    BY DEF IInv, TypeOK, Control, CallerType, SinkType, QuarantineType
  <2>2. ASSUME main # "setup", \A c \in Chunk : pc[c] \in Settled
        PROVE  /\ RxAlive => WriterReady
               /\ DlAlive => DeadLetterReady
    BY <2>2
    DEF RxAlive, DlAlive, WriterReady, DeadLetterReady, SendersGone, LoopOver
  <2>3. CASE main = "setup"
    BY <2>3 DEF CallerReady
  <2>4. CASE main = "parsing"
    BY <2>4, LoopMoves DEF CallerReady
  <2>5. CASE main \in {"join_writer", "join_dl"}
    <3>1. \A c \in Chunk : pc[c] \in Settled
      BY <2>1, <2>5 DEF JoinOrder, AllDone, Settled
    <3>2. CASE main = "join_writer"
      BY <2>1, <2>2, <3>1, <3>2 DEF JoinOrder, CallerReady, RxAlive
    <3>3. CASE main = "join_dl"
      BY <2>1, <2>2, <3>1, <3>3 DEF JoinOrder, Released, CallerReady, DlAlive
    <3> QED
      BY <2>5, <3>2, <3>3
  <2>6. CASE main = "returned"
    <3>1. RxAlive \/ DlAlive
      BY <2>6
    <3>2. \A c \in Chunk : pc[c] \in Settled
      BY <2>6, <3>1 DEF Released, RxAlive, DlAlive
    <3> QED
      BY <2>2, <2>6, <3>1, <3>2
  <2> QED
    BY <2>1, <2>3, <2>4, <2>5, <2>6
<1> QED
  BY <1>2, <1>3, Invariance, PTL

------------------------------------------------------------------------------
\* What a chunk has ahead of it: at most three steps a line, one a batch.
ChunkLeft(c) ==
  LET p == parser[c]
      reading == 3 * (Len(Input[c]) - p.line) + Len(p.batches)
  IN  CASE pc[c] = "pending" -> reading + 4
        [] pc[c] = "parsing" -> reading + 3
        [] pc[c] = "sending" -> Len(p.batches) + 1
        [] pc[c] = "failing" -> 1
        [] OTHER             -> 0

\* What the caller, the writer and the dead-letter thread have.
CallerLeft ==
  CASE main = "setup"       -> 4
    [] main = "parsing"     -> 3
    [] main = "join_writer" -> 2
    [] main = "join_dl"     -> 1
    [] OTHER                -> 0

WriterPhase ==
  CASE writer = "unborn"  -> 4
    [] writer = "opening" -> 3
    [] writer = "writing" -> 2
    [] writer = "recv"    -> 1
    [] OTHER              -> 0

WriterLeft == WriterPhase + 2 * Len(chan)

DeadLetterPhase ==
  CASE dl = "unborn"  -> 3
    [] dl = "opening" -> 2
    [] dl = "recv"    -> 1
    [] OTHER          -> 0

DeadLetterLeft == DeadLetterPhase + Len(dlq)

ProcessLeft == IF exited THEN 0 ELSE 1

ThreadsLeft == CallerLeft + WriterLeft + DeadLetterLeft + ProcessLeft

\* One chunk comes closer to its end, or none moves and the threads do.
Nearer ==
  \/ \E c \in Chunk : /\ ChunkLeft(c)' < ChunkLeft(c)
                      /\ \A d \in Chunk \ {c} : ChunkLeft(d)' = ChunkLeft(d)
  \/ /\ \A c \in Chunk : ChunkLeft(c)' = ChunkLeft(c)
     /\ ThreadsLeft' < ThreadsLeft

(***************************************************************************)
(* The parts of what is left for the threads are numbers.                  *)
(***************************************************************************)
LEMMA PhasesAreNat ==
  ASSUME chan \in Seq(Batch), dlq \in Seq(Place)
  PROVE  /\ CallerLeft \in Nat /\ WriterLeft \in Nat
         /\ DeadLetterLeft \in Nat /\ ProcessLeft \in Nat
         /\ WriterPhase \in Nat /\ DeadLetterPhase \in Nat
         /\ Len(chan) \in Nat /\ Len(dlq) \in Nat
<1>1. /\ CallerLeft \in Nat /\ WriterPhase \in Nat
      /\ DeadLetterPhase \in Nat /\ ProcessLeft \in Nat
  BY DEF CallerLeft, WriterPhase, DeadLetterPhase, ProcessLeft
<1>2. Len(chan) \in Nat /\ Len(dlq) \in Nat
  OBVIOUS
<1> QED
  BY <1>1, <1>2 DEF WriterLeft, DeadLetterLeft

(***************************************************************************)
(* So is what is left.                                                     *)
(***************************************************************************)
LEMMA LeftIsNat ==
  ASSUME IInv, EInv
  PROVE  ThreadsLeft \in Nat /\ \A c \in Chunk : ChunkLeft(c) \in Nat
<1>1. ASSUME NEW c \in Chunk PROVE ChunkLeft(c) \in Nat
  <2> DEFINE left == Len(Input[c]) - parser[c].line
             n == Len(parser[c].batches)
  <2>1. parser[c] \in ParserState /\ parser[c].line <= Len(Input[c])
    BY DEF IInv, TypeOK, WorkersType, EInv, AllKnow, Knows, Faithful
  <2>2. left \in Nat /\ n \in Nat
    BY <2>1, ChunkFacts DEF ParserState
  <2>3. ChunkLeft(c) \in {3 * left + n + 4, 3 * left + n + 3, n + 1, 1, 0}
    BY DEF ChunkLeft
  <2> HIDE DEF left, n
  <2> QED
    BY <2>2, <2>3
<1>2. chan \in Seq(Batch) /\ dlq \in Seq(Place)
  BY DEF IInv, TypeOK, QuarantineType
<1>3. \A i, j, k, l \in Nat : i + j + k + l \in Nat
  OBVIOUS
<1>4. ThreadsLeft \in Nat
  BY <1>2, <1>3, PhasesAreNat DEF ThreadsLeft
<1> QED
  BY <1>1, <1>4

(***************************************************************************)
(* A line, and the end of a chunk, make one batch at most.                 *)
(***************************************************************************)
LEMMA OneBatchAtMost ==
  ASSUME NEW p \in ParserState, NEW lines,
         NEW q \in {AddRow(config, lines, p), Finish(lines, p)}
  PROVE  Len(q.batches) \in Nat /\ Len(q.batches) <= Len(p.batches) + 1
<1>1. p.batches \in Seq(SUBSET Nat)
  BY DEF ParserState
<1>2. ASSUME NEW r \in ParserState, r.batches = p.batches
      PROVE  LET f == Flush(lines, r)
             IN  Len(f.batches) \in Nat /\ Len(f.batches) <= Len(p.batches) + 1
  <2> DEFINE f == Flush(lines, r)
  <2>1. f.batches = p.batches \/ f.batches = Append(p.batches, r.open)
    BY <1>2, FlushOutcome
  <2>2. r.open \in SUBSET Nat
    BY DEF ParserState
  <2> HIDE DEF f
  <2>3. Len(f.batches) \in Nat /\ Len(f.batches) <= Len(p.batches) + 1
    BY <1>1, <2>1, <2>2
  <2> QED
    BY <2>3 DEF f
<1>3. CASE q = AddRow(config, lines, p)
  <2>1. PICK r \in ParserState :
          /\ r.batches = p.batches
          /\ q = IF Cardinality(r.open) >= config.batch_size
                 THEN Flush(lines, r) ELSE r
    BY <1>3, AddRowOutcome
  <2> QED
    BY <1>1, <1>2, <2>1
<1>4. CASE q = Finish(lines, p)
  BY <1>1, <1>2, <1>4 DEF Finish
<1> QED
  BY <1>3, <1>4

(***************************************************************************)
(* A worker's step brings its chunk nearer to the end and no other.        *)
(***************************************************************************)
LEMMA WorkerNearer ==
  ASSUME IInv, EInv, NEW c \in Chunk, Worker(c)
  PROVE  /\ ChunkLeft(c)' < ChunkLeft(c)
         /\ \A d \in Chunk \ {c} : ChunkLeft(d)' = ChunkLeft(d)
<1> DEFINE p == parser[c]
           L == Len(Input[c])
           l == p.line
           n == Len(p.batches)
<1>1. /\ WorkersType /\ p \in ParserState /\ L \in Nat
      /\ l \in Nat /\ n \in Nat /\ l <= L
      /\ p.batches \in Seq(SUBSET Nat)
  <2>1. /\ WorkersType /\ p \in ParserState /\ p.line <= Len(Input[c])
    BY DEF IInv, TypeOK, WorkersType, EInv, AllKnow, Knows, Faithful
  <2> QED
    BY <2>1, ChunkFacts DEF ParserState
<1>2. /\ pc \in [Chunk -> {"pending", "parsing", "failing", "sending"}
                            \cup Settled]
      /\ parser \in [Chunk -> ParserState]
  BY <1>1 DEF WorkersType
<1>3. ASSUME \A d \in Chunk \ {c} : parser'[d] = parser[d] /\ pc'[d] = pc[d]
      PROVE  \A d \in Chunk \ {c} : ChunkLeft(d)' = ChunkLeft(d)
  BY <1>3 DEF ChunkLeft
<1>4. CASE StartChunk(c) \/ SkipChunk(c) \/ FailChunk(c) \/ ChunkDone(c)
  <2>1. /\ parser' = parser
        /\ \E v \in {"parsing", "skipped", "failed", "done"} :
             pc' = [pc EXCEPT ![c] = v]
    BY <1>4 DEF StartChunk, SkipChunk, FailChunk, ChunkDone
  <2>2. \A d \in Chunk \ {c} : parser'[d] = parser[d] /\ pc'[d] = pc[d]
    BY <1>2, <2>1
  <2>3. \/ pc[c] = "pending" /\ pc'[c] \in {"parsing", "skipped"}
        \/ pc[c] = "failing" /\ pc'[c] = "failed"
        \/ pc[c] = "sending" /\ pc'[c] = "done"
    BY <1>2, <1>4 DEF StartChunk, SkipChunk, FailChunk, ChunkDone
  <2>4. ChunkLeft(c)' < ChunkLeft(c)
    <3> DEFINE reading == 3 * (L - l) + n
    <3>1. reading \in Nat
      <4>1. \A i, j, k \in Nat : j <= i => 3 * (i - j) + k \in Nat
        OBVIOUS
      <4> HIDE DEF L, l, n
      <4> QED
        BY <1>1, <4>1
    <3>2. parser'[c] = p
      BY <2>1
    <3>3. CASE pc[c] = "pending"
      <4>1. ChunkLeft(c) = reading + 4 /\ ChunkLeft(c)' \in {reading + 3, 0}
        BY <2>3, <3>2, <3>3 DEF ChunkLeft, Settled
      <4> HIDE DEF reading
      <4>2. reading + 3 < reading + 4 /\ 0 < reading + 4
        BY <3>1
      <4> QED
        BY <4>1, <4>2, Zenon
    <3>4. CASE pc[c] = "sending"
      <4>1. ChunkLeft(c) = n + 1 /\ ChunkLeft(c)' = 0
        BY <2>3, <3>2, <3>4 DEF ChunkLeft
      <4>2. 0 < n + 1
        BY <1>1
      <4> QED
        BY <4>1, <4>2, Zenon
    <3>5. CASE pc[c] = "failing"
      BY <2>3, <3>5 DEF ChunkLeft
    <3> QED
      BY <2>3, <3>3, <3>4, <3>5
  <2> QED
    BY <1>3, <2>2, <2>4
\* A step from p to q that reads a line.
<1>5. ASSUME AtLine(c), NEW q \in ParserState, Proceed(c, q, "parsing"),
             q.line = p.line + 1, Len(q.batches) <= Len(p.batches) + 1
      PROVE  /\ ChunkLeft(c)' < ChunkLeft(c)
             /\ \A d \in Chunk \ {c} : ChunkLeft(d)' = ChunkLeft(d)
  <2>1. /\ parser'[c] = q /\ pc'[c] \in {"parsing", "failing"}
        /\ \A d \in Chunk \ {c} : parser'[d] = parser[d] /\ pc'[d] = pc[d]
    BY <1>1, <1>5, ProceedType
  <2>2. Len(q.batches) \in Nat
    BY DEF ParserState
  <2>3. pc[c] = "parsing" /\ l < L
    BY <1>5 DEF AtLine, More
  <2>4. /\ 3 * (L - (l + 1)) + Len(q.batches) + 3 < 3 * (L - l) + n + 3
        /\ 1 < 3 * (L - l) + n + 3
    <3> DEFINE m == Len(q.batches)
    <3>1. L \in Nat /\ l \in Nat /\ n \in Nat /\ m \in Nat /\ l < L /\ m <= n + 1
      BY <1>1, <1>5, <2>2, <2>3
    <3> HIDE DEF L, l, n, m
    <3>2. /\ 3 * (L - (l + 1)) + m + 3 < 3 * (L - l) + n + 3
          /\ 1 < 3 * (L - l) + n + 3
      BY <3>1
    <3> QED
      BY <3>2 DEF m
  <2>6. ChunkLeft(c) = 3 * (L - l) + n + 3
    BY <2>3 DEF ChunkLeft
  <2>7. ChunkLeft(c)' \in {3 * (L - (l + 1)) + Len(q.batches) + 3, 1}
    BY <1>5, <2>1 DEF ChunkLeft
  <2>8. ChunkLeft(c)' < ChunkLeft(c)
    BY <2>4, <2>6, <2>7, Zenon
  <2> QED
    BY <1>3, <2>1, <2>8
<1>6. CASE BlankLine(c) \/ BadLine(c) \/ AbortingLine(c)
  <2>1. PICK q \in {PassBlank(p), SkipLine(p), Abort(Line(c), p)} :
          Proceed(c, q, "parsing") /\ AtLine(c)
    BY <1>6 DEF BlankLine, BadLine, AbortingLine
  <2>2. q \in ParserState /\ q.line = p.line + 1 /\ q.batches = p.batches
    <3> DEFINE line == Line(c)
    <3> HIDE DEF line
    <3>1. q \in {PassBlank(p), SkipLine(p), Abort(line, p)}
      BY <2>1 DEF line
    <3>2. p \in ParserState
      BY <1>1
    <3> HIDE DEF p
    <3> QED
      BY <3>1, <3>2, SkipFields
  <2>3. Len(q.batches) <= Len(p.batches) + 1
    BY <1>1, <2>2
  <2> QED
    BY <1>5, <2>1, <2>2, <2>3
<1>7. CASE Row(c)
  <2> DEFINE q == AddRow(config, Input[c], p)
  <2>1. q \in ParserState /\ q.line = p.line + 1
    BY <1>1, AddRowAdds
  <2>2. Len(q.batches) <= Len(p.batches) + 1
    BY <1>1, OneBatchAtMost
  <2>3. Proceed(c, q, "parsing") /\ AtLine(c)
    BY <1>7 DEF Row
  <2> HIDE DEF q
  <2> QED
    BY <1>5, <2>1, <2>2, <2>3
<1>8. CASE EndChunk(c)
  <2> DEFINE q == Finish(Input[c], p)
  <2>1. q \in ParserState
    BY <1>1, FinishMoves
  <2>2. Len(q.batches) \in Nat /\ Len(q.batches) <= Len(p.batches) + 1
    BY <1>1, OneBatchAtMost
  <2>3. Proceed(c, q, "sending") /\ pc[c] = "parsing"
    BY <1>8 DEF EndChunk
  <2> HIDE DEF q
  <2>4. /\ parser'[c] = q /\ pc'[c] \in {"sending", "failing"}
        /\ \A d \in Chunk \ {c} : parser'[d] = parser[d] /\ pc'[d] = pc[d]
    BY <1>1, <2>1, <2>3, ProceedType
  <2>5. ChunkLeft(c) = 3 * (L - l) + n + 3
    BY <2>3 DEF ChunkLeft
  <2>6. ChunkLeft(c)' \in {Len(q.batches) + 1, 1}
    BY <2>4 DEF ChunkLeft
  <2>7. ChunkLeft(c)' < ChunkLeft(c)
    <3> DEFINE m == Len(q.batches)
    <3>1. /\ L \in Nat /\ l \in Nat /\ n \in Nat /\ m \in Nat
          /\ l <= L /\ m <= n + 1
      BY <1>1, <2>2
    <3> HIDE DEF L, l, n, m
    <3>2. m + 1 < 3 * (L - l) + n + 3 /\ 1 < 3 * (L - l) + n + 3
      BY <3>1
    <3>3. ChunkLeft(c)' \in {m + 1, 1}
      BY <2>6 DEF m
    <3> QED
      BY <2>5, <3>2, <3>3, Zenon
  <2> QED
    BY <1>3, <2>4, <2>7
<1>9. CASE Send(c) \/ HandOver(c) \/ SendClosed(c)
  <2>1. HasBatch(c) /\ DropBatch(c) /\ pc' = pc
    BY <1>9 DEF Send, HandOver, SendClosed, workers
  <2>2. /\ parser'[c].batches = Tail(p.batches)
        /\ \A d \in Chunk \ {c} : parser'[d] = parser[d]
    BY <1>1, <2>1, DropType
  <2>3. pc[c] = "sending" /\ p.batches # <<>>
    BY <2>1 DEF HasBatch
  <2>4. Len(Tail(p.batches)) < n
    BY <1>1, <2>3
  <2>5. Len(Tail(p.batches)) \in Nat
    BY <1>1, <2>3
  <2>6. ChunkLeft(c) = n + 1 /\ ChunkLeft(c)' = Len(Tail(p.batches)) + 1
    BY <2>1, <2>2, <2>3 DEF ChunkLeft
  <2>7. ChunkLeft(c)' < ChunkLeft(c)
    BY <1>1, <2>4, <2>5, <2>6
  <2> QED
    BY <1>3, <2>1, <2>2, <2>7
<1> QED
  BY <1>4, <1>6, <1>7, <1>8, <1>9 DEF Worker

(***************************************************************************)
(* A sum falls when one of its terms does and no other rises.              *)
(***************************************************************************)
LEMMA SumFalls ==
  ASSUME NEW a \in Nat, NEW b \in Nat, NEW c \in Nat, NEW d \in Nat,
         NEW e \in Nat, NEW f \in Nat, NEW g \in Nat, NEW h \in Nat,
         e = a \/ e < a, f = b \/ f < b, g = c \/ g < c, h = d \/ h < d,
         e < a \/ f < b \/ g < c \/ h < d
  PROVE  e + f + g + h < a + b + c + d
  OBVIOUS

(***************************************************************************)
(* What a thread has left falls with its phase, if its queue is no longer  *)
(* than before, and with its queue: a batch the writer receives costs it   *)
(* one step more.                                                          *)
(***************************************************************************)
LEMMA PhaseFalls ==
  ASSUME NEW a \in Nat, NEW b \in Nat, NEW e \in Nat, NEW f \in Nat
  PROVE  /\ e < a /\ (f = b \/ f < b) => e + f < a + b /\ e + 2 * f < a + 2 * b
         /\ e = a /\ f < b => e + f < a + b
         /\ e = a + 1 /\ f < b => e + 2 * f < a + 2 * b
  OBVIOUS

(***************************************************************************)
(* A step of the caller, of the writer or of the dead-letter thread brings *)
(* the threads nearer to their ends.                                       *)
(***************************************************************************)
LEMMA ThreadsNearer ==
  ASSUME IInv, IInv',
         \/ ~exited /\ UNCHANGED exited /\ (Caller \/ Writer \/ DeadLetter)
         \/ Exit \/ Killed
  PROVE  pc' = pc /\ parser' = parser /\ ThreadsLeft' < ThreadsLeft
<1> USE DEF caller, shared, workers, sink, quarantine
<1>1. JoinOrder /\ chan \in Seq(Batch) /\ dlq \in Seq(Place)
  BY DEF IInv, TypeOK, QuarantineType, Control
<1>2. /\ CallerLeft \in Nat /\ WriterLeft \in Nat
      /\ DeadLetterLeft \in Nat /\ ProcessLeft \in Nat
      /\ WriterPhase \in Nat /\ DeadLetterPhase \in Nat
      /\ Len(chan) \in Nat /\ Len(dlq) \in Nat
  BY <1>1, PhasesAreNat
<1>3. /\ CallerLeft' \in Nat /\ WriterLeft' \in Nat
      /\ DeadLetterLeft' \in Nat /\ ProcessLeft' \in Nat
      /\ WriterPhase' \in Nat /\ DeadLetterPhase' \in Nat
      /\ Len(chan') \in Nat /\ Len(dlq') \in Nat
  <2>1. chan' \in Seq(Batch) /\ dlq' \in Seq(Place)
    BY DEF IInv, TypeOK, QuarantineType, Batch, Place
  <2>2. /\ CallerLeft' \in Nat /\ WriterPhase' \in Nat
        /\ DeadLetterPhase' \in Nat /\ ProcessLeft' \in Nat
    BY DEF CallerLeft, WriterPhase, DeadLetterPhase, ProcessLeft
  <2>3. Len(chan') \in Nat /\ Len(dlq') \in Nat
    BY <2>1
  <2> QED
    BY <2>2, <2>3 DEF WriterLeft, DeadLetterLeft
<1>4. ASSUME CallerLeft' = CallerLeft \/ CallerLeft' < CallerLeft,
             WriterLeft' = WriterLeft \/ WriterLeft' < WriterLeft,
             DeadLetterLeft' = DeadLetterLeft
               \/ DeadLetterLeft' < DeadLetterLeft,
             ProcessLeft' = ProcessLeft \/ ProcessLeft' < ProcessLeft,
             \/ CallerLeft' < CallerLeft \/ WriterLeft' < WriterLeft
             \/ DeadLetterLeft' < DeadLetterLeft \/ ProcessLeft' < ProcessLeft
      PROVE  ThreadsLeft' < ThreadsLeft
  <2>1. CallerLeft' + WriterLeft' + DeadLetterLeft' + ProcessLeft'
          < CallerLeft + WriterLeft + DeadLetterLeft + ProcessLeft
    BY <1>2, <1>3, <1>4, SumFalls
  <2> QED
    BY <2>1, Zenon DEF ThreadsLeft
<1>5. CASE UNCHANGED exited /\ Caller
  <2>1. pc' = pc /\ parser' = parser /\ chan' = chan /\ dlq' = dlq
        /\ ProcessLeft' = ProcessLeft
    BY <1>5 DEF Caller, Spawn, SetupFails, BeginJoin, ReturnParseError,
                JoinWriter, AfterWriter, JoinWriterFails, JoinDead,
                JoinDeadFails, CallerOnly, ProcessLeft
  <2>2. CallerLeft' < CallerLeft
    BY <1>5 DEF Caller, Spawn, SetupFails, BeginJoin, ReturnParseError,
                JoinWriter, AfterWriter, JoinWriterFails, JoinDead,
                JoinDeadFails, Return, CallerLeft
  <2>3. CASE Spawn
    <3>1. WriterPhase' < WriterPhase /\ DeadLetterPhase' < DeadLetterPhase
      BY <1>1, <2>3 DEF Spawn, JoinOrder, WriterPhase, DeadLetterPhase
    <3>2. WriterLeft' < WriterLeft
      BY <1>2, <1>3, <2>1, <3>1, PhaseFalls DEF WriterLeft
    <3>3. DeadLetterLeft' < DeadLetterLeft
      BY <1>2, <1>3, <2>1, <3>1, PhaseFalls DEF DeadLetterLeft
    <3> QED
      BY <1>4, <2>1, <2>2, <3>2, <3>3, Zenon
  <2>4. CASE ~Spawn
    <3>1. writer' = writer /\ dl' = dl
      BY <1>5, <2>4
      DEF Caller, SetupFails, BeginJoin, ReturnParseError, JoinWriter,
          AfterWriter, JoinWriterFails, JoinDead, JoinDeadFails, CallerOnly
    <3>2. WriterLeft' = WriterLeft /\ DeadLetterLeft' = DeadLetterLeft
      BY <2>1, <3>1
      DEF WriterLeft, WriterPhase, DeadLetterLeft, DeadLetterPhase
    <3> QED
      BY <1>4, <2>1, <2>2, <3>2, Zenon
  <2> QED
    BY <2>3, <2>4
<1>6. CASE UNCHANGED exited /\ Writer
  <2>1. /\ pc' = pc /\ parser' = parser /\ main' = main /\ dl' = dl
        /\ dlq' = dlq /\ ProcessLeft' = ProcessLeft
    BY <1>6 DEF Writer, WriterDies, OpenOutput, OpenFails, Receive,
                WriteBatch, WriteFails, CloseOutput, CloseFails, ProcessLeft
  <2>2. CallerLeft' = CallerLeft /\ DeadLetterLeft' = DeadLetterLeft
    BY <2>1 DEF CallerLeft, DeadLetterLeft, DeadLetterPhase
  <2>3. CASE Receive
    <3>1. chan # <<>> /\ chan' = Tail(chan)
      BY <2>3 DEF Receive
    <3>2. Len(chan') < Len(chan)
      BY <1>1, <3>1
    <3>3. WriterPhase' = WriterPhase + 1
      BY <2>3 DEF Receive, WriterPhase
    <3>4. WriterLeft' < WriterLeft
      BY <1>2, <1>3, <3>2, <3>3, PhaseFalls DEF WriterLeft
    <3> QED
      BY <1>4, <2>1, <2>2, <3>4, Zenon
  <2>4. CASE ~Receive
    <3>1. WriterPhase' < WriterPhase
      BY <1>6, <2>4
      DEF Writer, WriterDies, OpenOutput, OpenFails, WriteBatch, WriteFails,
          CloseOutput, CloseFails, WriterPhase
    <3>2. chan' = chan \/ chan' = <<>>
      BY <1>6, <2>4
      DEF Writer, WriterDies, OpenOutput, OpenFails, WriteBatch, WriteFails,
          CloseOutput, CloseFails
    <3>3. Len(chan') = Len(chan) \/ Len(chan') < Len(chan)
      BY <1>1, <3>2
    <3>4. WriterLeft' < WriterLeft
      BY <1>2, <1>3, <3>1, <3>3, PhaseFalls DEF WriterLeft
    <3> QED
      BY <1>4, <2>1, <2>2, <3>4, Zenon
  <2> QED
    BY <2>3, <2>4
<1>7. CASE UNCHANGED exited /\ DeadLetter
  <2>1. /\ pc' = pc /\ parser' = parser /\ main' = main /\ writer' = writer
        /\ chan' = chan /\ ProcessLeft' = ProcessLeft
    BY <1>7 DEF DeadLetter, DeadDies, OpenDead, OpenDeadFails, WriteDead,
                WriteDeadFails, CloseDead, ProcessLeft
  <2>2. CallerLeft' = CallerLeft /\ WriterLeft' = WriterLeft
    BY <2>1 DEF CallerLeft, WriterLeft, WriterPhase
  <2>3. CASE WriteDead
    <3>1. dlq # <<>> /\ dlq' = Tail(dlq) /\ dl' = dl
      BY <2>3 DEF WriteDead
    <3>2. Len(dlq') < Len(dlq)
      BY <1>1, <3>1
    <3>3. DeadLetterPhase' = DeadLetterPhase
      BY <3>1 DEF DeadLetterPhase
    <3>4. DeadLetterLeft' < DeadLetterLeft
      BY <1>2, <1>3, <3>2, <3>3, PhaseFalls DEF DeadLetterLeft
    <3> QED
      BY <1>4, <2>1, <2>2, <3>4, Zenon
  <2>4. CASE ~WriteDead
    <3>1. DeadLetterPhase' < DeadLetterPhase
      BY <1>7, <2>4
      DEF DeadLetter, DeadDies, OpenDead, OpenDeadFails, WriteDeadFails,
          CloseDead, DeadLetterPhase
    <3>2. dlq' = dlq \/ dlq' = <<>>
      BY <1>7, <2>4
      DEF DeadLetter, DeadDies, OpenDead, OpenDeadFails, WriteDeadFails,
          CloseDead
    <3>3. Len(dlq') = Len(dlq) \/ Len(dlq') < Len(dlq)
      BY <1>1, <3>2
    <3>4. DeadLetterLeft' < DeadLetterLeft
      BY <1>2, <1>3, <3>1, <3>3, PhaseFalls DEF DeadLetterLeft
    <3> QED
      BY <1>4, <2>1, <2>2, <3>4, Zenon
  <2> QED
    BY <2>3, <2>4
<1>8. CASE Exit \/ Killed
  <2>1. /\ pc' = pc /\ parser' = parser /\ main' = main /\ writer' = writer
        /\ chan' = chan /\ dl' = dl /\ dlq' = dlq
    BY <1>8 DEF Exit, Killed
  <2>2. /\ CallerLeft' = CallerLeft /\ WriterLeft' = WriterLeft
        /\ DeadLetterLeft' = DeadLetterLeft
    BY <2>1 DEF CallerLeft, WriterLeft, DeadLetterLeft, WriterPhase,
                DeadLetterPhase
  <2>3. ProcessLeft' < ProcessLeft
    BY <1>8 DEF Exit, Killed, ProcessLeft
  <2> QED
    BY <1>4, <2>1, <2>2, <2>3, Zenon
<1> QED
  BY <1>5, <1>6, <1>7, <1>8

(***************************************************************************)
(* Every step of every thread uses up some of what is left, first of the   *)
(* chunks and then of the threads: nobody polls, retries or takes a chunk  *)
(* twice, so no schedule, fair or not, keeps run_pipeline busy for ever.   *)
(* With NobodyWaitsForEver this is what Returns says, without its fairness *)
(* and for every input.                                                    *)
(***************************************************************************)
THEOREM EveryStepNearer ==
  Spec => /\ [](ThreadsLeft \in Nat /\ \A c \in Chunk : ChunkLeft(c) \in Nat)
          /\ [][Nearer]_vars
<1>1. IInv /\ EInv => ThreadsLeft \in Nat /\ \A c \in Chunk : ChunkLeft(c) \in Nat
  BY LeftIsNat
<1>2. IInv /\ EInv /\ [Next]_vars => [Nearer]_vars
  <2> SUFFICES ASSUME IInv, EInv, Next, vars' # vars PROVE Nearer
    OBVIOUS
  <2>1. CASE \E c \in Chunk : Alive(Worker(c))
    <3>1. PICK c \in Chunk : Worker(c)
      BY <2>1 DEF Alive
    <3> QED
      BY <3>1, WorkerNearer DEF Nearer
  <2>2. CASE \/ Alive(Caller) \/ Alive(Writer) \/ Alive(DeadLetter)
             \/ Exit \/ Killed
    <3>1. IInv'
      BY NextIInv
    <3>2. pc' = pc /\ parser' = parser /\ ThreadsLeft' < ThreadsLeft
      BY <2>2, <3>1, ThreadsNearer DEF Alive
    <3>3. \A c \in Chunk : ChunkLeft(c)' = ChunkLeft(c)
      BY <3>2 DEF ChunkLeft
    <3> QED
      BY <3>2, <3>3 DEF Nearer
  <2>3. ~Quiet
    BY DEF Quiet
  <2> QED
    BY <2>1, <2>2, <2>3 DEF Next
<1> QED
  BY <1>1, <1>2, Invariance, KnowsInvariance, PTL DEF Spec
==============================================================================
