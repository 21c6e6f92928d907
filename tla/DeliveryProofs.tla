---------------------------- MODULE DeliveryProofs ----------------------------
(***************************************************************************)
(* What Pipeline delivers.  First a row's way: builders, batches of the    *)
(* chunk, channel, the writer's hand, the file; none is lost on it.  Then  *)
(* DInv: which chunks are sent, what was counted, in which order their     *)
(* batches travel, and where a rejected line is.  From these and what each *)
(* parser knows follow the promises of a successful run and the refinement *)
(* of Conversion.                                                          *)
(***************************************************************************)
EXTENDS PipelineProofs

(***************************************************************************)
(* A sequence of one batch holds its rows.                                 *)
(***************************************************************************)
LEMMA ContentsOne == ASSUME NEW b PROVE Contents(<<b>>) = b
  BY DEF Contents

(***************************************************************************)
(* Appending what the writer holds, at most one batch, to the file.        *)
(***************************************************************************)
LEMMA ContentsConcat ==
  ASSUME NEW T, NEW s \in Seq(T), NEW t \in Seq(T)
  PROVE  Contents(s) \cup Contents(t) \subseteq Contents(s \o t)
<1> DEFINE st == s \o t
<1>1. /\ Len(s) \in Nat /\ Len(t) \in Nat
      /\ DOMAIN s = 1 .. Len(s) /\ DOMAIN t = 1 .. Len(t)
      /\ DOMAIN st = 1 .. Len(s) + Len(t)
      /\ \A i \in 1 .. Len(s) : st[i] = s[i]
      /\ \A i \in 1 .. Len(t) : st[Len(s) + i] = t[i]
  OBVIOUS
<1>2. ASSUME NEW i \in DOMAIN s PROVE s[i] \subseteq Contents(st)
  <2>1. i \in DOMAIN st /\ st[i] = s[i]
    BY <1>1
  <2> QED
    BY <2>1 DEF Contents
<1>3. ASSUME NEW i \in DOMAIN t PROVE t[i] \subseteq Contents(st)
  <2>1. Len(s) + i \in DOMAIN st /\ st[Len(s) + i] = t[i]
    BY <1>1
  <2> QED
    BY <2>1 DEF Contents
<1> QED
  BY <1>2, <1>3 DEF Contents

------------------------------------------------------------------------------
\* What NothingLost says of one chunk.
KeptRows(c) ==
  pc[c] \notin {"failing", "failed"} =>
    Tagged(c, RowsSoFar(c)) \subseteq Held(c) \cup InTransit

(***************************************************************************)
(* A batch handed over, by the channel or from hand to hand, is in transit *)
(* and nothing that was stays behind.                                      *)
(***************************************************************************)
LEMMA BatchesMoveOn ==
  ASSUME IInv, NEW c \in Chunk, Send(c) \/ HandOver(c)
  PROVE  InTransit' = InTransit \cup NextBatch(c)
<1> USE DEF caller, shared, workers, sink, quarantine
<1>1. WorkersType /\ chan \in Seq(Batch) /\ WriterLife
  BY DEF IInv, TypeOK, Control
<1>2. NextBatch(c) \in Batch
  BY <1>1, DropType DEF Send, HandOver
<1>3. CASE Send(c)
  <2>1. Contents(chan') = Contents(chan) \cup NextBatch(c)
    BY <1>1, <1>2, <1>3, ContentsAppend DEF Send
  <2>2. UNCHANGED <<inhand, written>>
    BY <1>3 DEF Send
  <2> QED
    BY <2>1, <2>2 DEF InTransit
<1>4. CASE HandOver(c)
  <2>1. inhand = <<>> /\ inhand' = <<NextBatch(c)>>
    BY <1>1, <1>4 DEF HandOver, WriterLife
  <2>2. Contents(inhand) = {} /\ Contents(inhand') = NextBatch(c)
    BY <2>1, ContentsOne DEF Contents
  <2>3. UNCHANGED <<chan, written>>
    BY <1>4 DEF HandOver
  <2> QED
    BY <2>2, <2>3 DEF InTransit
<1> QED
  BY <1>3, <1>4

(***************************************************************************)
(* Until it dies, the writer thread drops nothing that reached it.         *)
(***************************************************************************)
LEMMA WriterKeepsBatches ==
  ASSUME IInv, Writer, writer' # "err"
  PROVE  InTransit \subseteq InTransit'
<1> USE DEF caller, shared, workers, sink, quarantine
<1>1. /\ chan \in Seq(Batch) /\ written \in Seq(Batch)
      /\ inhand \in Seq(Batch) /\ WriterLife
  BY DEF IInv, TypeOK, SinkType, Control
<1>2. CASE Receive
  <2>1. Contents(chan) = Head(chan) \cup Contents(chan')
    BY <1>1, <1>2, ContentsHeadTail DEF Receive
  <2>2. Contents(inhand) = {} /\ Contents(inhand') = Head(chan)
    BY <1>1, <1>2, ContentsOne DEF Receive, WriterLife, Contents
  <2>3. written' = written
    BY <1>2 DEF Receive
  <2> QED
    BY <2>1, <2>2, <2>3 DEF InTransit
<1>3. CASE WriteBatch
  <2>1. Contents(written) \cup Contents(inhand) \subseteq Contents(written')
    BY <1>1, <1>3, ContentsConcat DEF WriteBatch
  <2>2. chan' = chan
    BY <1>3 DEF WriteBatch
  <2> QED
    BY <2>1, <2>2 DEF InTransit
<1>4. CASE OpenOutput \/ CloseOutput
  BY <1>4 DEF OpenOutput, CloseOutput, InTransit
<1> QED
  BY <1>2, <1>3, <1>4
  DEF Writer, WriterDies, OpenFails, WriteFails, CloseFails

(***************************************************************************)
(* A line that is read in parse_chunk and does not end it leaves its row,  *)
(* if it is one, with the worker.                                          *)
(***************************************************************************)
LEMMA LineKept ==
  ASSUME IInv, NEW c \in Chunk, KeptRows(c),
         BlankLine(c) \/ BadLine(c) \/ Row(c) \/ AbortingLine(c) \/ EndChunk(c)
  PROVE  KeptRows(c)'
<1> USE DEF caller, shared, workers, sink, quarantine
<1> DEFINE p == parser[c]
<1>1. WorkersType /\ p \in ParserState /\ p.line \in Nat
  BY DEF IInv, TypeOK, WorkersType, ParserState
<1>2. pc[c] = "parsing" /\ UNCHANGED <<chan, inhand, written>>
  BY DEF BlankLine, BadLine, Row, AbortingLine, EndChunk, AtLine
<1>3. InTransit' = InTransit
  BY <1>2 DEF InTransit
<1>4. Tagged(c, RowsSoFar(c)) \subseteq Held(c) \cup InTransit
  BY <1>2 DEF KeptRows
\* The step leaves q; the rows of q are those of p and perhaps its line.
<1>5. ASSUME NEW q \in ParserState, NEW next \in {"parsing", "sending"},
             NEW new,
             Proceed(c, q, next),
             q.err = "none" =>
               /\ q.open \cup Contents(q.batches)
                    = p.open \cup Contents(p.batches) \cup new
               /\ \A k \in 1 .. q.line :
                    Accepts(config, Input[c][k]) =>
                      k \in 1 .. p.line \/ k \in new
      PROVE  KeptRows(c)'
  <2>1. parser'[c] = q /\ pc'[c] = IF q.err = "none" THEN next ELSE "failing"
    BY <1>1, <1>5, ProceedType
  <2>2. CASE q.err # "none"
    BY <2>1, <2>2 DEF KeptRows
  <2>3. CASE q.err = "none"
    <3>1. RowsSoFar(c)' \subseteq RowsSoFar(c) \cup new
      BY <1>5, <2>1, <2>3 DEF RowsSoFar
    <3>2. Held(c)' = Held(c) \cup Tagged(c, new)
      BY <1>5, <2>1, <2>3 DEF Held, Tagged
    <3> QED
      BY <1>3, <1>4, <3>1, <3>2 DEF KeptRows, Tagged
  <2> QED
    BY <2>2, <2>3
<1>6. \A k \in 1 .. p.line + 1 : k \in 1 .. p.line \/ k = p.line + 1
  BY <1>1
<1>7. CASE BlankLine(c) \/ BadLine(c)
  <2>1. PICK q \in {PassBlank(p), SkipLine(p)} : Proceed(c, q, "parsing")
    BY <1>7 DEF BlankLine, BadLine
  <2>2. q \in ParserState /\ q.line = p.line + 1 /\ q.open = p.open
        /\ q.batches = p.batches
    BY <1>1, SkipTypes
  <2>3. ~Accepts(config, Input[c][p.line + 1])
    BY <1>7 DEF BlankLine, BadLine, Line, Current, Skips, Accepts
  <2>4. \A k \in 1 .. q.line :
          Accepts(config, Input[c][k]) => k \in 1 .. p.line \/ k \in {}
    BY <1>6, <2>2, <2>3
  <2>5. q.open \cup Contents(q.batches)
          = p.open \cup Contents(p.batches) \cup {}
    BY <2>2
  <2> QED
    BY <1>5, <2>1, <2>2, <2>4, <2>5
<1>8. CASE Row(c)
  <2> DEFINE q == AddRow(config, Input[c], p)
  <2>1. /\ q \in ParserState /\ q.line = p.line + 1
        /\ q.err = "none" =>
             q.open \cup Contents(q.batches)
               = p.open \cup Contents(p.batches) \cup {p.line + 1}
    BY <1>1, AddRowAdds
  <2>2. Proceed(c, q, "parsing")
    BY <1>8 DEF Row
  <2> HIDE DEF q
  <2> QED
    BY <1>5, <1>6, <2>1, <2>2
<1>9. CASE AbortingLine(c)
  <2> DEFINE q == Abort(Line(c), p)
  <2>1. q \in ParserState /\ q.err # "none"
    BY <1>1, SkipTypes
  <2>2. Proceed(c, q, "parsing")
    BY <1>9 DEF AbortingLine
  <2> HIDE DEF q
  <2> QED
    BY <1>5, <2>1, <2>2
<1>10. CASE EndChunk(c)
  <2> DEFINE q == Finish(Input[c], p)
  <2>1. /\ q \in ParserState /\ q.line = p.line
        /\ q.err = "none" =>
             q.open \cup Contents(q.batches) = p.open \cup Contents(p.batches)
    BY <1>1, FinishMoves
  <2>2. Proceed(c, q, "sending")
    BY <1>10 DEF EndChunk
  <2>3. \A k \in 1 .. q.line : k \in 1 .. p.line \/ k \in {}
    BY <2>1
  <2>4. q.err = "none" => q.open \cup Contents(q.batches)
                            = p.open \cup Contents(p.batches) \cup {}
    BY <2>1
  <2> HIDE DEF q
  <2> QED
    BY <1>5, <2>1, <2>2, <2>3, <2>4
<1> QED
  BY <1>7, <1>8, <1>9, <1>10

(***************************************************************************)
(* A worker loses no row while it sends: the channel is closed only by a   *)
(* writer that has died.                                                   *)
(***************************************************************************)
LEMMA WorkerKeepsRows ==
  ASSUME IInv, NEW c \in Chunk, Worker(c), KeptRows(c), writer # "err"
  PROVE  KeptRows(c)'
<1> USE DEF caller, shared, workers, sink, quarantine
<1>1. /\ WorkersType /\ parser[c] \in ParserState /\ WriterLife /\ SinkType
  BY DEF IInv, TypeOK, WorkersType, Control
<1>2. CASE StartChunk(c) \/ SkipChunk(c) \/ ChunkDone(c) \/ FailChunk(c)
  <2>1. /\ UNCHANGED <<parser, chan, inhand, written>>
        /\ pc[c] = "failing" => pc' = [pc EXCEPT ![c] = "failed"]
        /\ pc[c] # "failed"
    BY <1>2 DEF StartChunk, SkipChunk, ChunkDone, FailChunk
  <2>2. pc'[c] \in {"failing", "failed"} \/ pc[c] \notin {"failing", "failed"}
    BY <1>1, <2>1 DEF WorkersType
  <2> QED
    BY <2>1, <2>2 DEF KeptRows, RowsSoFar, Held, InTransit
<1>3. CASE Send(c) \/ HandOver(c)
  <2>1. HasBatch(c) /\ DropBatch(c) /\ pc' = pc
    BY <1>3 DEF Send, HandOver
  <2>2. /\ parser[c].batches \in Seq(SUBSET Nat)
        /\ parser'[c].batches = Tail(parser[c].batches)
        /\ parser'[c].open = parser[c].open
        /\ parser'[c].line = parser[c].line
    BY <1>1, <2>1, DropType
  <2>3. Contents(parser[c].batches)
          = Head(parser[c].batches) \cup Contents(parser'[c].batches)
    BY <2>1, <2>2, ContentsHeadTail DEF HasBatch
  <2>4. Held(c) = Held(c)' \cup NextBatch(c)
    BY <2>2, <2>3 DEF Held, Tagged, NextBatch
  <2>5. RowsSoFar(c)' = RowsSoFar(c)
    BY <2>2 DEF RowsSoFar
  <2>6. InTransit' = InTransit \cup NextBatch(c)
    BY <1>3, BatchesMoveOn
  <2> QED
    BY <2>1, <2>4, <2>5, <2>6 DEF KeptRows, Tagged
<1>4. ~SendClosed(c)
  <2>1. SendClosed(c) => pc[c] = "sending" /\ ~RxAlive
    BY DEF SendClosed, HasBatch
  <2> QED
    BY <1>1, <2>1 DEF WriterLife, SinkType, RxAlive, Settled
<1> QED
  BY <1>2, <1>3, <1>4, LineKept DEF Worker

(***************************************************************************)
(* Nor does it disturb another chunk's rows.                               *)
(***************************************************************************)
LEMMA WorkerSparesOthers ==
  ASSUME IInv, NEW c \in Chunk, Worker(c), NEW d \in Chunk \ {c}, KeptRows(d)
  PROVE  KeptRows(d)'
<1> USE DEF caller, shared, workers, sink, quarantine
<1>1. WorkersType
  BY DEF IInv, TypeOK
<1>2. parser'[d] = parser[d] /\ pc'[d] = pc[d]
  BY <1>1
  DEF WorkersType, Worker, StartChunk, SkipChunk, BlankLine, BadLine, Row,
      AbortingLine, EndChunk, FailChunk, Send, HandOver, SendClosed, ChunkDone,
      Proceed, DropBatch
<1>3. InTransit \subseteq InTransit'
  <2>1. CASE Send(c) \/ HandOver(c)
    BY <2>1, BatchesMoveOn
  <2>2. CASE ~(Send(c) \/ HandOver(c))
    BY <2>2
    DEF Worker, StartChunk, SkipChunk, BlankLine, BadLine, Row, AbortingLine,
        EndChunk, FailChunk, SendClosed, ChunkDone, InTransit
  <2> QED
    BY <2>1, <2>2
<1> QED
  BY <1>2, <1>3 DEF KeptRows, RowsSoFar, Held

------------------------------------------------------------------------------
(***************************************************************************)
(* No step of any thread loses a row of a chunk that has not failed, while *)
(* the writer lives.                                                       *)
(***************************************************************************)
LEMMA NextKeepsRows ==
  ASSUME IInv, [Next]_vars, NothingLost
  PROVE  NothingLost'
<1> USE DEF caller, shared, workers, sink, quarantine
<1> SUFFICES ASSUME writer' # "err", NEW d \in Chunk PROVE KeptRows(d)'
  BY DEF NothingLost, KeptRows
<1>1. ASSUME UNCHANGED <<pc, parser>>, InTransit \subseteq InTransit', KeptRows(d)
      PROVE  KeptRows(d)'
  BY <1>1 DEF KeptRows, RowsSoFar, Held
<1>2. CASE \E c \in Chunk : Alive(Worker(c))
  <2>1. PICK c \in Chunk : Worker(c)
    BY <1>2 DEF Alive
  <2>2. writer # "err"
    BY <2>1 DEF Worker, StartChunk, SkipChunk, BlankLine, BadLine, Row,
                AbortingLine, EndChunk, FailChunk, Send, HandOver, SendClosed,
                ChunkDone
  <2>3. KeptRows(c) /\ KeptRows(d)
    BY <2>2 DEF NothingLost, KeptRows
  <2> QED
    BY <2>1, <2>2, <2>3, WorkerKeepsRows, WorkerSparesOthers
<1>3. CASE Alive(Writer)
  <2>1. writer # "err" /\ UNCHANGED <<pc, parser>>
    BY <1>3 DEF Alive, Writer, WriterDies, OpenOutput, OpenFails, Receive,
                WriteBatch, WriteFails, CloseOutput, CloseFails
  <2> QED
    BY <1>1, <1>3, <2>1, WriterKeepsBatches DEF Alive, NothingLost, KeptRows
<1>4. CASE \/ Alive(Caller) \/ Alive(DeadLetter) \/ Exit \/ Killed \/ Quiet
           \/ UNCHANGED vars
  <2>1. /\ UNCHANGED <<pc, parser, chan, inhand, written>>
        /\ UNCHANGED writer \/ main = "setup"
    BY <1>4
    DEF Alive, Caller, CallerOnly, Spawn, SetupFails, BeginJoin,
        ReturnParseError, JoinWriter, AfterWriter, JoinWriterFails, JoinDead,
        JoinDeadFails, DeadLetter, DeadDies, OpenDead, OpenDeadFails,
        WriteDead, WriteDeadFails, CloseDead, Exit, Killed, Quiet, vars
  <2>2. writer # "err"
    BY <2>1 DEF IInv, Control, JoinOrder
  <2> QED
    BY <1>1, <2>1, <2>2 DEF NothingLost, KeptRows, InTransit
<1> QED
  BY <1>2, <1>3, <1>4 DEF Next

(***************************************************************************)
(* While the writer lives, each row read from a chunk that has not failed  *)
(* is in the builders, in a batch of its worker, in the channel, in the    *)
(* writer's hand or in the file, for every input and configuration.        *)
(***************************************************************************)
THEOREM NoRowLost == Spec => []NothingLost
<1>1. Init => NothingLost
  BY DEF Init, NothingLost, NewParser, RowsSoFar, Tagged
<1>2. IInv /\ NothingLost /\ [Next]_vars => NothingLost'
  BY NextKeepsRows
<1> QED
  BY <1>1, <1>2, Invariance, PTL DEF Spec

------------------------------------------------------------------------------
Sent == {c \in Chunk : pc[c] \in {"sending", "done"}}
SentRows == UNION {OwedIn(c) : c \in Sent}
SentDead == UNION {Tagged(c, OwedDead(config, Input[c])) : c \in Sent}

\* A chunk whose batches are being sent was parsed to its end.
SentWhole ==
  /\ \A c \in Sent : /\ ~More(config, Input[c], parser[c])
                     /\ parser[c].open = {}
  /\ \A c \in Chunk : pc[c] = "done" => parser[c].batches = <<>>

\* The counters are the numbers of rows and rejects of those chunks.
Counted ==
  /\ IsFiniteSet(SentRows) /\ total_rows = Cardinality(SentRows)
  /\ IsFiniteSet(SentDead) /\ error_rows = Cardinality(SentDead)

DeadSoFar(c) == {k \in 1 .. parser[c].line : Skips(config, Input[c][k])}

(***************************************************************************)
(* Whose step it is, and what the others' steps leave alone.               *)
(***************************************************************************)
LEMMA StepKinds ==
  ASSUME [Next]_vars
  PROVE  \/ \E c \in Chunk : Worker(c)
         \/ Writer /\ UNCHANGED <<caller, shared, workers, quarantine>>
         \/ DeadLetter /\ UNCHANGED <<caller, shared, workers, chan, sink>>
         \/ /\ Caller
            /\ UNCHANGED <<total_rows, error_rows, workers, chan, inhand,
                           output, written, dlq, dlfile>>
            /\ main # "setup" => UNCHANGED <<writer, dl>>
            /\ writer' \in {writer, "opening"}
         \/ UNCHANGED <<caller, shared, workers, chan, sink, quarantine>>
<1> USE DEF caller, shared, workers, sink, quarantine
<1>1. Writer => UNCHANGED <<caller, shared, workers, quarantine>>
  BY DEF Writer, OpenOutput, OpenFails, Receive, WriteBatch, WriteFails,
         CloseOutput, CloseFails, WriterDies
<1>2. DeadLetter => UNCHANGED <<caller, shared, workers, chan, sink>>
  BY DEF DeadLetter, OpenDead, OpenDeadFails, WriteDead, WriteDeadFails,
         CloseDead, DeadDies
<1>3. Caller => /\ UNCHANGED <<total_rows, error_rows, workers, chan, inhand,
                               output, written, dlq, dlfile>>
                /\ main # "setup" => UNCHANGED <<writer, dl>>
                /\ writer' \in {writer, "opening"}
  BY DEF Caller, CallerOnly, Spawn, SetupFails, BeginJoin, ReturnParseError,
         JoinWriter, AfterWriter, JoinWriterFails, JoinDead, JoinDeadFails
<1> QED
  BY <1>1, <1>2, <1>3 DEF Next, Alive, Exit, Killed, Quiet, vars

(***************************************************************************)
(* A worker's step is on its own chunk: what it read, sent and counted.    *)
(***************************************************************************)
LEMMA WorkerAlone ==
  ASSUME WorkersType, NEW c \in Chunk, Worker(c)
  PROVE  /\ \A d \in Chunk \ {c} : parser'[d] = parser[d] /\ pc'[d] = pc[d]
         /\ UNCHANGED <<main, result, reported, output, written, dl, dlfile>>
  BY DEF WorkersType, Worker, StartChunk, SkipChunk, BlankLine, BadLine, Row,
         AbortingLine, EndChunk, FailChunk, Send, HandOver, SendClosed,
         ChunkDone, Proceed, DropBatch, caller, shared, workers, sink,
         quarantine

(***************************************************************************)
(* The rows and rejects up to a worker's line.                             *)
(***************************************************************************)
LEMMA SoFar ==
  ASSUME IInv, EInv, NEW c \in Chunk
  PROVE  /\ Input[c] \in Seq(LineKind) /\ parser[c] \in ParserState
         /\ config.limit \in Nat \cup {NoLimit}
         /\ Knows(config, Input[c], parser[c])
         /\ parser[c].line \in Nat /\ parser[c].line <= Len(Input[c])
         /\ RowsSoFar(c) = RowsBefore(config, Input[c], parser[c].line + 1)
         /\ DeadSoFar(c) = DeadBefore(config, Input[c], parser[c].line + 1)
<1>1. /\ Input[c] \in Seq(LineKind) /\ parser[c] \in ParserState
      /\ Knows(config, Input[c], parser[c])
      /\ config.limit \in Nat \cup {NoLimit}
  BY ChunkFacts, PipelineAssumption
  DEF IInv, TypeOK, WorkersType, EInv, AllKnow, PipelineConfig
<1>2. parser[c].line \in Nat /\ parser[c].line <= Len(Input[c])
  BY <1>1 DEF ParserState, Knows, Faithful
<1>3. \A k : k \in 1 .. parser[c].line
               <=> k \in 1 .. Len(Input[c]) /\ k < parser[c].line + 1
  BY <1>1, <1>2
<1>4. RowsSoFar(c) = RowsBefore(config, Input[c], parser[c].line + 1)
  BY <1>3 DEF RowsSoFar, RowsBefore
<1>5. DeadSoFar(c) = DeadBefore(config, Input[c], parser[c].line + 1)
  BY <1>3 DEF DeadSoFar, DeadBefore
<1> QED
  BY <1>1, <1>2, <1>4, <1>5

(***************************************************************************)
(* A chunk that is being sent, or was, owes what its parser read, and has  *)
(* no line at fault.                                                       *)
(***************************************************************************)
LEMMA SentOwes ==
  ASSUME IInv, EInv, SentWhole, NEW c \in Sent
  PROVE  /\ RowsSoFar(c) = OwedRows(config, Input[c])
         /\ DeadSoFar(c) = OwedDead(config, Input[c])
         /\ Offending(config, Input[c]) = {}
         /\ c \in Chunk /\ parser[c].open = {}
<1>1. /\ c \in Chunk /\ ~More(config, Input[c], parser[c])
      /\ parser[c].open = {} /\ parser[c].err = "none"
  BY DEF Sent, SentWhole, IInv, Control, ParsersSane
<1> QED
  BY <1>1, SoFar, LoopOwes DEF Knows

(***************************************************************************)
(* A chunk joins the sent ones as its parser ends without an error; it has *)
(* then read all it owes.                                                  *)
(***************************************************************************)
LEMMA ChunkEnds ==
  ASSUME IInv, EInv, NEW c \in Chunk, EndChunk(c)
  PROVE  LET q == Finish(Input[c], parser[c])
         IN  /\ q \in ParserState /\ parser'[c] = q
             /\ c \notin Sent /\ q.ok \in Nat /\ q.skip \in Nat
             /\ q.err # "none" => pc'[c] = "failing"
             /\ q.err = "none" =>
                  /\ pc'[c] = "sending" /\ q.open = {}
                  /\ ~More(config, Input[c], q)
                  /\ q.ok = Cardinality(OwedRows(config, Input[c]))
                  /\ q.skip = Cardinality(OwedDead(config, Input[c]))
<1> DEFINE p == parser[c]
           q == Finish(Input[c], p)
<1>1. /\ p \in ParserState /\ p.err = "none" /\ ~More(config, Input[c], p)
      /\ pc[c] = "parsing" /\ Proceed(c, q, "sending") /\ WorkersType
      /\ Input[c] \in Seq(LineKind) /\ config.limit \in Nat \cup {NoLimit}
      /\ Knows(config, Input[c], p)
  BY SoFar DEF EndChunk, IInv, Control, ParsersSane, TypeOK
<1>2. /\ q \in ParserState /\ q.line = p.line /\ q.ok = p.ok /\ q.skip = p.skip
      /\ q.err = "none" => q.open = {}
  BY <1>1, FlushOutcome DEF Finish
<1>3. /\ parser'[c] = q
      /\ pc'[c] = IF q.err = "none" THEN "sending" ELSE "failing"
  BY <1>1, <1>2, ProceedType
<1>4. /\ p.ok = Cardinality(OwedRows(config, Input[c]))
      /\ p.skip = Cardinality(OwedDead(config, Input[c]))
  BY <1>1, LoopOwes DEF Knows, Faithful, Exact
<1>5. ~More(config, Input[c], q)
  BY <1>1, <1>2 DEF More, AtLimit
<1>6. q.ok \in Nat /\ q.skip \in Nat
  BY <1>2 DEF ParserState
<1> HIDE DEF q
<1> QED
  BY <1>1, <1>2, <1>3, <1>4, <1>5, <1>6 DEF Sent, q

(***************************************************************************)
(* No other step of a worker changes which chunks are sent.                *)
(***************************************************************************)
LEMMA SentMoves ==
  ASSUME IInv, EInv, NEW c \in Chunk, Worker(c)
  PROVE  \/ Sent' = Sent /\ UNCHANGED <<total_rows, error_rows>>
         \/ /\ EndChunk(c) /\ parser'[c].err = "none"
            /\ Sent' = Sent \cup {c} /\ c \notin Sent
            /\ total_rows' = total_rows + parser'[c].ok
            /\ error_rows' = error_rows + parser'[c].skip
<1> USE DEF shared
<1>1. WorkersType /\ \A d \in Chunk \ {c} : pc'[d] = pc[d]
  <2>1. TypeOK /\ ParsersSane
    BY DEF IInv, Control
  <2>2. WorkersType
    BY <2>1 DEF TypeOK
  <2> QED
    BY <2>1, <2>2, WorkerAlone DEF TypeOK
<1>2. CASE EndChunk(c)
  <2>1. /\ Count(parser'[c]) /\ c \notin Sent
        /\ parser'[c].err # "none" => pc'[c] = "failing"
        /\ parser'[c].err = "none" => pc'[c] = "sending"
    BY <1>2, ChunkEnds DEF EndChunk
  <2>2. CASE parser'[c].err = "none"
    BY <1>1, <1>2, <2>1, <2>2 DEF Count, Sent
  <2>3. CASE parser'[c].err # "none"
    BY <1>1, <2>1, <2>3 DEF Count, Sent
  <2> QED
    BY <2>2, <2>3
<1>3. CASE ~EndChunk(c)
  <2>1. UNCHANGED <<total_rows, error_rows>>
    BY <1>3 DEF Worker, StartChunk, SkipChunk, BlankLine, BadLine, Row,
                AbortingLine, FailChunk, Send, HandOver, SendClosed, ChunkDone
  <2>2. pc'[c] \in {"sending", "done"} <=> pc[c] \in {"sending", "done"}
    BY <1>1, <1>3
    DEF Worker, StartChunk, SkipChunk, BlankLine, BadLine, Row, AbortingLine,
        FailChunk, Send, HandOver, SendClosed, ChunkDone, AtLine, HasBatch,
        Proceed, WorkersType, workers
  <2> QED
    BY <1>1, <2>1, <2>2 DEF Sent
<1> QED
  BY <1>2, <1>3

(***************************************************************************)
(* No step takes anything back from a chunk that was parsed to its end.    *)
(***************************************************************************)
LEMMA NextSentWhole ==
  ASSUME IInv, EInv, SentWhole, [Next]_vars
  PROVE  SentWhole'
<1> USE DEF workers
<1>1. CASE UNCHANGED workers
  BY <1>1 DEF SentWhole, Sent
<1>2. ASSUME NEW c \in Chunk, Worker(c)
      PROVE  SentWhole'
  <2>1. WorkersType /\ \A d \in Chunk \ {c} : parser'[d] = parser[d] /\ pc'[d] = pc[d]
    BY <1>2, WorkerAlone DEF IInv, TypeOK
  <2>2. ASSUME /\ pc'[c] \in {"sending", "done"} =>
                    /\ ~More(config, Input[c], parser'[c])
                    /\ parser'[c].open = {}
               /\ pc'[c] = "done" => parser'[c].batches = <<>>
        PROVE  SentWhole'
    BY <2>1, <2>2 DEF SentWhole, Sent
  <2>3. CASE EndChunk(c)
    BY <1>2, <2>2, <2>3, ChunkEnds
  <2>4. CASE StartChunk(c) \/ SkipChunk(c) \/ FailChunk(c)
    BY <2>1, <2>2, <2>4
    DEF StartChunk, SkipChunk, FailChunk, WorkersType
  <2>5. CASE BlankLine(c) \/ BadLine(c) \/ Row(c) \/ AbortingLine(c)
    BY <2>1, <2>2, <2>5
    DEF BlankLine, BadLine, Row, AbortingLine, Proceed, WorkersType
  <2>6. CASE Send(c) \/ HandOver(c) \/ SendClosed(c)
    <3>1. HasBatch(c) /\ DropBatch(c) /\ pc' = pc
      BY <2>6 DEF Send, HandOver, SendClosed
    <3>2. /\ parser'[c] = [parser[c] EXCEPT !.batches = Tail(@)]
          /\ parser'[c].open = parser[c].open
          /\ parser'[c].line = parser[c].line
          /\ parser[c] \in ParserState
      BY <2>1, <3>1, DropType DEF WorkersType
    <3>3. parser'[c].ok = parser[c].ok
      BY <3>2 DEF ParserState
    <3>4. /\ pc[c] = "sending" /\ pc'[c] = "sending"
          /\ ~More(config, Input[c], parser[c]) /\ parser[c].open = {}
      BY <3>1 DEF HasBatch, SentWhole, Sent
    <3>5. ~More(config, Input[c], parser'[c])
      BY <3>2, <3>3, <3>4 DEF More, AtLimit
    <3> QED
      BY <2>2, <3>2, <3>4, <3>5
  <2>7. CASE ChunkDone(c)
    BY <2>1, <2>2, <2>7 DEF ChunkDone, SentWhole, Sent, WorkersType
  <2> QED
    BY <1>2, <2>3, <2>4, <2>5, <2>6, <2>7 DEF Worker
<1> QED
  BY <1>1, <1>2, StepKinds

(***************************************************************************)
(* A chunk owes finitely many lines.                                       *)
(***************************************************************************)
LEMMA OwedFinite ==
  ASSUME NEW cfg, NEW lines \in Seq(LineKind)
  PROVE  /\ IsFiniteSet(OwedRows(cfg, lines))
         /\ IsFiniteSet(OwedDead(cfg, lines))
<1>1. IsFiniteSet(1 .. Len(lines))
  BY FS_Interval
<1>2. /\ OwedRows(cfg, lines) \in SUBSET (1 .. Len(lines))
      /\ OwedDead(cfg, lines) \in SUBSET (1 .. Len(lines))
  BY DEF OwedRows, OwedDead, Reached
<1> QED
  BY <1>1, <1>2, FS_Subset

(***************************************************************************)
(* The rows, or the rejects, of one more chunk are as many more.           *)
(***************************************************************************)
LEMMA OneMoreChunk ==
  ASSUME NEW was, IsFiniteSet(was), NEW c, NEW new, IsFiniteSet(new),
         was \cap Tagged(c, new) = {}
  PROVE  /\ IsFiniteSet(was \cup Tagged(c, new))
         /\ Cardinality(was \cup Tagged(c, new))
              = Cardinality(was) + Cardinality(new)
<1> DEFINE T == Tagged(c, new)
<1>1. IsFiniteSet(T) /\ Cardinality(T) = Cardinality(new)
  <2>1. IsFiniteSet({c}) /\ Cardinality({c}) = 1
    BY FS_Singleton
  <2>2. IsFiniteSet(T) /\ Cardinality(T) = 1 * Cardinality(new)
    BY <2>1, FS_Product DEF Tagged
  <2>3. Cardinality(new) \in Nat
    BY FS_CardinalityType
  <2> QED
    BY <2>2, <2>3
<1>2. Cardinality(was \cap T) = 0
  BY FS_EmptySet
<1>3. Cardinality(was) \in Nat /\ Cardinality(T) \in Nat
  BY <1>1, FS_CardinalityType
<1> HIDE DEF T
<1>4. /\ IsFiniteSet(was \cup T)
      /\ Cardinality(was \cup T)
           = Cardinality(was) + Cardinality(T) - Cardinality(was \cap T)
  BY <1>1, FS_Union
<1>5. Cardinality(was \cup T) = Cardinality(was) + Cardinality(new)
  BY <1>1, <1>2, <1>3, <1>4
<1> QED
  BY <1>4, <1>5 DEF T

(***************************************************************************)
(* The counters follow, though each worker adds its own chunk's.           *)
(***************************************************************************)
LEMMA NextCounted ==
  ASSUME IInv, EInv, Counted, [Next]_vars
  PROVE  Counted'
<1> USE DEF workers, shared
<1>1. CASE UNCHANGED <<workers, total_rows, error_rows>>
  BY <1>1 DEF Counted, SentRows, SentDead, Sent
<1>2. ASSUME NEW c \in Chunk, Worker(c)
      PROVE  Counted'
  <2>1. CASE Sent' = Sent /\ UNCHANGED <<total_rows, error_rows>>
    BY <2>1 DEF Counted, SentRows, SentDead
  <2>2. CASE /\ EndChunk(c) /\ parser'[c].err = "none"
             /\ Sent' = Sent \cup {c} /\ c \notin Sent
             /\ total_rows' = total_rows + parser'[c].ok
             /\ error_rows' = error_rows + parser'[c].skip
    <3> DEFINE rows == OwedRows(config, Input[c])
               dead == OwedDead(config, Input[c])
    <3>1. /\ parser'[c].ok = Cardinality(rows)
          /\ parser'[c].skip = Cardinality(dead)
      BY <2>2, ChunkEnds
    <3>2. IsFiniteSet(rows) /\ IsFiniteSet(dead)
      BY ChunkFacts, OwedFinite
    <3>3. /\ SentRows' = SentRows \cup Tagged(c, rows)
          /\ SentRows \cap Tagged(c, rows) = {}
      BY <2>2 DEF SentRows, OwedIn, Tagged
    <3>4. /\ SentDead' = SentDead \cup Tagged(c, dead)
          /\ SentDead \cap Tagged(c, dead) = {}
      BY <2>2 DEF SentDead, Tagged
    <3> HIDE DEF rows, dead
    <3>5. IsFiniteSet(SentRows') /\ total_rows' = Cardinality(SentRows')
      BY <2>2, <3>1, <3>2, <3>3, OneMoreChunk DEF Counted
    <3>6. IsFiniteSet(SentDead') /\ error_rows' = Cardinality(SentDead')
      BY <2>2, <3>1, <3>2, <3>4, OneMoreChunk DEF Counted
    <3> QED
      BY <3>5, <3>6 DEF Counted
  <2> QED
    BY <1>2, <2>1, <2>2, SentMoves
<1> QED
  BY <1>1, <1>2, StepKinds

------------------------------------------------------------------------------
\* Rows of one chunk in S are before those in T.
Precedes(S, T) == \A a \in S, b \in T : a[1] = b[1] => a[2] < b[2]

InLine(q) == \A i, j \in DOMAIN q : i < j => Precedes(q[i], q[j])

\* The way to the file is a queue: written, in hand, in the channel, held.
Ordered ==
  /\ InLine(written) /\ InLine(chan)
  /\ Precedes(Contents(written), Contents(inhand) \cup Contents(chan))
  /\ Precedes(Contents(inhand), Contents(chan))
  /\ InTransit \subseteq SentRows
  /\ \A c \in Chunk : Precedes(InTransit, Held(c))

\* The footer comes last, the writer holds one batch, and a channel without
\* slots holds none.
Footer ==
  /\ output = "closed" <=> writer = "ok"
  /\ writer = "ok" => chan = <<>>
  /\ inhand = <<>> \/ \E b \in Batch : inhand = <<b>>
  /\ config.channel_depth = 0 => chan = <<>>

(***************************************************************************)
(* Each step of the writer, and of a worker that hands it a batch.         *)
(***************************************************************************)
LEMMA NextFooter ==
  ASSUME IInv, Footer, [Next]_vars
  PROVE  Footer'
<1> USE DEF caller, shared, workers, sink, quarantine
<1>1. /\ chan \in Seq(Batch) /\ config.channel_depth \in Nat /\ WorkersType
      /\ WriterLife /\ JoinOrder /\ SinkType
  BY PipelineAssumption DEF IInv, TypeOK, PipelineConfig, Control
<1>2. CASE UNCHANGED <<output, chan, inhand>> /\ writer' \in {writer, "opening"}
           /\ (writer = "ok" => writer' = writer)
  BY <1>2 DEF Footer
<1>3. CASE Caller
  <2>1. /\ UNCHANGED <<output, chan, inhand>> /\ writer' \in {writer, "opening"}
        /\ main # "setup" => UNCHANGED writer
    BY <1>3 DEF Caller, CallerOnly, Spawn, SetupFails, BeginJoin,
                ReturnParseError, JoinWriter, AfterWriter, JoinWriterFails,
                JoinDead, JoinDeadFails
  <2> QED
    BY <1>1, <1>2, <2>1 DEF JoinOrder
<1>4. ASSUME NEW c \in Chunk, Worker(c)
      PROVE  Footer'
  <2>1. CASE Send(c)
    <3>1. /\ UNCHANGED <<output, writer, inhand>> /\ writer # "ok"
          /\ Len(chan) < config.channel_depth
      BY <2>1 DEF Send, RxAlive
    <3>2. config.channel_depth # 0
      <4>1. Len(chan) \in Nat
        BY <1>1
      <4> QED
        BY <1>1, <3>1, <4>1
    <3> QED
      BY <3>1, <3>2 DEF Footer
  <2>2. CASE HandOver(c)
    <3>1. NextBatch(c) \in Batch
      BY <1>1, <2>2, DropType DEF HandOver
    <3> QED
      BY <2>2, <3>1 DEF HandOver, Footer
  <2>3. CASE ~Send(c) /\ ~HandOver(c)
    <3>1. UNCHANGED <<output, chan, inhand, writer>>
      BY <1>4, <2>3
      DEF Worker, StartChunk, SkipChunk, BlankLine, BadLine, Row,
          AbortingLine, EndChunk, FailChunk, SendClosed, ChunkDone
    <3> QED
      BY <1>2, <3>1
  <2> QED
    BY <2>1, <2>2, <2>3
<1>5. CASE Writer
  <2>1. CASE Receive
    <3>1. /\ Head(chan) \in Batch /\ Tail(chan) \in Seq(Batch)
          /\ config.channel_depth # 0
      BY <1>1, <2>1 DEF Receive, Footer
    <3> QED
      BY <2>1, <3>1 DEF Receive, Footer
  <2>2. CASE ~Receive
    BY <1>5, <2>2
    DEF Writer, OpenOutput, OpenFails, WriteBatch, WriteFails, CloseOutput,
        CloseFails, WriterDies, Footer, SinkType
  <2> QED
    BY <2>1, <2>2
<1>6. CASE UNCHANGED <<chan, sink>>
  BY <1>2, <1>6
<1> QED
  BY <1>3, <1>4, <1>5, <1>6, StepKinds

------------------------------------------------------------------------------
(***************************************************************************)
(* A queue stays in line when a batch behind all others joins it.          *)
(***************************************************************************)
LEMMA InLineAppend ==
  ASSUME NEW T, NEW s \in Seq(T), NEW b \in T,
         InLine(s), Precedes(Contents(s), b)
  PROVE  InLine(Append(s, b))
<1> DEFINE t == Append(s, b)
<1>1. /\ Len(s) \in Nat /\ DOMAIN t = 1 .. Len(s) + 1 /\ DOMAIN s = 1 .. Len(s)
      /\ \A i \in 1 .. Len(s) : t[i] = s[i]
      /\ t[Len(s) + 1] = b
  OBVIOUS
<1> HIDE DEF t
<1>2. ASSUME NEW i \in DOMAIN t, NEW j \in DOMAIN t, i < j
      PROVE  Precedes(t[i], t[j])
  <2>1. i \in DOMAIN s /\ t[i] = s[i]
    BY <1>1, <1>2
  <2>2. CASE j \in DOMAIN s
    BY <1>1, <1>2, <2>1, <2>2 DEF InLine
  <2>3. CASE j = Len(s) + 1
    <3>1. s[i] \subseteq Contents(s)
      BY <2>1 DEF Contents
    <3> QED
      BY <1>1, <2>1, <2>3, <3>1 DEF Precedes
  <2> QED
    BY <1>1, <1>2, <2>2, <2>3
<1> QED
  BY <1>2 DEF InLine, t

(***************************************************************************)
(* And when its first batch leaves, which was before all others.           *)
(***************************************************************************)
LEMMA InLineTail ==
  ASSUME NEW T, NEW s \in Seq(T), InLine(s), s # <<>>
  PROVE  InLine(Tail(s)) /\ Precedes(Head(s), Contents(Tail(s)))
<1>1. /\ 1 \in DOMAIN s /\ Head(s) = s[1]
      /\ \A i \in DOMAIN Tail(s) : /\ i + 1 \in DOMAIN s
                                   /\ Tail(s)[i] = s[i + 1]
                                   /\ 1 < i + 1
      /\ \A i, j \in DOMAIN Tail(s) : i < j => i + 1 < j + 1
  OBVIOUS
<1>2. InLine(Tail(s))
  BY <1>1 DEF InLine
<1>3. \A i \in DOMAIN Tail(s) : Precedes(Head(s), Tail(s)[i])
  BY <1>1 DEF InLine
<1>4. Precedes(Head(s), Contents(Tail(s)))
  BY <1>3 DEF Precedes, Contents
<1> QED
  BY <1>2, <1>4

(***************************************************************************)
(* The writer passes batches on in the order it receives them.             *)
(***************************************************************************)
LEMMA WriterKeepsOrder ==
  ASSUME IInv, Footer, Ordered, Writer
  PROVE  Ordered'
<1> USE DEF caller, shared, workers, sink, quarantine
<1>1. /\ chan \in Seq(Batch) /\ inhand \in Seq(Batch) /\ written \in Seq(Batch)
      /\ WriterLife
  BY DEF IInv, TypeOK, SinkType, Control
<1>2. UNCHANGED <<pc, parser>>
  BY DEF Writer, OpenOutput, OpenFails, Receive, WriteBatch, WriteFails,
         CloseOutput, CloseFails, WriterDies
<1>3. SentRows' = SentRows /\ \A c \in Chunk : Held(c)' = Held(c)
  BY <1>2 DEF SentRows, Sent, Held
<1>4. Contents(<<>>) = {}
  BY DEF Contents
\* What is in transit only moves on or is dropped.
<1>5. ASSUME InTransit' \subseteq InTransit,
             InLine(written'), InLine(chan'),
             Precedes(Contents(written'), Contents(inhand') \cup Contents(chan')),
             Precedes(Contents(inhand'), Contents(chan'))
      PROVE  Ordered'
  BY <1>3, <1>5 DEF Ordered, Precedes
<1>6. CASE OpenOutput \/ CloseOutput
  <2>1. UNCHANGED <<chan, inhand, written>>
    BY <1>6 DEF OpenOutput, CloseOutput
  <2> QED
    BY <1>5, <2>1 DEF Ordered, InTransit
<1>7. CASE OpenFails \/ WriteFails \/ CloseFails
  <2>1. chan' = <<>> /\ inhand' = <<>> /\ written' = written
    BY <1>7 DEF OpenFails, WriteFails, CloseFails, WriterDies
  <2>2. InTransit' = Contents(written)
    BY <1>4, <2>1 DEF InTransit
  <2>3. InLine(chan')
    BY <2>1 DEF InLine
  <2> QED
    BY <1>4, <1>5, <2>1, <2>2, <2>3 DEF Ordered, InTransit, Precedes
<1>8. CASE Receive
  <2>1. /\ Contents(chan) = Head(chan) \cup Contents(chan')
        /\ InLine(chan') /\ Precedes(Head(chan), Contents(chan'))
    BY <1>1, <1>8, ContentsHeadTail, InLineTail DEF Receive, Ordered
  <2>2. /\ Contents(inhand') = Head(chan) /\ Contents(inhand) = {}
        /\ written' = written
    BY <1>1, <1>4, <1>8, ContentsOne DEF Receive, WriterLife
  <2>3. InTransit' = InTransit
    BY <2>1, <2>2 DEF InTransit
  <2> QED
    BY <1>5, <2>1, <2>2, <2>3 DEF Ordered
<1>9. CASE WriteBatch
  <2>1. inhand' = <<>> /\ chan' = chan /\ written' = written \o inhand
    BY <1>9 DEF WriteBatch
  <2>2. CASE inhand = <<>>
    <3>1. written' = written
      BY <1>1, <2>1, <2>2
    <3> QED
      BY <1>5, <2>1, <2>2, <3>1 DEF Ordered, InTransit
  <2>3. ASSUME NEW b \in Batch, inhand = <<b>>
        PROVE  Ordered'
    <3>1. written' = Append(written, b) /\ Contents(inhand) = b
      BY <1>1, <2>1, <2>3, ContentsOne
    <3>2. Contents(written') = Contents(written) \cup b
      BY <1>1, <3>1, ContentsAppend
    <3>3. Precedes(Contents(written), b)
      BY <3>1 DEF Ordered, Precedes
    <3>4. InLine(written')
      BY <1>1, <3>1, <3>3, InLineAppend DEF Ordered
    <3>5. Contents(inhand') = {}
      BY <1>4, <2>1
    <3>6. InTransit' \subseteq InTransit
      BY <2>1, <3>1, <3>2, <3>5 DEF InTransit
    <3>7. /\ Precedes(Contents(written'), Contents(inhand') \cup Contents(chan'))
          /\ Precedes(Contents(inhand'), Contents(chan'))
      BY <2>1, <3>1, <3>2, <3>5 DEF Ordered, Precedes
    <3> QED
      BY <1>5, <2>1, <3>4, <3>6, <3>7 DEF Ordered
  <2> QED
    BY <2>2, <2>3 DEF Footer
<1> QED
  BY <1>6, <1>7, <1>8, <1>9 DEF Writer

(***************************************************************************)
(* The batch a worker hands over comes after all of its chunk that is in   *)
(* transit and before all that the worker keeps, and is owed.              *)
(***************************************************************************)
LEMMA NextBatchInLine ==
  ASSUME IInv, EInv, SentWhole, Ordered, NEW c \in Chunk,
         HasBatch(c), DropBatch(c)
  PROVE  /\ NextBatch(c) \in Batch /\ NextBatch(c) \subseteq SentRows
         /\ Precedes(InTransit, NextBatch(c))
         /\ \A d \in Chunk : Held(d)' \subseteq Held(d)
         /\ \A d \in Chunk : Precedes(NextBatch(c), Held(d)')
<1> DEFINE p == parser[c]
           b == parser[c].batches
<1>1. /\ WorkersType /\ p \in ParserState /\ c \in Sent /\ b # <<>>
      /\ Knows(config, Input[c], p)
  BY SoFar DEF IInv, TypeOK, HasBatch, Sent
<1>2. /\ b \in Seq(SUBSET Nat) /\ NextBatch(c) \in Batch
      /\ parser'[c].batches = Tail(b) /\ parser'[c].open = p.open
      /\ \A d \in Chunk \ {c} : parser'[d] = parser[d]
  BY <1>1, DropType
<1>3. Contents(b) = Head(b) \cup Contents(Tail(b))
  BY <1>1, <1>2, ContentsHeadTail
<1>4. p.open = {} /\ RowsSoFar(c) = OwedRows(config, Input[c])
  BY <1>1, SentOwes
<1>5. Contents(b) \subseteq OwedRows(config, Input[c])
  BY <1>1, <1>4, SoFar DEF Knows, Sorted
<1>6. NextBatch(c) \subseteq SentRows
  BY <1>1, <1>3, <1>5 DEF NextBatch, Tagged, SentRows, OwedIn
<1>7. NextBatch(c) \subseteq Held(c) /\ Held(c)' = Tagged(c, Contents(Tail(b)))
  BY <1>2, <1>3, <1>4 DEF NextBatch, Held, Tagged
<1>8. Precedes(InTransit, NextBatch(c))
  BY <1>7 DEF Ordered, Precedes
<1>9. ASSUME NEW d \in Chunk PROVE Held(d)' \subseteq Held(d)
  <2>1. CASE d = c
    BY <1>3, <1>7, <2>1 DEF Held, Tagged
  <2>2. CASE d # c
    BY <1>2, <2>2 DEF Held
  <2> QED
    BY <2>1, <2>2
<1>10. \A x \in Head(b), y \in Contents(Tail(b)) : x < y
  <2>1. /\ \A i \in DOMAIN Tail(b) : /\ i + 1 \in DOMAIN b /\ 1 < i + 1
                                     /\ Tail(b)[i] = b[i + 1]
        /\ 1 \in DOMAIN b /\ Head(b) = b[1]
    BY <1>1, <1>2
  <2> HIDE DEF b
  <2>2. \A i, j \in DOMAIN b : i < j => \A x \in b[i], y \in b[j] : x < y
    BY <1>1 DEF Knows, Sorted, b
  <2> QED
    BY <2>1, <2>2 DEF Contents
<1>11. ASSUME NEW d \in Chunk PROVE Precedes(NextBatch(c), Held(d)')
  <2>1. CASE d = c
    BY <1>7, <1>10, <2>1 DEF Precedes, NextBatch, Tagged
  <2>2. CASE d # c
    BY <2>2 DEF Precedes, NextBatch, Held, Tagged
  <2> QED
    BY <2>1, <2>2
<1> QED
  BY <1>2, <1>6, <1>8, <1>9, <1>11

(***************************************************************************)
(* A worker's step keeps the way to the file in line.                      *)
(***************************************************************************)
LEMMA WorkerKeepsOrder ==
  ASSUME IInv, EInv, SentWhole, Footer, Ordered, NEW c \in Chunk, Worker(c)
  PROVE  Ordered'
<1> USE DEF caller, shared, workers, sink, quarantine
<1>1. /\ chan \in Seq(Batch) /\ inhand \in Seq(Batch) /\ WorkersType
      /\ WriterLife /\ config.channel_depth \in Nat
  BY PipelineAssumption DEF IInv, TypeOK, SinkType, Control, PipelineConfig
<1>2. SentRows \subseteq SentRows'
  BY SentMoves DEF SentRows
<1>3. \A d \in Chunk \ {c} : parser'[d] = parser[d]
  BY <1>1, WorkerAlone
<1>4. CASE Send(c) \/ HandOver(c)
  <2>1. HasBatch(c) /\ DropBatch(c) /\ written' = written
    BY <1>4 DEF Send, HandOver
  <2>2. /\ NextBatch(c) \in Batch /\ NextBatch(c) \subseteq SentRows
        /\ Precedes(InTransit, NextBatch(c))
        /\ \A d \in Chunk : Held(d)' \subseteq Held(d)
        /\ \A d \in Chunk : Precedes(NextBatch(c), Held(d)')
    BY <2>1, NextBatchInLine
  <2>3. InTransit' = InTransit \cup NextBatch(c)
    BY <1>4, BatchesMoveOn
  <2>4. /\ InTransit' \subseteq SentRows'
        /\ \A d \in Chunk : Precedes(InTransit', Held(d)')
    BY <1>2, <2>2, <2>3 DEF Ordered, Precedes
  <2>5. CASE Send(c)
    <3>1. chan' = Append(chan, NextBatch(c)) /\ inhand' = inhand
      BY <2>5 DEF Send
    <3>2. Contents(chan') = Contents(chan) \cup NextBatch(c)
      BY <1>1, <2>2, <3>1, ContentsAppend
    <3>3. InLine(chan')
      <4>1. Precedes(Contents(chan), NextBatch(c))
        BY <2>2 DEF InTransit, Precedes
      <4> QED
        BY <1>1, <2>2, <3>1, <4>1, InLineAppend DEF Ordered
    <3>4. /\ Precedes(Contents(written'), Contents(inhand') \cup Contents(chan'))
          /\ Precedes(Contents(inhand'), Contents(chan'))
      BY <2>1, <2>2, <3>1, <3>2 DEF Ordered, Precedes, InTransit
    <3> QED
      BY <2>1, <2>4, <3>3, <3>4 DEF Ordered
  <2>6. CASE HandOver(c)
    <3>1. inhand' = <<NextBatch(c)>> /\ chan' = chan /\ chan = <<>>
      BY <2>6 DEF HandOver, Footer
    <3>2. Contents(inhand') = NextBatch(c) /\ Contents(chan') = {}
      BY <3>1, ContentsOne DEF Contents
    <3>3. /\ Precedes(Contents(written'), Contents(inhand') \cup Contents(chan'))
          /\ Precedes(Contents(inhand'), Contents(chan'))
      BY <2>1, <2>2, <3>2 DEF Precedes, InTransit
    <3> QED
      BY <2>1, <2>4, <3>1, <3>3 DEF Ordered
  <2> QED
    BY <1>4, <2>5, <2>6
<1>5. CASE ~Send(c) /\ ~HandOver(c)
  <2>1. UNCHANGED <<chan, inhand, written>>
    BY <1>5 DEF Worker, StartChunk, SkipChunk, BlankLine, BadLine, Row,
                AbortingLine, EndChunk, FailChunk, SendClosed, ChunkDone
  <2>2. InTransit' = InTransit
    BY <2>1 DEF InTransit
  <2>3. ASSUME NEW d \in Chunk PROVE Precedes(InTransit, Held(d)')
    <3>1. CASE d # c
      BY <1>3, <3>1 DEF Held, Ordered
    <3>2. CASE d = c /\ c \notin Sent
      BY <3>2 DEF Ordered, SentRows, OwedIn, Precedes, Held, Tagged
    <3>3. CASE d = c /\ c \in Sent
      <4>1. CASE SendClosed(c)
        <5>1. Held(c)' \subseteq Held(c)
          BY <4>1, NextBatchInLine DEF SendClosed
        <5> QED
          BY <3>3, <5>1 DEF Ordered, Precedes
      <4>2. CASE ~SendClosed(c)
        <5>1. parser' = parser
          BY <1>5, <3>3, <4>2
          DEF Worker, StartChunk, SkipChunk, BlankLine, BadLine, Row,
              AbortingLine, EndChunk, FailChunk, ChunkDone, Sent, AtLine
        <5> QED
          BY <3>3, <5>1 DEF Ordered, Held
      <4> QED
        BY <4>1, <4>2
    <3> QED
      BY <3>1, <3>2, <3>3
  <2> QED
    BY <1>2, <2>1, <2>2, <2>3 DEF Ordered
<1> QED
  BY <1>4, <1>5

(***************************************************************************)
(* So does every step.                                                     *)
(***************************************************************************)
LEMMA NextOrdered ==
  ASSUME IInv, EInv, SentWhole, Footer, Ordered, [Next]_vars
  PROVE  Ordered'
<1>1. CASE UNCHANGED <<workers, chan, inhand, written>>
  BY <1>1 DEF workers, Ordered, InTransit, SentRows, Sent, Held
<1> QED
  BY <1>1, StepKinds, WriterKeepsOrder, WorkerKeepsOrder DEF sink

------------------------------------------------------------------------------
Lines(q) == {q[i] : i \in DOMAIN q}
DeadRead == UNION {Tagged(c, DeadSoFar(c)) : c \in Chunk}

\* A rejected line is queued or filed, once, until the quarantine's thread
\* dies; that thread ends only when the last worker has.
Quarantined ==
  /\ IsFiniteSet(DeadRead)
  /\ Lines(dlq) \cup Lines(dlfile) \subseteq DeadRead
  /\ dl \in {"unborn", "opening", "recv", "ok"} =>
       /\ DeadRead \subseteq Lines(dlq) \cup Lines(dlfile)
       /\ Len(dlq) + Len(dlfile) = Cardinality(DeadRead)
  /\ dl = "unborn" => writer = "unborn"
  /\ dl = "ok" => dlq = <<>> /\ \A c \in Chunk : pc[c] \in Settled
  /\ ~config.dead_letter => dlfile = <<>>
  /\ config.dead_letter => dl # "none"

(***************************************************************************)
(* The lines of a queue as one joins it and as one leaves.                 *)
(***************************************************************************)
LEMMA LinesMove ==
  ASSUME NEW T, NEW s \in Seq(T), NEW x \in T
  PROVE  /\ Lines(Append(s, x)) = Lines(s) \cup {x}
         /\ Len(Append(s, x)) = Len(s) + 1
         /\ s # <<>> => /\ Lines(s) = {Head(s)} \cup Lines(Tail(s))
                        /\ Len(s) = Len(Tail(s)) + 1
<1>1. Lines(Append(s, x)) = Lines(s) \cup {x}
  <2> DEFINE t == Append(s, x)
  <2>1. /\ Len(s) \in Nat /\ DOMAIN t = 1 .. Len(s) + 1
        /\ DOMAIN s = 1 .. Len(s)
        /\ \A i \in 1 .. Len(s) : t[i] = s[i]
        /\ t[Len(s) + 1] = x
    OBVIOUS
  <2> HIDE DEF t
  <2>2. \A i \in 1 .. Len(s) + 1 : i \in 1 .. Len(s) \/ i = Len(s) + 1
    BY <2>1
  <2>3. Lines(t) \subseteq Lines(s) \cup {x}
    BY <2>1, <2>2 DEF Lines
  <2>4. 1 .. Len(s) \subseteq 1 .. Len(s) + 1 /\ Len(s) + 1 \in 1 .. Len(s) + 1
    BY <2>1
  <2>5. Lines(s) \cup {x} \subseteq Lines(t)
    BY <2>1, <2>4 DEF Lines
  <2> QED
    BY <2>3, <2>5 DEF t
<1>2. ASSUME s # <<>>
      PROVE  Lines(s) = {Head(s)} \cup Lines(Tail(s)) /\ Len(s) = Len(Tail(s)) + 1
  <2> DEFINE t == Tail(s)
  <2>1. /\ Len(s) \in Nat /\ Len(s) >= 1 /\ DOMAIN s = 1 .. Len(s)
        /\ DOMAIN t = 1 .. Len(s) - 1 /\ Len(t) = Len(s) - 1
        /\ \A i \in 1 .. Len(s) - 1 : t[i] = s[i + 1]
        /\ Head(s) = s[1]
    BY <1>2
  <2> HIDE DEF t
  <2>2. \A i \in 1 .. Len(s) : i = 1 \/ (i - 1 \in 1 .. Len(s) - 1 /\ (i - 1) + 1 = i)
    BY <2>1
  <2>3. /\ \A i \in 1 .. Len(s) - 1 : i + 1 \in 1 .. Len(s)
        /\ 1 \in 1 .. Len(s)
    BY <2>1
  <2>4. \A i \in 1 .. Len(s) : i # 1 => \E j \in 1 .. Len(s) - 1 : s[i] = t[j]
    BY <2>1, <2>2
  <2>5. Lines(s) \subseteq {Head(s)} \cup Lines(t)
    <3>1. \A j \in 1 .. Len(s) - 1 : t[j] \in Lines(t)
      BY <2>1 DEF Lines
    <3>2. \A i \in 1 .. Len(s) : s[i] \in {Head(s)} \cup Lines(t)
      BY <2>1, <2>4, <3>1
    <3> QED
      BY <2>1, <3>2 DEF Lines
  <2>6. {Head(s)} \cup Lines(t) \subseteq Lines(s)
    <3>1. Head(s) \in Lines(s)
      BY <2>1, <2>3 DEF Lines
    <3>2. \A i \in DOMAIN t : \E j \in DOMAIN s : t[i] = s[j]
      BY <2>1, <2>3
    <3>3. Lines(t) \subseteq Lines(s)
      BY <3>2 DEF Lines
    <3> QED
      BY <3>1, <3>3, Zenon
  <2> QED
    BY <2>1, <2>5, <2>6 DEF t
<1>3. Len(Append(s, x)) = Len(s) + 1
  OBVIOUS
<1> QED
  BY <1>1, <1>2, <1>3

(***************************************************************************)
(* A worker rejects one line at a time, and each only once.                *)
(***************************************************************************)
LEMMA DeadMoves ==
  ASSUME IInv, NEW c \in Chunk, Worker(c)
  PROVE  \/ DeadRead' = DeadRead /\ dlq' = dlq
         \/ \E x \in Place :
              /\ DeadRead' = DeadRead \cup {x} /\ x \notin DeadRead
              /\ Precedes(DeadRead, {x})
              /\ dlq' = IF DlAlive THEN Append(dlq, x) ELSE dlq
<1> USE DEF caller, shared, workers, sink, quarantine
<1> DEFINE p == parser[c]
           x == <<c, p.line + 1>>
<1>1. WorkersType /\ p \in ParserState /\ p.line \in Nat
  BY DEF IInv, TypeOK, WorkersType, ParserState
<1>2. \A d \in Chunk \ {c} : DeadSoFar(d)' = DeadSoFar(d)
  BY <1>1, WorkerAlone DEF DeadSoFar
<1>3. ASSUME DeadSoFar(c)' = DeadSoFar(c) PROVE DeadRead' = DeadRead
  <2>1. \A d \in Chunk : DeadSoFar(d)' = DeadSoFar(d)
    BY <1>2, <1>3
  <2> QED
    BY <2>1 DEF DeadRead
<1>4. ASSUME NEW q \in ParserState, NEW next \in {"parsing", "sending"},
             Proceed(c, q, next),
             \/ q.line = p.line
             \/ q.line = p.line + 1 /\ ~Skips(config, Input[c][p.line + 1])
      PROVE  DeadRead' = DeadRead
  <2>1. parser'[c] = q
    BY <1>1, <1>4, ProceedType
  <2>2. \A k \in 1 .. p.line + 1 : k \in 1 .. p.line \/ k = p.line + 1
    BY <1>1
  <2>3. 1 .. p.line \subseteq 1 .. p.line + 1
    BY <1>1
  <2>4. DeadSoFar(c)' = DeadSoFar(c)
    BY <1>4, <2>1, <2>2, <2>3 DEF DeadSoFar
  <2> QED
    BY <1>3, <2>4
<1>5. CASE \/ StartChunk(c) \/ SkipChunk(c) \/ FailChunk(c) \/ ChunkDone(c)
  <2>1. UNCHANGED <<parser, dlq>>
    BY <1>5 DEF StartChunk, SkipChunk, FailChunk, ChunkDone
  <2> QED
    BY <2>1 DEF DeadRead, DeadSoFar
<1>6. CASE Send(c) \/ HandOver(c) \/ SendClosed(c)
  <2>1. HasBatch(c) /\ DropBatch(c) /\ dlq' = dlq
    BY <1>6 DEF Send, HandOver, SendClosed
  <2>2. parser'[c].line = p.line
    BY <1>1, <2>1, DropType
  <2>3. DeadSoFar(c)' = DeadSoFar(c)
    BY <2>2 DEF DeadSoFar
  <2> QED
    BY <1>3, <2>1, <2>3
<1>7. CASE BlankLine(c)
  <2>1. ~Skips(config, Input[c][p.line + 1])
    BY <1>7 DEF BlankLine, Line, Current, Skips
  <2> QED
    BY <1>1, <1>4, <1>7, <2>1, SkipTypes DEF BlankLine
<1>8. CASE Row(c)
  <2>1. /\ ~Skips(config, Input[c][p.line + 1])
        /\ Proceed(c, AddRow(config, Input[c], p), "parsing") /\ dlq' = dlq
    BY <1>8 DEF Row, Line, Current, Skips, Accepts
  <2>2. /\ AddRow(config, Input[c], p) \in ParserState
        /\ AddRow(config, Input[c], p).line = p.line + 1
    BY <1>1, AddRowAdds
  <2> QED
    BY <1>4, <2>1, <2>2
<1>9. CASE AbortingLine(c)
  <2>1. /\ ~Skips(config, Input[c][p.line + 1])
        /\ Proceed(c, Abort(Line(c), p), "parsing") /\ dlq' = dlq
    BY <1>9 DEF AbortingLine, Line, Current, Skips, Aborts
  <2>2. Abort(Line(c), p) \in ParserState /\ Abort(Line(c), p).line = p.line + 1
    BY <1>1, SkipTypes
  <2> QED
    BY <1>4, <2>1, <2>2
<1>10. CASE EndChunk(c)
  <2>1. Proceed(c, Finish(Input[c], p), "sending") /\ dlq' = dlq
    BY <1>10 DEF EndChunk
  <2>2. /\ Finish(Input[c], p) \in ParserState
        /\ Finish(Input[c], p).line = p.line
    BY <1>1, FinishMoves
  <2> QED
    BY <1>4, <2>1, <2>2
<1>11. CASE BadLine(c)
  <2>1. /\ Skips(config, Input[c][p.line + 1])
        /\ Proceed(c, SkipLine(p), "parsing")
        /\ Quarantine(c, p.line + 1)
    BY <1>11 DEF BadLine, Line, Current
  <2>2. SkipLine(p) \in ParserState /\ SkipLine(p).line = p.line + 1
    BY <1>1, SkipTypes
  <2>3. parser'[c].line = p.line + 1
    BY <1>1, <2>1, <2>2, ProceedType
  <2>4. 1 .. p.line + 1 = 1 .. p.line \cup {p.line + 1} /\ p.line + 1 \notin 1 .. p.line
    BY <1>1
  <2>5. DeadSoFar(c)' = DeadSoFar(c) \cup {p.line + 1}
    BY <2>1, <2>3, <2>4 DEF DeadSoFar
  <2>6. DeadRead' = DeadRead \cup {x}
    <3>1. Tagged(c, DeadSoFar(c))' = Tagged(c, DeadSoFar(c)) \cup {x}
      BY <2>5 DEF Tagged
    <3>2. \A d \in Chunk \ {c} : Tagged(d, DeadSoFar(d))' = Tagged(d, DeadSoFar(d))
      BY <1>2 DEF Tagged
    <3> QED
      BY <3>1, <3>2 DEF DeadRead
  <2>7. x \notin DeadRead
    BY <2>4 DEF DeadRead, Tagged, DeadSoFar
  <2>8. x \in Place
    BY <1>1, ChunkFacts DEF Place
  <2>10. Precedes(DeadRead, {x})
    <3>1. \A k \in 1 .. p.line : k < p.line + 1
      BY <1>1
    <3> QED
      BY <3>1 DEF Precedes, DeadRead, Tagged, DeadSoFar
  <2>9. dlq' = IF DlAlive THEN Append(dlq, x) ELSE dlq
    BY <2>1 DEF Quarantine
  <2> HIDE DEF x
  <2> QED
    BY <2>6, <2>7, <2>8, <2>9, <2>10
<1> QED
  BY <1>5, <1>6, <1>7, <1>8, <1>9, <1>10, <1>11 DEF Worker, BlankLine

(***************************************************************************)
(* Every step keeps the quarantine whole.                                  *)
(***************************************************************************)
LEMMA NextQuarantined ==
  ASSUME IInv, Quarantined, [Next]_vars
  PROVE  Quarantined'
<1> USE DEF caller, shared, workers, sink, quarantine
<1>1. /\ dlq \in Seq(Place) /\ dlfile \in Seq(Place)
      /\ Len(dlq) \in Nat /\ Len(dlfile) \in Nat
      /\ JoinOrder /\ WriterLife /\ WorkersType /\ config.dead_letter \in BOOLEAN
      /\ main \in {"setup", "parsing", "join_writer", "join_dl", "returned"}
  BY ChunkFacts DEF IInv, TypeOK, QuarantineType, Control, CallerType
<1>2. CASE UNCHANGED <<workers, quarantine>> /\ (dl = "unborn" => writer' = writer)
  <2>1. DeadRead' = DeadRead
    BY <1>2 DEF DeadRead, DeadSoFar
  <2> QED
    BY <1>2, <2>1 DEF Quarantined
<1>3. ASSUME NEW c \in Chunk, Worker(c)
      PROVE  Quarantined'
  <2>1. /\ UNCHANGED <<dl, dlfile>> /\ pc[c] \notin Settled
        /\ pc[c] = "pending" => main = "parsing"
    BY <1>3
    DEF Worker, StartChunk, SkipChunk, BlankLine, BadLine, Row, AbortingLine,
        EndChunk, FailChunk, Send, HandOver, SendClosed, ChunkDone, AtLine,
        HasBatch, Settled
  <2>2. dl # "ok" /\ dl # "unborn"
    BY <1>1, <2>1 DEF Quarantined, WriterLife, JoinOrder
  <2>3. CASE DeadRead' = DeadRead /\ dlq' = dlq
    BY <2>1, <2>2, <2>3 DEF Quarantined
  <2>4. ASSUME NEW x \in Place, DeadRead' = DeadRead \cup {x},
               x \notin DeadRead, Precedes(DeadRead, {x}),
               dlq' = IF DlAlive THEN Append(dlq, x) ELSE dlq
        PROVE  Quarantined'
    <3>1. /\ IsFiniteSet(DeadRead') 
          /\ Cardinality(DeadRead') = Cardinality(DeadRead) + 1
          /\ Cardinality(DeadRead) \in Nat
      BY <2>4, FS_AddElement, FS_CardinalityType DEF Quarantined
    <3>2. CASE DlAlive
      <4>1. Lines(dlq') = Lines(dlq) \cup {x} /\ Len(dlq') = Len(dlq) + 1
        BY <1>1, <2>4, <3>2, LinesMove
      <4>2. dl \in {"opening", "recv"}
        BY <3>2 DEF DlAlive
      <4>3. Len(dlq') + Len(dlfile') = Cardinality(DeadRead')
        <5>1. Len(dlq) + Len(dlfile) = Cardinality(DeadRead)
          BY <4>2 DEF Quarantined
        <5> QED
          BY <1>1, <2>1, <3>1, <4>1, <5>1
      <4> QED
        BY <2>1, <2>2, <2>4, <3>1, <4>1, <4>2, <4>3 DEF Quarantined
    <3>3. CASE ~DlAlive
      BY <2>1, <2>2, <2>4, <3>1, <3>3 DEF Quarantined, DlAlive
    <3> QED
      BY <3>2, <3>3
  <2> QED
    BY <1>3, <2>3, <2>4, DeadMoves
<1>4. CASE Writer /\ UNCHANGED <<caller, shared, workers, quarantine>>
  <2>1. writer # "unborn"
    BY <1>4 DEF Writer, OpenOutput, OpenFails, Receive, WriteBatch, WriteFails,
                CloseOutput, CloseFails
  <2> QED
    BY <1>2, <1>4, <2>1 DEF Quarantined
<1>5. CASE DeadLetter /\ UNCHANGED <<caller, shared, workers, chan, sink>>
  <2>1. DeadRead' = DeadRead
    BY <1>5 DEF DeadRead, DeadSoFar
  <2>2. config.dead_letter
    BY <1>1, <1>5 DEF JoinOrder, DeadLetter, OpenDead, OpenDeadFails, WriteDead,
                WriteDeadFails, CloseDead
  <2>3. CASE OpenDead
    BY <1>5, <2>1, <2>2, <2>3 DEF OpenDead, Quarantined
  <2>4. CASE OpenDeadFails \/ WriteDeadFails
    <3>1. dl' = "err" /\ dlq' = <<>> /\ dlfile' = dlfile
      BY <2>4 DEF OpenDeadFails, WriteDeadFails, DeadDies
    <3>2. Lines(dlq') = {}
      BY <3>1 DEF Lines
    <3> QED
      BY <2>1, <2>2, <3>1, <3>2 DEF Quarantined
  <2>5. CASE WriteDead
    <3>1. /\ dl = "recv" /\ dl' = dl /\ dlq # <<>>
          /\ dlfile' = Append(dlfile, Head(dlq)) /\ dlq' = Tail(dlq)
      BY <2>5 DEF WriteDead
    <3>2. Head(dlq) \in Place
      BY <1>1, <3>1
    <3>3. /\ Lines(dlfile') = Lines(dlfile) \cup {Head(dlq)}
          /\ Len(dlfile') = Len(dlfile) + 1
          /\ Lines(dlq) = {Head(dlq)} \cup Lines(dlq')
          /\ Len(dlq) = Len(dlq') + 1
      BY <1>1, <3>1, <3>2, LinesMove
    <3>4. Len(dlq') \in Nat /\ Len(dlq) + Len(dlfile) = Cardinality(DeadRead)
      BY <1>1, <3>1 DEF Quarantined
    <3>5. Len(dlq') + Len(dlfile') = Cardinality(DeadRead')
      BY <1>1, <2>1, <3>3, <3>4
    <3> QED
      BY <2>1, <2>2, <3>1, <3>3, <3>5 DEF Quarantined
  <2>6. CASE CloseDead
    <3>1. /\ dl = "recv" /\ dl' = "ok" /\ UNCHANGED <<dlq, dlfile>>
          /\ dlq = <<>> /\ \A c \in Chunk : pc[c] \in Settled
      BY <2>6 DEF CloseDead, SendersGone, LoopOver
    <3> QED
      BY <1>5, <2>1, <2>2, <3>1 DEF Quarantined
  <2> QED
    BY <1>5, <2>3, <2>4, <2>5, <2>6 DEF DeadLetter
<1>6. CASE Caller /\ UNCHANGED <<workers, dlq, dlfile>>
  <2>1. CASE main # "setup"
    BY <1>2, <1>6, <2>1, StepKinds
    DEF Caller, CallerOnly, Spawn, SetupFails, BeginJoin, ReturnParseError,
        JoinWriter, AfterWriter, JoinWriterFails, JoinDead, JoinDeadFails
  <2>2. CASE SetupFails
    BY <1>2, <2>2 DEF SetupFails, CallerOnly
  <2>3. CASE Spawn
    <3>1. /\ dl = "unborn" /\ dl' = (IF config.dead_letter THEN "opening" ELSE "none")
          /\ DeadRead' = DeadRead /\ UNCHANGED <<dlq, dlfile>>
      BY <1>1, <1>6, <2>3 DEF Spawn, JoinOrder, DeadRead, DeadSoFar
    <3> QED
      BY <3>1 DEF Quarantined
  <2> QED
    BY <1>6, <2>1, <2>2, <2>3
    DEF Caller, BeginJoin, ReturnParseError, JoinWriter, JoinWriterFails,
        JoinDead, JoinDeadFails
<1>7. CASE UNCHANGED <<caller, shared, workers, chan, sink, quarantine>>
  BY <1>2, <1>7
<1> QED
  BY <1>3, <1>4, <1>5, <1>6, <1>7, StepKinds

------------------------------------------------------------------------------
\* The lines of each chunk come in line order.
InTurn(q) == \A i, j \in DOMAIN q : i < j => Precedes({q[i]}, {q[j]})

\* What is in the file comes before what is in the queue, and no reject of a
\* chunk that was read before one in the file is missing there.
NoGap ==
  /\ InTurn(dlfile) /\ InTurn(dlq)
  /\ Precedes(Lines(dlfile), Lines(dlq))
  /\ \A y \in Lines(dlfile), z \in DeadRead :
       z[1] = y[1] /\ z[2] < y[2] => z \in Lines(dlfile)

(***************************************************************************)
(* A queue stays in turn when a later line joins it and when one leaves.   *)
(***************************************************************************)
LEMMA TurnMoves ==
  ASSUME NEW T, NEW s \in Seq(T), NEW x \in T, InTurn(s)
  PROVE  /\ Precedes(Lines(s), {x}) => InTurn(Append(s, x))
         /\ s # <<>> => /\ InTurn(Tail(s))
                        /\ Precedes({Head(s)}, Lines(Tail(s)))
<1>1. ASSUME Precedes(Lines(s), {x}) PROVE InTurn(Append(s, x))
  <2> DEFINE t == Append(s, x)
  <2>1. /\ Len(s) \in Nat /\ DOMAIN s = 1 .. Len(s)
        /\ DOMAIN t = 1 .. Len(s) + 1 /\ t[Len(s) + 1] = x
        /\ \A i \in DOMAIN s : t[i] = s[i]
    OBVIOUS
  <2> HIDE DEF t
  <2>2. ASSUME NEW i \in DOMAIN t, NEW j \in DOMAIN t, i < j
        PROVE  Precedes({t[i]}, {t[j]})
    <3>1. i \in DOMAIN s /\ t[i] = s[i] /\ s[i] \in Lines(s)
      BY <2>1, <2>2 DEF Lines
    <3>2. CASE j \in DOMAIN s
      BY <2>1, <2>2, <3>1, <3>2 DEF InTurn
    <3>3. CASE j = Len(s) + 1
      BY <1>1, <2>1, <3>1, <3>3 DEF Precedes
    <3> QED
      BY <2>1, <2>2, <3>2, <3>3
  <2> QED
    BY <2>2 DEF InTurn, t
<1>2. ASSUME s # <<>>
      PROVE  InTurn(Tail(s)) /\ Precedes({Head(s)}, Lines(Tail(s)))
  <2> DEFINE t == Tail(s)
  <2>1. /\ Head(s) = s[1] /\ 1 \in DOMAIN s
        /\ \A i \in DOMAIN t : /\ t[i] = s[i + 1] /\ i + 1 \in DOMAIN s
                                /\ i \in Nat /\ 1 < i + 1
    BY <1>2
  <2>2. \A i, j \in DOMAIN t : i < j => i + 1 < j + 1
    BY <2>1
  <2> HIDE DEF t
  <2>3. InTurn(t)
    BY <2>1, <2>2 DEF InTurn
  <2>4. \A i \in DOMAIN t : Precedes({Head(s)}, {t[i]})
    BY <2>1 DEF InTurn
  <2>5. Precedes({Head(s)}, Lines(t))
    BY <2>4 DEF Precedes, Lines
  <2> QED
    BY <2>3, <2>5 DEF t
<1> QED
  BY <1>1, <1>2

(***************************************************************************)
(* No step leaves a gap in the dead-letter file: a line joins the queue    *)
(* after all that were rejected before it in its chunk, the thread writes  *)
(* the first of the queue, and a thread that dies writes no more.          *)
(***************************************************************************)
LEMMA NextNoGap ==
  ASSUME IInv, Quarantined, NoGap, [Next]_vars
  PROVE  NoGap'
<1> USE DEF caller, shared, workers, sink, quarantine
<1>1. /\ dlq \in Seq(Place) /\ dlfile \in Seq(Place)
      /\ Lines(dlq) \cup Lines(dlfile) \subseteq DeadRead
  BY DEF IInv, TypeOK, QuarantineType, Quarantined
<1>2. CASE UNCHANGED <<DeadRead, dlq, dlfile>>
  BY <1>2 DEF NoGap
<1>3. ASSUME NEW c \in Chunk, Worker(c) PROVE NoGap'
  <2>1. dlfile' = dlfile
    BY <1>3
    DEF Worker, StartChunk, SkipChunk, BlankLine, BadLine, Row, AbortingLine,
        EndChunk, FailChunk, Send, HandOver, SendClosed, ChunkDone
  <2>2. CASE DeadRead' = DeadRead /\ dlq' = dlq
    BY <1>2, <2>1, <2>2
  <2>3. ASSUME NEW x \in Place, DeadRead' = DeadRead \cup {x},
               x \notin DeadRead, Precedes(DeadRead, {x}),
               dlq' = IF DlAlive THEN Append(dlq, x) ELSE dlq
        PROVE  NoGap'
    <3>1. Precedes(Lines(dlq), {x}) /\ Precedes(Lines(dlfile), {x})
      BY <1>1, <2>3 DEF Precedes
    <3>2. /\ InTurn(dlq')
          /\ Lines(dlq') \subseteq Lines(dlq) \cup {x}
      <4>1. InTurn(dlq)
        BY DEF NoGap
      <4>2. InTurn(Append(dlq, x))
        BY <1>1, <2>3, <3>1, <4>1, TurnMoves
      <4>3. Lines(Append(dlq, x)) = Lines(dlq) \cup {x}
        BY <1>1, <2>3, LinesMove
      <4> QED
        BY <2>3, <4>1, <4>2, <4>3
    <3>3. Precedes(Lines(dlfile'), Lines(dlq'))
      BY <2>1, <3>1, <3>2 DEF NoGap, Precedes
    <3>4. ASSUME NEW y \in Lines(dlfile), NEW z \in DeadRead',
                 z[1] = y[1], z[2] < y[2]
          PROVE  z \in Lines(dlfile)
      <4>1. z # x
        <5>1. y \in Place /\ (x[1] = y[1] => y[2] < x[2])
          BY <1>1, <2>3, <3>1 DEF Precedes, Lines
        <5>2. ~(x[2] < y[2] /\ y[2] < x[2])
          BY <2>3, <5>1 DEF Place
        <5> QED
          BY <3>4, <5>1, <5>2
      <4> QED
        BY <2>3, <3>4, <4>1 DEF NoGap
    <3> QED
      BY <2>1, <3>2, <3>3, <3>4 DEF NoGap
  <2> QED
    BY <1>3, <2>2, <2>3, DeadMoves
<1>4. CASE WriteDead /\ UNCHANGED workers
  <2> DEFINE h == Head(dlq)
  <2>1. /\ dl = "recv" /\ dlq # <<>> /\ dlfile' = Append(dlfile, h)
        /\ dlq' = Tail(dlq) /\ h \in Place
    BY <1>1, <1>4 DEF WriteDead
  <2>2. DeadRead' = DeadRead
    BY <1>4 DEF DeadRead, DeadSoFar
  <2>3. /\ Lines(dlfile') = Lines(dlfile) \cup {h}
        /\ Lines(dlq) = {h} \cup Lines(dlq')
        /\ InTurn(dlq') /\ Precedes({h}, Lines(dlq'))
    <3>1. InTurn(dlq)
      BY DEF NoGap
    <3>2. InTurn(dlq') /\ Precedes({h}, Lines(dlq'))
      BY <1>1, <2>1, <3>1, TurnMoves
    <3>3. Lines(dlfile') = Lines(dlfile) \cup {h}
      BY <1>1, <2>1, LinesMove
    <3>4. Lines(dlq) = {h} \cup Lines(dlq')
      BY <1>1, <2>1, LinesMove
    <3> QED
      BY <3>2, <3>3, <3>4
  <2>4. Precedes(Lines(dlfile), {h})
    BY <2>3 DEF NoGap, Precedes
  <2>5. InTurn(dlfile')
    BY <1>1, <2>1, <2>4, TurnMoves DEF NoGap
  <2>6. Precedes(Lines(dlfile'), Lines(dlq'))
    BY <2>3 DEF NoGap, Precedes
  <2>7. ASSUME NEW z \in DeadRead, z[1] = h[1], z[2] < h[2]
        PROVE  z \in Lines(dlfile)
    <3>1. z \in Lines(dlq) \cup Lines(dlfile)
      BY <2>1 DEF Quarantined
    <3>2. z # h
      <4>1. ~(h[2] < h[2])
        BY <2>1 DEF Place
      <4> QED
        BY <2>7, <4>1
    <3>3. z \notin Lines(dlq')
      <4>1. ASSUME z \in Lines(dlq') PROVE FALSE
        <5>1. h[2] < z[2] /\ z \in Place
          BY <1>1, <2>3, <2>7, <4>1 DEF Precedes, Lines
        <5> QED
          BY <2>1, <2>7, <5>1 DEF Place
      <4> QED
        BY <4>1
    <3> QED
      BY <2>3, <3>1, <3>2, <3>3
  <2>8. \A y \in Lines(dlfile'), z \in DeadRead' :
          z[1] = y[1] /\ z[2] < y[2] => z \in Lines(dlfile')
    BY <2>2, <2>3, <2>7 DEF NoGap
  <2> QED
    BY <2>3, <2>5, <2>6, <2>8 DEF NoGap
<1>5. CASE /\ OpenDeadFails \/ WriteDeadFails
           /\ UNCHANGED workers
  <2>1. dlq' = <<>> /\ dlfile' = dlfile /\ Lines(dlq') = {}
    BY <1>5 DEF OpenDeadFails, WriteDeadFails, DeadDies, Lines
  <2>2. DeadRead' = DeadRead
    BY <1>5 DEF DeadRead, DeadSoFar
  <2> QED
    BY <2>1, <2>2 DEF NoGap, InTurn, Precedes
<1>6. CASE UNCHANGED <<workers, dlq, dlfile>>
  <2>1. DeadRead' = DeadRead
    BY <1>6 DEF DeadRead, DeadSoFar
  <2> QED
    BY <1>2, <1>6, <2>1
<1>7. CASE DeadLetter /\ UNCHANGED <<caller, shared, workers, chan, sink>>
  BY <1>4, <1>5, <1>6, <1>7 DEF DeadLetter, OpenDead, CloseDead
<1> QED
  BY <1>3, <1>6, <1>7, StepKinds

------------------------------------------------------------------------------
\* The caller has no result until it returns.
Running == result = "none" <=> main # "returned"

DInv == /\ SentWhole
        /\ Counted
        /\ Footer
        /\ Ordered
        /\ Quarantined
        /\ NoGap
        /\ Running

(***************************************************************************)
(* Nothing is sent, counted or rejected at the start.                      *)
(***************************************************************************)
LEMMA InitDInv == Init => DInv
<1> SUFFICES ASSUME Init PROVE DInv
  OBVIOUS
<1>1. Sent = {} /\ SentRows = {} /\ SentDead = {}
  BY DEF Init, Sent, SentRows, SentDead
<1>2. IsFiniteSet({}) /\ Cardinality({}) = 0
  BY FS_EmptySet
<1>3. SentWhole /\ Counted /\ Footer /\ Running
  BY <1>1, <1>2 DEF Init, SentWhole, Counted, Footer, Running
<1>4. Contents(<<>>) = {} /\ Lines(<<>>) = {} /\ InLine(<<>>)
  BY DEF Contents, Lines, InLine
<1>5. InTransit = {}
  BY <1>4 DEF Init, InTransit
<1>6. Ordered
  BY <1>4, <1>5 DEF Init, Ordered, Precedes
<1>7. DeadRead = {}
  BY DEF Init, NewParser, DeadRead, DeadSoFar, Tagged
<1>8. Quarantined
  BY <1>2, <1>4, <1>7 DEF Init, Quarantined
<1>9. NoGap
  BY <1>4, <1>7 DEF Init, NoGap, InTurn, Precedes
<1> QED
  BY <1>3, <1>6, <1>8, <1>9 DEF DInv

(***************************************************************************)
(* Only the caller sets the result, as it returns.                         *)
(***************************************************************************)
LEMMA NextRunning ==
  ASSUME Running, [Next]_vars
  PROVE  Running'
<1> USE DEF caller, shared, workers, sink, quarantine
<1>1. CASE UNCHANGED <<main, result>>
  BY <1>1 DEF Running
<1>2. ASSUME NEW c \in Chunk, Worker(c) PROVE UNCHANGED <<main, result>>
  BY <1>2
  DEF Worker, StartChunk, SkipChunk, BlankLine, BadLine, Row, AbortingLine,
      EndChunk, FailChunk, Send, HandOver, SendClosed, ChunkDone
<1>3. CASE Caller
  BY <1>3
  DEF Running, Return, Caller, CallerOnly, Spawn, SetupFails, BeginJoin,
      ReturnParseError, JoinWriter, AfterWriter, JoinWriterFails, JoinDead,
      JoinDeadFails
<1> QED
  BY <1>1, <1>2, <1>3, StepKinds

(***************************************************************************)
(* What delivery rests on, in every behaviour.                             *)
(***************************************************************************)
LEMMA DeliveryInvariance == Spec => [](IInv /\ EInv /\ NothingLost /\ DInv)
<1>1. IInv /\ EInv /\ DInv /\ [Next]_vars => DInv'
  BY NextSentWhole, NextCounted, NextFooter, NextOrdered, NextQuarantined,
     NextNoGap, NextRunning
  DEF DInv
<1> QED
  BY <1>1, InitDInv, Invariance, KnowsInvariance, NoRowLost, PTL DEF Spec

------------------------------------------------------------------------------
(***************************************************************************)
(* The rows of a chunk are in the file in line order, however the batches  *)
(* of the chunks interleave.                                               *)
(***************************************************************************)
THEOREM FileInOrder == Spec => []ChunkOrderKept
<1>1. DInv => ChunkOrderKept
  BY DEF DInv, Ordered, InLine, Precedes, ChunkOrderKept
<1> QED
  BY <1>1, DeliveryInvariance, PTL

(***************************************************************************)
(* Behind the footer are all rows of the chunks that were sent, once each. *)
(***************************************************************************)
LEMMA ClosedIsWhole ==
  ASSUME IInv, EInv, NothingLost, DInv, output = "closed"
  PROVE  /\ \A c \in Chunk : pc[c] \in Settled
         /\ Sent = {d \in Chunk : pc[d] = "done"}
         /\ Exactly(written, SentRows)
<1>1. /\ SentWhole /\ Ordered /\ Footer /\ WriterLife
      /\ written \in Seq(Batch)
  BY DEF DInv, IInv, Control, TypeOK, SinkType
<1>2. writer = "ok" /\ chan = <<>> /\ inhand = <<>>
      /\ \A c \in Chunk : pc[c] \in Settled
  BY <1>1 DEF Footer, WriterLife
<1>3. Sent = {d \in Chunk : pc[d] = "done"}
  BY <1>2 DEF Sent, Settled
<1>4. Contents(<<>>) = {}
  BY DEF Contents
<1>5. InTransit = Contents(written)
  BY <1>2, <1>4 DEF InTransit
<1>6. ASSUME NEW c \in Sent PROVE OwedIn(c) \subseteq Contents(written)
  <2>1. pc[c] = "done" /\ c \in Chunk
    BY <1>3
  <2>2. Held(c) = {}
    BY <1>1, <1>4, <2>1, SentOwes DEF SentWhole, Held, Tagged
  <2>3. Tagged(c, RowsSoFar(c)) \subseteq Contents(written)
    BY <1>2, <1>5, <2>1, <2>2 DEF NothingLost
  <2> QED
    BY <1>1, <2>3, SentOwes DEF OwedIn
<1>7. Contents(written) = SentRows
  BY <1>1, <1>5, <1>6 DEF Ordered, SentRows
<1>8. ASSUME NEW i \in DOMAIN written, NEW j \in DOMAIN written, i # j
      PROVE  written[i] \cap written[j] = {}
  <2>1. /\ i \in Nat /\ j \in Nat
        /\ written[i] \in Batch /\ written[j] \in Batch
    BY <1>1
  <2>2. Precedes(written[i], written[j]) \/ Precedes(written[j], written[i])
    BY <1>1, <1>8, <2>1 DEF Ordered, InLine
  <2>3. \A a \in written[i] : a[2] \in Nat
    BY <2>1 DEF Batch, Place
  <2>4. \A a \in written[i] : ~(a[2] < a[2])
    BY <2>3
  <2> QED
    BY <2>2, <2>4 DEF Precedes
<1> QED
  BY <1>2, <1>3, <1>7, <1>8 DEF Exactly

(***************************************************************************)
(* Whenever the output file has a footer, after whatever failed, it holds  *)
(* exactly the rows of the chunks that were done, each once.               *)
(***************************************************************************)
THEOREM FooterIsWhole == Spec => []FooterMeansWholeChunks
<1>1. IInv /\ EInv /\ NothingLost /\ DInv => FooterMeansWholeChunks
  BY ClosedIsWhole DEF FooterMeansWholeChunks, SentRows
<1> QED
  BY <1>1, DeliveryInvariance, PTL

(***************************************************************************)
(* When Ok is returned every chunk was sent, and nothing else was counted  *)
(* or rejected.                                                            *)
(***************************************************************************)
LEMMA OkIsAll ==
  ASSUME IInv, EInv, NothingLost, DInv, result = "ok"
  PROVE  /\ output = "closed" /\ Exactly(written, AllOwed) /\ Clean
         /\ SentRows = AllOwed /\ SentDead = AllDead /\ DeadRead = AllDead
         /\ dl \in {"ok", "none"}
<1>1. /\ AllDone /\ writer = "ok" /\ dl \in {"ok", "none"}
      /\ SentWhole /\ Footer
  BY DEF IInv, Control, JoinOrder, DInv
<1>2. output = "closed" /\ Sent = Chunk
  BY <1>1 DEF Footer, AllDone, Sent
<1>3. SentRows = AllOwed /\ SentDead = AllDead
  BY <1>2 DEF SentRows, AllOwed, SentDead, AllDead
<1>4. \A c \in Chunk : /\ DeadSoFar(c) = OwedDead(config, Input[c])
                       /\ Offending(config, Input[c]) = {}
  BY <1>1, <1>2, SentOwes
<1>5. DeadRead = AllDead /\ Clean
  BY <1>4 DEF DeadRead, AllDead, Clean
<1> QED
  BY <1>1, <1>2, <1>3, <1>5, ClosedIsWhole

(***************************************************************************)
(* When run_pipeline returns Ok, the file has its footer and every owed    *)
(* row of every chunk, once, and no line was at fault: for every input,    *)
(* configuration, number of threads and depth of the channel.              *)
(***************************************************************************)
THEOREM OkIsComplete == Spec => []OkMeansComplete
<1>1. IInv /\ EInv /\ NothingLost /\ DInv => OkMeansComplete
  BY OkIsAll DEF OkMeansComplete
<1> QED
  BY <1>1, DeliveryInvariance, PTL

(***************************************************************************)
(* The counters that the workers added up are those of the file.           *)
(***************************************************************************)
THEOREM MetricsTrue == Spec => []MetricsMatchFile
<1>1. IInv /\ EInv /\ NothingLost /\ DInv => MetricsMatchFile
  <2> SUFFICES ASSUME IInv, EInv, NothingLost, DInv, result = "ok"
               PROVE  /\ total_rows = Cardinality(Contents(written))
                      /\ error_rows = Cardinality(AllDead)
    BY DEF MetricsMatchFile
  <2>1. SentRows = Contents(written) /\ SentDead = AllDead
    BY OkIsAll DEF Exactly
  <2> QED
    BY <2>1 DEF DInv, Counted
<1> QED
  BY <1>1, DeliveryInvariance, PTL

(***************************************************************************)
(* After Ok the dead-letter file holds every rejected line, once.          *)
(***************************************************************************)
LEMMA DeadFileIsAll ==
  ASSUME IInv, EInv, NothingLost, DInv, result = "ok", config.dead_letter
  PROVE  Lines(dlfile) = AllDead /\ Len(dlfile) = Cardinality(AllDead)
<1>1. DeadRead = AllDead /\ dl = "ok" /\ Quarantined
  BY OkIsAll DEF DInv, Quarantined
<1>2. dlq = <<>> /\ Lines(dlq) = {} /\ Len(dlq) = 0
  BY <1>1 DEF Quarantined, Lines
<1>3. Len(dlfile) \in Nat
  BY DEF IInv, TypeOK, QuarantineType
<1>4. Lines(dlfile) = DeadRead
  BY <1>1, <1>2 DEF Quarantined
<1>5. Len(dlq) + Len(dlfile) = Cardinality(DeadRead)
  BY <1>1 DEF Quarantined
<1> QED
  BY <1>1, <1>2, <1>3, <1>4, <1>5

(***************************************************************************)
(* "Zero data loss" for every input: after Ok with a dead-letter path, the *)
(* file there holds every rejected line exactly once.                      *)
(***************************************************************************)
THEOREM QuarantineWhole == Spec => []QuarantineComplete
<1>1. IInv /\ EInv /\ NothingLost /\ DInv => QuarantineComplete
  BY DeadFileIsAll DEF QuarantineComplete, Lines
<1> QED
  BY <1>1, DeliveryInvariance, PTL

------------------------------------------------------------------------------
\* What was rejected so far is owed to the quarantine.
DeadIsOwed == DeadRead \subseteq AllDead

(***************************************************************************)
(* A parser reads, and rejects, only lines within the limit.               *)
(***************************************************************************)
LEMMA RejectsAreOwed == Spec => []DeadIsOwed
<1>1. IInv /\ EInv => DeadIsOwed
  <2> SUFFICES ASSUME IInv, EInv PROVE DeadIsOwed
    OBVIOUS
  <2>1. ASSUME NEW c \in Chunk
        PROVE  DeadSoFar(c) \subseteq OwedDead(config, Input[c])
    <3>1. /\ \A k \in 1 .. parser[c].line : k \in Reached(config, Input[c])
      BY SoFar DEF Knows, Exact
    <3> QED
      BY <3>1 DEF DeadSoFar, OwedDead
  <2> QED
    BY <2>1 DEF DeadIsOwed, DeadRead, AllDead, Tagged
<1> QED
  BY <1>1, DeliveryInvariance, PTL

(***************************************************************************)
(* QuarantinePrefix, for every input: whatever fails or dies, the lines of *)
(* a chunk in the dead-letter file are its first rejects, in line order.   *)
(***************************************************************************)
THEOREM QuarantineHasNoGap == Spec => []QuarantinePrefix
<1>1. IInv /\ DInv /\ DeadIsOwed => QuarantinePrefix
  <2> SUFFICES ASSUME IInv, DInv, DeadIsOwed PROVE QuarantinePrefix
    OBVIOUS
  <2>1. /\ InTurn(dlfile) /\ Lines(dlfile) \subseteq DeadRead
        /\ \A y \in Lines(dlfile), z \in DeadRead :
             z[1] = y[1] /\ z[2] < y[2] => z \in Lines(dlfile)
    BY DEF DInv, Quarantined, NoGap
  <2>2. \A i, j \in DOMAIN dlfile : i < j /\ dlfile[i][1] = dlfile[j][1] =>
          dlfile[i][2] < dlfile[j][2]
    BY <2>1 DEF InTurn, Precedes
  <2>3. ASSUME NEW y \in Lines(dlfile), NEW z \in AllDead,
               z[1] = y[1], z[2] < y[2]
        PROVE  z \in Lines(dlfile)
    <3>1. PICK c \in Chunk : z \in Tagged(c, OwedDead(config, Input[c]))
      BY DEF AllDead
    <3>2. z = <<c, z[2]>> /\ z[2] \in OwedDead(config, Input[c])
      BY <3>1 DEF Tagged
    <3>3. y[2] \in 1 .. parser[c].line
      BY <2>1, <2>3, <3>2 DEF DeadRead, Tagged, DeadSoFar
    <3>4. z[2] \in 1 .. parser[c].line /\ Skips(config, Input[c][z[2]])
      <4>1. parser[c].line \in Nat
        BY DEF IInv, TypeOK, WorkersType, ParserState
      <4>2. z[2] \in 1 .. Len(Input[c]) /\ Skips(config, Input[c][z[2]])
        BY <3>2 DEF OwedDead, Reached
      <4> QED
        BY <2>3, <3>3, <4>1, <4>2
    <3>5. z \in DeadRead
      BY <3>2, <3>4 DEF DeadRead, Tagged, DeadSoFar
    <3> QED
      BY <2>1, <2>3, <3>5
  <2>4. Lines(dlfile) \subseteq AllDead
    BY <2>1 DEF DeadIsOwed
  <2> QED
    BY <2>2, <2>3, <2>4 DEF QuarantinePrefix, Lines
<1> QED
  BY <1>1, DeliveryInvariance, RejectsAreOwed, PTL

(***************************************************************************)
(* The files only grow, and only by what is owed.                          *)
(***************************************************************************)
LEMMA FilesGrow ==
  ASSUME IInv, DInv, DInv', DeadIsOwed', [Next]_vars
  PROVE  \/ /\ UNCHANGED <<dlfile, result>>
            /\ Contents(written) \subseteq Contents(written')
            /\ Contents(written') \subseteq AllOwed
         \/ /\ UNCHANGED <<written, result>>
            /\ Lines(dlfile) \subseteq Lines(dlfile')
            /\ Lines(dlfile') \subseteq AllDead /\ config.dead_letter
         \/ /\ UNCHANGED <<written, dlfile>>
            /\ result = "none"
<1> USE DEF caller, shared, workers, sink, quarantine
<1>1. Contents(written') \subseteq AllOwed
  BY DEF DInv, Ordered, InTransit, SentRows, AllOwed, Sent
<1>2. CASE UNCHANGED <<written, dlfile, result>>
  BY <1>1, <1>2
<1>3. ASSUME NEW c \in Chunk, Worker(c) PROVE UNCHANGED <<written, dlfile, result>>
  BY <1>3
  DEF Worker, StartChunk, SkipChunk, BlankLine, BadLine, Row, AbortingLine,
      EndChunk, FailChunk, Send, HandOver, SendClosed, ChunkDone
<1>4. CASE Writer /\ UNCHANGED <<caller, shared, workers, quarantine>>
  <2>1. written' = written \/ written' = written \o inhand
    BY <1>4 DEF Writer, OpenOutput, OpenFails, Receive, WriteBatch, WriteFails,
                CloseOutput, CloseFails, WriterDies
  <2>2. Contents(written) \subseteq Contents(written')
    BY <2>1, ContentsConcat DEF IInv, TypeOK, SinkType
  <2> QED
    BY <1>1, <1>4, <2>2
<1>5. CASE DeadLetter /\ UNCHANGED <<caller, shared, workers, chan, sink>>
  <2>1. \/ dlfile' = dlfile
        \/ dlq # <<>> /\ dlfile' = Append(dlfile, Head(dlq))
    BY <1>5 DEF DeadLetter, OpenDead, OpenDeadFails, WriteDead, WriteDeadFails,
                CloseDead, DeadDies
  <2>2. dlq \in Seq(Place) /\ dlfile \in Seq(Place)
    BY DEF IInv, TypeOK, QuarantineType
  <2>3. dlq # <<>> => Head(dlq) \in Place
    BY <2>2
  <2>4. Lines(dlfile) \subseteq Lines(dlfile')
    <3>1. CASE dlq # <<>> /\ dlfile' = Append(dlfile, Head(dlq))
      <4>1. Lines(dlfile') = Lines(dlfile) \cup {Head(dlq)}
        BY <2>2, <2>3, <3>1, LinesMove
      <4> QED
        BY <4>1
    <3> QED
      BY <2>1, <3>1
  <2>5. Lines(dlfile') \subseteq AllDead
    BY DEF DInv, Quarantined, DeadIsOwed, AllDead
  <2>6. config.dead_letter
    BY <1>5, ChunkFacts
    DEF IInv, Control, JoinOrder, DeadLetter, OpenDead, OpenDeadFails,
        WriteDead, WriteDeadFails, CloseDead
  <2> QED
    BY <1>5, <2>4, <2>5, <2>6
<1>6. CASE Caller /\ UNCHANGED <<written, dlfile>>
  <2>1. main # "returned"
    BY <1>6
    DEF Caller, Spawn, SetupFails, BeginJoin, ReturnParseError, JoinWriter,
        JoinWriterFails, JoinDead, JoinDeadFails
  <2> QED
    BY <1>6, <2>1 DEF DInv, Running
<1> QED
  BY <1>2, <1>3, <1>4, <1>5, <1>6, StepKinds

(***************************************************************************)
(* The pipeline implements the safety of Conversion: rows and dead letters *)
(* reach their files, never more than is owed, and the call returns Ok     *)
(* only over complete files, which stay as they are.                       *)
(***************************************************************************)
THEOREM PromiseIsSafe ==
  Spec => Promise!Init /\ [][Promise!Next]_(Promise!vars)
<1> DEFINE Sound == IInv /\ DInv /\ OkMeansComplete /\ QuarantineComplete
                     /\ DeadIsOwed
<1>1. Init => Promise!Init
  <2>1. Contents(<<>>) = {} /\ {<<>>[i] : i \in DOMAIN <<>>} = {}
    BY DEF Contents
  <2> QED
    BY <2>1 DEF Init, Promise!Init
<1>2. Sound /\ Sound' /\ [Next]_vars /\ [result = "ok" => UNCHANGED <<sink, quarantine>>]_vars
        => [Promise!Next]_(Promise!vars)
  <2> SUFFICES ASSUME Sound, Sound', [Next]_vars,
                      [result = "ok" => UNCHANGED <<sink, quarantine>>]_vars
               PROVE  [Promise!Next]_(Promise!vars)
    OBVIOUS
  <2> USE DEF Promise!vars
  <2>1. result = "ok" => UNCHANGED <<written, dlfile>>
    BY DEF vars, sink, quarantine
  <2>2. CASE UNCHANGED <<written, dlfile, result>>
    BY <2>2
  <2>3. CASE /\ UNCHANGED <<dlfile, result>>
             /\ Contents(written) \subseteq Contents(written')
             /\ Contents(written') \subseteq AllOwed
    BY <2>1, <2>2, <2>3 DEF Promise!Next, Promise!Deliver
  <2>4. CASE /\ UNCHANGED <<written, result>>
             /\ Lines(dlfile) \subseteq Lines(dlfile')
             /\ Lines(dlfile') \subseteq AllDead /\ config.dead_letter
    BY <2>1, <2>2, <2>4 DEF Promise!Next, Promise!Quarantine, Lines
  <2>5. CASE UNCHANGED <<written, dlfile>> /\ result = "none"
    <3>1. CASE result' = "ok"
      <4>1. Contents(written') = AllOwed /\ Clean
        BY <3>1 DEF OkMeansComplete, Exactly, AllOwed, Clean
      <4>2. Lines(dlfile') = IF config.dead_letter THEN AllDead ELSE {}
        <5>1. CASE config.dead_letter
          BY <3>1, <5>1 DEF QuarantineComplete, Lines, AllDead
        <5>2. CASE ~config.dead_letter
          BY <5>2 DEF DInv, Quarantined, Lines
        <5> QED
          BY <5>1, <5>2
      <4> QED
        BY <2>5, <3>1, <4>1, <4>2 DEF Promise!Next, Promise!Succeed, Lines
    <3>2. CASE result' \notin {"ok", "none"}
      BY <2>5, <3>2 DEF Promise!Next, Promise!Fail
    <3> QED
      BY <2>2, <2>5, <3>1, <3>2
  <2> QED
    BY <2>2, <2>3, <2>4, <2>5, FilesGrow
<1> QED
  BY <1>1, <1>2, DeliveryInvariance, OkIsComplete, QuarantineWhole,
     RejectsAreOwed, FilesFinal, PTL
  DEF Spec, FinalAfterOk
==============================================================================
