------------------------------ MODULE Pipeline ------------------------------
(***************************************************************************)
(* parq-core: run_pipeline.  The calling thread starts a writer thread and *)
(* a dead-letter thread and blocks in a rayon loop over the chunks; the    *)
(* workers parse chunks and send the batches over a bounded channel to the *)
(* writer and rejected lines over an unbounded one to the dead-letter      *)
(* thread; the caller then joins both threads, unless a chunk failed.      *)
(***************************************************************************)
EXTENDS ParseChunk, Integers

CONSTANTS
  Input,    \* the chunks of the input, each a sequence of line kinds
  config,   \* the PipelineConfig
  Host,     \* "cli": the process exits once the call returned;
            \* "embedded": it lives on, as a Python interpreter does
  Faults    \* the operations on files that may fail in this environment;
            \* "kill": the process may die at any moment

Chunk == DOMAIN Input

PipelineConfig ==
  [batch_size : Nat, ignore_errors : BOOLEAN, limit : Nat \cup {NoLimit},
   channel_depth : Nat, threads : Nat \ {0}, dead_letter : BOOLEAN]

Fault == {"setup", "open", "write", "close",
          "dead_open", "dead_write", "kill"}

ASSUME PipelineAssumption ==
  /\ NoLimit \notin Nat
  /\ Input \in Seq(Seq(LineKind))
  /\ config \in PipelineConfig
  /\ Host \in {"cli", "embedded"}
  /\ Faults \subseteq Fault

NoError == [kind |-> "none", chunk |-> 0, line |-> 0]
ParseError == [kind : ErrKind \ {"none"}, chunk : Chunk, line : Nat \ {0}]

VARIABLES
  main,         \* where the calling thread is in run_pipeline
  result,       \* what it returned: "ok" or which error; "none" before
  reported,     \* the parse error it returned, if any
  parse_error,  \* the mutex-protected first error of the workers
  total_rows,   \* the shared counters
  error_rows,
  pc,           \* per chunk: where its worker is, or why it has none
  parser,       \* per chunk: the locals of parse_chunk
  chan,         \* batches in the bounded channel
  writer,       \* where the writer thread is
  inhand,       \* the batch the writer has received and not yet written
  output,       \* the output file: "untouched", "partial" or "closed"
  written,      \* the batches written to it
  dl,           \* where the dead-letter thread is
  dlq,          \* lines in the unbounded channel
  dlfile,       \* lines in the dead-letter file
  exited        \* the process is gone, and its threads with it

caller  == <<main, result, reported>>
shared  == <<parse_error, total_rows, error_rows>>
workers == <<pc, parser>>
sink    == <<writer, inhand, output, written>>
quarantine == <<dl, dlq, dlfile>>
vars == <<caller, shared, workers, chan, sink, quarantine, exited>>

\* A row is known by its chunk and its line; a batch is a set of rows.
Tagged(c, rows) == {c} \X rows

Settled == {"done", "skipped", "failed"}
Busy == {c \in Chunk : pc[c] \notin Settled \cup {"pending"}}

\* for_each_with has returned or is about to.
LoopOver == main # "setup" /\ \A c \in Chunk : pc[c] \in Settled

\* Every clone of tx and dl_tx is dropped: the loop owned them all.
SendersGone == LoopOver

\* Mutant of RxAlive: the receiver outlives its thread.
RxImmortal == writer # "unborn"

\* rx is moved into the writer thread and dropped with it.
RxAlive == writer \in {"opening", "recv", "writing"}
DlAlive == dl \in {"opening", "recv"}

------------------------------------------------------------------------------
Init ==
  /\ main = "setup" /\ result = "none" /\ reported = NoError
  /\ parse_error = NoError /\ total_rows = 0 /\ error_rows = 0
  /\ pc = [c \in Chunk |-> "pending"]
  /\ parser = [c \in Chunk |-> NewParser]
  /\ chan = <<>>
  /\ writer = "unborn" /\ inhand = <<>>
  /\ output = "untouched" /\ written = <<>>
  /\ dl = "unborn" /\ dlq = <<>> /\ dlfile = <<>>
  /\ exited = FALSE

------------------------------------------------------------------------------
(* The calling thread.                                                     *)

CallerOnly == UNCHANGED <<shared, workers, chan, sink, quarantine>>

Return(outcome) == main' = "returned" /\ result' = outcome

\* Opening, mapping, hashing, schema and partitioning went well.
Spawn ==
  /\ main = "setup"
  /\ main' = "parsing"
  /\ writer' = "opening"
  /\ dl' = IF config.dead_letter THEN "opening" ELSE "none"
  /\ UNCHANGED <<result, reported, shared, workers, chan, inhand, output,
                 written, dlq, dlfile>>

\* One of them failed, before any thread or file was created.
SetupFails ==
  /\ main = "setup"
  /\ "setup" \in Faults
  /\ Return("setup")
  /\ UNCHANGED reported
  /\ CallerOnly

BeginJoin ==
  /\ main = "parsing"
  /\ LoopOver
  /\ parse_error = NoError
  /\ main' = "join_writer"
  /\ UNCHANGED <<result, reported>>
  /\ CallerOnly

\* The first error is taken and returned; the threads are not joined.
ReturnParseError ==
  /\ main = "parsing"
  /\ LoopOver
  /\ parse_error # NoError
  /\ Return("parse")
  /\ reported' = parse_error
  /\ parse_error' = NoError
  /\ UNCHANGED <<total_rows, error_rows, workers, chan, sink, quarantine>>

\* The writer is done: wait for the dead-letter thread if there is one.
AfterWriter ==
  /\ \/ config.dead_letter /\ main' = "join_dl" /\ UNCHANGED result
     \/ ~config.dead_letter /\ Return("ok")
  /\ UNCHANGED reported
  /\ CallerOnly

\* Mutant of JoinWriter: the caller does not wait for the writer.
JoinWriterEarly == main = "join_writer" /\ writer # "err" /\ AfterWriter

JoinWriter == main = "join_writer" /\ writer = "ok" /\ AfterWriter

\* The writer's error is returned; the dead-letter thread is not joined.
JoinWriterFails ==
  /\ main = "join_writer"
  /\ writer = "err"
  /\ Return("writer")
  /\ UNCHANGED reported
  /\ CallerOnly

\* Mutant of JoinDead: the caller does not wait for the thread.
JoinDeadEarly ==
  /\ main = "join_dl"
  /\ dl # "err"
  /\ Return("ok")
  /\ UNCHANGED reported
  /\ CallerOnly

JoinDead ==
  /\ main = "join_dl"
  /\ dl = "ok"
  /\ Return("ok")
  /\ UNCHANGED reported
  /\ CallerOnly

\* Mutant of JoinDeadFails: the thread's own result is not unwrapped.
JoinDeadIgnored ==
  /\ main = "join_dl"
  /\ dl = "err"
  /\ Return("ok")
  /\ UNCHANGED reported
  /\ CallerOnly

JoinDeadFails ==
  /\ main = "join_dl"
  /\ dl = "err"
  /\ Return("dead_letter")
  /\ UNCHANGED reported
  /\ CallerOnly

Caller ==
  \/ Spawn
  \/ SetupFails
  \/ BeginJoin
  \/ ReturnParseError
  \/ JoinWriter
  \/ JoinWriterFails
  \/ JoinDead
  \/ JoinDeadFails

------------------------------------------------------------------------------
(* The rayon workers, each a chunk at a time.                              *)

\* A free worker takes a chunk and finds no error in the mutex.
StartChunk(c) ==
  /\ main = "parsing"
  /\ pc[c] = "pending"
  /\ Cardinality(Busy) < config.threads
  /\ parse_error = NoError
  /\ pc' = [pc EXCEPT ![c] = "parsing"]
  /\ UNCHANGED <<caller, shared, parser, chan, sink, quarantine>>

\* It finds one: the chunk is left out.
SkipChunk(c) ==
  /\ main = "parsing"
  /\ pc[c] = "pending"
  /\ Cardinality(Busy) < config.threads
  /\ parse_error # NoError
  /\ pc' = [pc EXCEPT ![c] = "skipped"]
  /\ UNCHANGED <<caller, shared, parser, chan, sink, quarantine>>

AtLine(c) == pc[c] = "parsing" /\ More(config, Input[c], parser[c])
Line(c) == Current(Input[c], parser[c])

\* The worker goes on from the step that left q in parser[c].
Proceed(c, q, next) ==
  /\ parser' = [parser EXCEPT ![c] = q]
  /\ pc' = [pc EXCEPT ![c] = IF q.err = "none" THEN next ELSE "failing"]

BlankLine(c) ==
  /\ AtLine(c)
  /\ Line(c) = "blank"
  /\ Proceed(c, PassBlank(parser[c]), "parsing")
  /\ UNCHANGED <<caller, shared, chan, sink, quarantine>>

\* Mutant of Quarantine: a line is only sent once its thread has started.
QuarantineIfOpen(c, line) ==
  IF dl = "recv" THEN dlq' = Append(dlq, <<c, line>>) ELSE UNCHANGED dlq

\* tx.send on the unbounded channel; a closed one is ignored.
Quarantine(c, line) ==
  IF DlAlive THEN dlq' = Append(dlq, <<c, line>>) ELSE UNCHANGED dlq

BadLine(c) ==
  /\ AtLine(c)
  /\ Skips(config, Line(c))
  /\ Proceed(c, SkipLine(parser[c]), "parsing")
  /\ Quarantine(c, parser[c].line + 1)
  /\ UNCHANGED <<caller, shared, chan, sink, dl, dlfile>>

Row(c) ==
  /\ AtLine(c)
  /\ Accepts(config, Line(c))
  /\ Proceed(c, AddRow(config, Input[c], parser[c]), "parsing")
  /\ UNCHANGED <<caller, shared, chan, sink, quarantine>>

AbortingLine(c) ==
  /\ AtLine(c)
  /\ Aborts(config, Line(c))
  /\ Proceed(c, Abort(Line(c), parser[c]), "parsing")
  /\ UNCHANGED <<caller, shared, chan, sink, quarantine>>

\* Mutant of Count: a store where the code has a fetch_add.
CountByStore(q) ==
  IF q.err = "none"
  THEN total_rows' = q.ok /\ error_rows' = q.skip
  ELSE UNCHANGED <<total_rows, error_rows>>

Count(q) ==
  IF q.err = "none"
  THEN total_rows' = total_rows + q.ok /\ error_rows' = error_rows + q.skip
  ELSE UNCHANGED <<total_rows, error_rows>>

\* parse_chunk returns; on Ok the chunk's counts are added at once.
EndChunk(c) ==
  /\ pc[c] = "parsing"
  /\ ~More(config, Input[c], parser[c])
  /\ LET q == Finish(Input[c], parser[c])
     IN  Proceed(c, q, "sending") /\ Count(q)
  /\ UNCHANGED <<caller, parse_error, chan, sink, quarantine>>

\* parse_chunk returned Err, its batches with it; the first error is kept.
FailChunk(c) ==
  /\ pc[c] = "failing"
  /\ parse_error' =
       IF parse_error = NoError
       THEN [kind |-> parser[c].err, chunk |-> c, line |-> parser[c].line]
       ELSE parse_error
  /\ pc' = [pc EXCEPT ![c] = "failed"]
  /\ UNCHANGED <<caller, total_rows, error_rows, parser, chan, sink,
                 quarantine>>

HasBatch(c) == pc[c] = "sending" /\ parser[c].batches # <<>>

NextBatch(c) == Tagged(c, Head(parser[c].batches))

DropBatch(c) == parser' = [parser EXCEPT ![c].batches = Tail(@)]

\* Mutant of Send: no capacity, as with an unbounded channel.
SendUnbounded(c) ==
  /\ HasBatch(c)
  /\ RxAlive
  /\ chan' = Append(chan, NextBatch(c))
  /\ DropBatch(c)
  /\ UNCHANGED <<caller, shared, pc, sink, quarantine>>

\* Mutant of Send: a try_send, whose batch is lost when the channel is full.
SendOrDrop(c) ==
  /\ HasBatch(c)
  /\ RxAlive
  /\ chan' = IF Len(chan) < config.channel_depth
             THEN Append(chan, NextBatch(c)) ELSE chan
  /\ DropBatch(c)
  /\ UNCHANGED <<caller, shared, pc, sink, quarantine>>

\* Mutant of Send: the batches are popped from the end of the vector.
SendLastFirst(c) ==
  /\ HasBatch(c)
  /\ RxAlive
  /\ Len(chan) < config.channel_depth
  /\ LET b == parser[c].batches
     IN  /\ chan' = Append(chan, Tagged(c, b[Len(b)]))
         /\ parser' = [parser EXCEPT ![c].batches = SubSeq(b, 1, Len(b) - 1)]
  /\ UNCHANGED <<caller, shared, pc, sink, quarantine>>

\* tx.send; a worker with no such step is blocked: the backpressure.
Send(c) ==
  /\ HasBatch(c)
  /\ RxAlive
  /\ Len(chan) < config.channel_depth
  /\ chan' = Append(chan, NextBatch(c))
  /\ DropBatch(c)
  /\ UNCHANGED <<caller, shared, pc, sink, quarantine>>

\* bounded(0) has no slots: the batch goes from hand to hand.
HandOver(c) ==
  /\ HasBatch(c)
  /\ config.channel_depth = 0
  /\ writer = "recv"
  /\ inhand' = <<NextBatch(c)>>
  /\ writer' = "writing"
  /\ DropBatch(c)
  /\ UNCHANGED <<caller, shared, pc, chan, output, written, quarantine>>

\* The writer is gone: send fails, the batch is dropped with a warning.
SendClosed(c) ==
  /\ HasBatch(c)
  /\ ~RxAlive
  /\ DropBatch(c)
  /\ UNCHANGED <<caller, shared, pc, chan, sink, quarantine>>

ChunkDone(c) ==
  /\ pc[c] = "sending"
  /\ parser[c].batches = <<>>
  /\ pc' = [pc EXCEPT ![c] = "done"]
  /\ UNCHANGED <<caller, shared, parser, chan, sink, quarantine>>

Worker(c) ==
  \/ StartChunk(c)
  \/ SkipChunk(c)
  \/ BlankLine(c)
  \/ BadLine(c)
  \/ Row(c)
  \/ AbortingLine(c)
  \/ EndChunk(c)
  \/ FailChunk(c)
  \/ Send(c)
  \/ HandOver(c)
  \/ SendClosed(c)
  \/ ChunkDone(c)

------------------------------------------------------------------------------
(* The writer thread.                                                      *)

OpenOutput ==
  /\ writer = "opening"
  /\ writer' = "recv"
  /\ output' = "partial"
  /\ UNCHANGED <<caller, shared, workers, chan, inhand, written, quarantine>>

\* Dropping rx disconnects the channel and discards what it holds.
WriterDies ==
  /\ writer' = "err"
  /\ inhand' = <<>>
  /\ chan' = <<>>
  /\ UNCHANGED <<caller, shared, workers, written, quarantine>>

\* File::create failed, or it truncated the file and the writer failed.
OpenFails ==
  /\ writer = "opening"
  /\ "open" \in Faults
  /\ output' \in {output, "partial"}
  /\ WriterDies

Receive ==
  /\ writer = "recv"
  /\ chan # <<>>
  /\ inhand' = <<Head(chan)>>
  /\ chan' = Tail(chan)
  /\ writer' = "writing"
  /\ UNCHANGED <<caller, shared, workers, output, written, quarantine>>

WriteBatch ==
  /\ writer = "writing"
  /\ written' = written \o inhand
  /\ inhand' = <<>>
  /\ writer' = "recv"
  /\ UNCHANGED <<caller, shared, workers, chan, output, quarantine>>

WriteFails ==
  /\ writer = "writing"
  /\ "write" \in Faults
  /\ UNCHANGED output
  /\ WriterDies

\* Mutant of CloseOutput: the writer waits for the caller to ask for it.
CloseWhenAsked ==
  /\ writer = "recv"
  /\ chan = <<>>
  /\ main = "join_writer"
  /\ writer' = "ok"
  /\ output' = "closed"
  /\ UNCHANGED <<caller, shared, workers, chan, inhand, written, quarantine>>

\* Mutant of CloseOutput: an empty channel is taken for the end.
CloseWhenEmpty ==
  /\ writer = "recv"
  /\ chan = <<>>
  /\ writer' = "ok"
  /\ output' = "closed"
  /\ UNCHANGED <<caller, shared, workers, chan, inhand, written, quarantine>>

\* The channel is empty and closed: the footer is written.
CloseOutput ==
  /\ writer = "recv"
  /\ chan = <<>>
  /\ SendersGone
  /\ writer' = "ok"
  /\ output' = "closed"
  /\ UNCHANGED <<caller, shared, workers, chan, inhand, written, quarantine>>

CloseFails ==
  /\ writer = "recv"
  /\ chan = <<>>
  /\ SendersGone
  /\ "close" \in Faults
  /\ UNCHANGED output
  /\ WriterDies

Writer ==
  \/ OpenOutput
  \/ OpenFails
  \/ Receive
  \/ WriteBatch
  \/ WriteFails
  \/ CloseOutput
  \/ CloseFails

------------------------------------------------------------------------------
(* The dead-letter thread.                                                 *)

OpenDead ==
  /\ dl = "opening"
  /\ dl' = "recv"
  /\ UNCHANGED <<caller, shared, workers, chan, sink, dlq, dlfile>>

DeadDies ==
  /\ dl' = "err"
  /\ dlq' = <<>>
  /\ UNCHANGED <<caller, shared, workers, chan, sink, dlfile>>

OpenDeadFails == dl = "opening" /\ "dead_open" \in Faults /\ DeadDies

WriteDead ==
  /\ dl = "recv"
  /\ dlq # <<>>
  /\ dlfile' = Append(dlfile, Head(dlq))
  /\ dlq' = Tail(dlq)
  /\ UNCHANGED <<caller, shared, workers, chan, sink, dl>>

\* Mutant of WriteDeadFails: the write is not `?`: the thread goes on.
WriteDeadIgnored ==
  /\ dl = "recv"
  /\ dlq # <<>>
  /\ "dead_write" \in Faults
  /\ dlq' = Tail(dlq)
  /\ UNCHANGED <<caller, shared, workers, chan, sink, dl, dlfile>>

WriteDeadFails ==
  /\ dl = "recv"
  /\ dlq # <<>>
  /\ "dead_write" \in Faults
  /\ DeadDies

CloseDead ==
  /\ dl = "recv"
  /\ dlq = <<>>
  /\ SendersGone
  /\ dl' = "ok"
  /\ UNCHANGED <<caller, shared, workers, chan, sink, dlq, dlfile>>

DeadLetter ==
  \/ OpenDead
  \/ OpenDeadFails
  \/ WriteDead
  \/ WriteDeadFails
  \/ CloseDead

------------------------------------------------------------------------------
\* A thread moves only while the process lives.
Alive(A) == ~exited /\ A /\ UNCHANGED exited

\* main returns, or calls exit(1), and takes the other threads with it.
Exit ==
  /\ Host = "cli"
  /\ main = "returned"
  /\ ~exited
  /\ exited' = TRUE
  /\ UNCHANGED <<caller, shared, workers, chan, sink, quarantine>>

\* A signal, or a panic: the release profile says panic = "abort", so that a
\* worker that cannot allocate its builders ends the process, host included.
Killed ==
  /\ "kill" \in Faults
  /\ ~exited
  /\ exited' = TRUE
  /\ UNCHANGED <<caller, shared, workers, chan, sink, quarantine>>

\* Nothing is left to do; any other state without a step is a deadlock.
Quiet ==
  /\ \/ exited
     \/ Host = "embedded" /\ main = "returned" /\ ~RxAlive /\ ~DlAlive
  /\ UNCHANGED vars

Next ==
  \/ Alive(Caller)
  \/ \E c \in Chunk : Alive(Worker(c))
  \/ Alive(Writer)
  \/ Alive(DeadLetter)
  \/ Exit
  \/ Killed
  \/ Quiet

Spec == Init /\ [][Next]_vars

\* The operating system runs every thread, rayon every chunk.
Fairness ==
  /\ WF_vars(Alive(Caller))
  /\ \A c \in Chunk : WF_vars(Alive(Worker(c)))
  /\ WF_vars(Alive(Writer))
  /\ WF_vars(Alive(DeadLetter))

FairSpec == Spec /\ Fairness

------------------------------------------------------------------------------
OwedIn(c) == Tagged(c, OwedRows(config, Input[c]))
AllOwed == UNION {OwedIn(c) : c \in Chunk}
AllDead == UNION {Tagged(c, OwedDead(config, Input[c])) : c \in Chunk}
Clean == \A c \in Chunk : Offending(config, Input[c]) = {}

\* Where a line stands: its chunk and its number there.
Place == Chunk \X Nat

Batch == SUBSET Place

CallerType ==
  /\ main \in {"setup", "parsing", "join_writer", "join_dl", "returned"}
  /\ result \in {"none", "ok", "setup", "parse", "writer", "dead_letter"}
  /\ reported \in {NoError} \cup ParseError

SharedType ==
  /\ parse_error \in {NoError} \cup ParseError
  /\ total_rows \in Nat
  /\ error_rows \in Nat

WorkersType ==
  /\ pc \in [Chunk -> {"pending", "parsing", "failing", "sending"}
                        \cup Settled]
  /\ parser \in [Chunk -> ParserState]

SinkType ==
  /\ writer \in {"unborn", "opening", "recv", "writing", "ok", "err"}
  /\ inhand \in Seq(Batch)
  /\ output \in {"untouched", "partial", "closed"}
  /\ written \in Seq(Batch)

QuarantineType ==
  /\ dl \in {"unborn", "none", "opening", "recv", "ok", "err"}
  /\ dlq \in Seq(Place)
  /\ dlfile \in Seq(Place)

(***************************************************************************)
(* The type of every variable, with the ranges the code's types leave.     *)
(***************************************************************************)
TypeOK ==
  /\ CallerType
  /\ SharedType
  /\ WorkersType
  /\ chan \in Seq(Batch)
  /\ SinkType
  /\ QuarantineType
  /\ exited \in BOOLEAN

Exactly(queue, S) ==
  /\ Contents(queue) = S
  /\ \A i, j \in DOMAIN queue : i # j => queue[i] \cap queue[j] = {}

(***************************************************************************)
(* When run_pipeline returns Ok the Parquet file has its footer and holds  *)
(* every owed row of every chunk, none twice, whatever the order in which  *)
(* workers, channel and writer ran; and no line of the input was at fault. *)
(***************************************************************************)
OkMeansComplete ==
  result = "ok" =>
    /\ output = "closed"
    /\ Exactly(written, AllOwed)
    /\ Clean

(***************************************************************************)
(* The counters in the metrics of a successful run, added up by the        *)
(* workers on their own, are the numbers of rows in the file and of lines  *)
(* left out of it.                                                         *)
(***************************************************************************)
MetricsMatchFile ==
  result = "ok" =>
    /\ total_rows = Cardinality(Contents(written))
    /\ error_rows = Cardinality(AllDead)

(***************************************************************************)
(* "Zero data loss" of the quarantine: after Ok with a dead-letter path,   *)
(* the dead-letter file holds every rejected line exactly once.            *)
(***************************************************************************)
QuarantineComplete ==
  result = "ok" /\ config.dead_letter =>
    /\ {dlfile[i] : i \in DOMAIN dlfile} = AllDead
    /\ Len(dlfile) = Cardinality(AllDead)

(***************************************************************************)
(* What the quarantine is worth when the conversion fails, or the process  *)
(* dies, while lines are still being rejected, sent and written: of each   *)
(* chunk the dead-letter file holds the first rejects, in line order,      *)
(* without a gap, without a repetition, and nothing else.                  *)
(***************************************************************************)
QuarantinePrefix ==
  /\ \A i, j \in DOMAIN dlfile : i < j /\ dlfile[i][1] = dlfile[j][1] =>
       dlfile[i][2] < dlfile[j][2]
  /\ {dlfile[i] : i \in DOMAIN dlfile} \subseteq AllDead
  /\ \A i \in DOMAIN dlfile, z \in AllDead :
       z[1] = dlfile[i][1] /\ z[2] < dlfile[i][2] =>
         \E j \in DOMAIN dlfile : dlfile[j] = z

(***************************************************************************)
(* No failure of a worker or of a thread is swallowed: the workers only    *)
(* warn when the writer is gone and ignore a lost dead-letter thread, yet  *)
(* the call does not return Ok.                                            *)
(***************************************************************************)
FailureIsReported ==
  result = "ok" =>
    /\ writer # "err" /\ dl # "err"
    /\ \A c \in Chunk : pc[c] = "done"

(***************************************************************************)
(* A parse error is genuine: the chunk it names has a line at fault no     *)
(* later than the one it names, though it travels through a mutex that     *)
(* several failing workers race for and a caller that takes it.            *)
(***************************************************************************)
ErrorIsGenuine ==
  result = "parse" =>
    \E k \in Offending(config, Input[reported.chunk]) : k <= reported.line

(***************************************************************************)
(* The rows of one chunk reach the file in line order, though the batches  *)
(* of several chunks may interleave.                                       *)
(***************************************************************************)
ChunkOrderKept ==
  \A i, j \in DOMAIN written : i < j =>
    \A a \in written[i], b \in written[j] : a[1] = b[1] => a[2] < b[2]

RowsSoFar(c) == {k \in 1 .. parser[c].line : Accepts(config, Input[c][k])}

Held(c) == Tagged(c, parser[c].open \cup Contents(parser[c].batches))

InTransit == Contents(chan) \cup Contents(inhand) \cup Contents(written)

(***************************************************************************)
(* While the writer lives, each row of a chunk that has not failed is in   *)
(* the builders, in the worker's vector, in the channel, in the writer's   *)
(* hand or in the file: no handoff between them loses one.                 *)
(***************************************************************************)
NothingLost ==
  writer # "err" =>
    \A c \in Chunk : pc[c] \notin {"failing", "failed"} =>
      Tagged(c, RowsSoFar(c)) \subseteq Held(c) \cup InTransit

InFlight ==
  Cardinality(UNION {{c} \X DOMAIN parser[c].batches : c \in Busy})
    + Len(chan) + Len(inhand)

BatchesOf(c) ==
  LET size == IF config.batch_size = 0 THEN 1 ELSE config.batch_size
  IN  (Cardinality(OwedRows(config, Input[c])) + size - 1) \div size

(***************************************************************************)
(* What bounds the memory of the pipeline: batches finished and not yet    *)
(* written.  Each busy worker holds at most the batches of one chunk, the  *)
(* channel channel_depth of them and the writer one.                       *)
(***************************************************************************)
MemoryBounded ==
  \A worst \in {0} \cup {BatchesOf(c) : c \in Chunk} :
    (\A c \in Chunk : BatchesOf(c) <= worst) =>
      InFlight <= config.channel_depth + 1 + config.threads * worst

(***************************************************************************)
(* Once the call has returned Ok, both files are final: the threads that   *)
(* write them have been joined.                                            *)
(***************************************************************************)
FinalAfterOk == [][result = "ok" => UNCHANGED <<sink, quarantine>>]_vars

(***************************************************************************)
(* What a reader finds on disk after a failure or a crash at any moment: a *)
(* file with a footer holds whole chunks, exactly the rows of those that   *)
(* were done, though nothing but the channel told the writer of the end.   *)
(***************************************************************************)
FooterMeansWholeChunks ==
  output = "closed" =>
    /\ \A c \in Chunk : pc[c] \in Settled
    /\ Exactly(written, UNION {OwedIn(c) : c \in {d \in Chunk : pc[d] = "done"}})

(***************************************************************************)
(* run_pipeline returns: no combination of a full channel, a dead writer,  *)
(* a failed chunk and a dead quarantine leaves every thread waiting.       *)
(***************************************************************************)
Returns == <>(main = "returned" \/ exited)

\* Which threads can move: the guards of their actions.
CallerReady ==
  \/ main = "setup"
  \/ main = "parsing" /\ LoopOver
  \/ main = "join_writer" /\ writer \in {"ok", "err"}
  \/ main = "join_dl" /\ dl \in {"ok", "err"}

CanSend ==
  \/ ~RxAlive
  \/ Len(chan) < config.channel_depth
  \/ config.channel_depth = 0 /\ writer = "recv"

WorkerReady(c) ==
  \/ /\ main = "parsing" /\ pc[c] = "pending"
     /\ Cardinality(Busy) < config.threads
  \/ pc[c] \in {"parsing", "failing"}
  \/ pc[c] = "sending" /\ (HasBatch(c) => CanSend)

WriterReady ==
  \/ writer \in {"opening", "writing"}
  \/ writer = "recv" /\ (chan # <<>> \/ SendersGone)

DeadLetterReady ==
  \/ dl = "opening"
  \/ dl = "recv" /\ (dlq # <<>> \/ SendersGone)

(***************************************************************************)
(* Never does everyone wait for everyone: as long as the call has not      *)
(* returned, or a thread that it started is still there, one of the        *)
(* threads can move, though a worker waits for a slot of the channel, the  *)
(* writer for a batch, and the caller for both.                            *)
(***************************************************************************)
NeverStuck ==
  ~exited /\ (main # "returned" \/ RxAlive \/ DlAlive) =>
    \/ CallerReady \/ WriterReady \/ DeadLetterReady
    \/ \E c \in Chunk : WorkerReady(c)

(***************************************************************************)
(* The threads a failed call leaves behind in a live process come to an    *)
(* end, so the files are closed and the receivers freed.                   *)
(***************************************************************************)
DetachedThreadsEnd ==
  main = "returned" ~> exited \/ (~RxAlive /\ ~DlAlive)

(***************************************************************************)
(* The pipeline implements Conversion: see that module for the promise.    *)
(***************************************************************************)
Promise == INSTANCE Conversion WITH
  DueRows <- AllOwed,
  DueDead <- IF config.dead_letter THEN AllDead ELSE {},
  status  <- CASE result = "none" -> "running"
               [] result = "ok"   -> "ok"
               [] OTHER           -> "failed",
  rows    <- Contents(written),
  dead    <- {dlfile[i] : i \in DOMAIN dlfile}

KeepsPromise == Promise!Spec

==============================================================================
