# parq in TLA+

A formal model of parq, the NDJSON-to-Parquet converter of this repository:
TLA+ modules for its parts, TLC configurations that check them on small
instances, and proofs checked by TLAPS that hold for every instance. Paths
below are relative to the repository (`crates/...`, `docs/...`); the source is
referred to as it stands, in a release build without the `simd` feature.

## 1. The system

One call of `run_pipeline` converts one file:

```
            mmap                     rayon workers                writer thread
 input --> fixed_chunks --> chunks --> parse_chunk --> bounded --> ParquetStreamWriter --> output
              |                            |           channel
        infer_schema                       +--> unbounded channel --> dead-letter thread --> quarantine
```

| Component | State it keeps | Operations | How it interacts |
|---|---|---|---|
| `parq-chunk` | start, window, the slices so far | `fixed_chunks`, `snap_to_newline`; `count_lines`, `offset_after_n_lines` (exported, called by nobody) | called by `run_pipeline`; its slices are what workers share |
| `parq-schema` | field map, field order, rows seen | `infer_schema`, `load_schema_from_file`, `schema_to_json_string` | read from the same bytes the workers parse later; a printed schema comes back as a file |
| `parq-parser` | line number, builders, batches, counters | `parse_chunk`, `flush`, `ColBuilder::*` | sends rejects to the quarantine while it runs, returns its batches at the end |
| `parq-flatten` | the flat map, the recursion | `flatten_object` | per line, in the parser only |
| `parq-core` | two channels, error mutex, two counters, two join handles | `run_pipeline` | starts and joins everything |
| `parq-io` | the open Parquet file | `new`, `write_batch`, `close` | owned by the writer thread |
| `parq` (command) | none | `--infer-schema-only`, codec, report, telemetry, exit code | its exit ends every thread |
| `parq-python` | none; the process has the global pool | `convert` | its process outlives the call, and so do the threads of a failed one |
| `parq-error`, `parq-metrics` | none | error values, report | |

What is hard about it:

* **Interleaving.** Workers, writer and dead-letter thread meet in two channels,
  a mutex and two counters. Nothing orders the workers among themselves.
* **Failure.** The schema, a line, a flush, the output file and the quarantine
  file may each fail at any moment, and each failure is noticed by somebody
  else than the thread it happens in: a worker only *warns* when the writer is
  gone and *ignores* a lost quarantine.
* **Termination.** A worker blocks on a full channel, the writer on an empty
  one, the caller in a join; channels close only when the last sender, or the
  receiver, is dropped.
* **The early return.** After a parse error `run_pipeline` returns without
  joining the threads it started. A Python host may call again while they run.
* **What calls share.** The rayon pool of the process is the first call's, and
  files are opened by name, truncated, and mapped while others may write them.
* **Boundaries.** `usize` arithmetic on a user's chunk size, records as long as
  a chunk, `batch_size` 0, `channel_depth` 0, a limit inside a batch.
* **Two readings of one file.** The schema is inferred from a sample by code
  that treats the bytes differently from the code that parses them, and two
  tables of type names write and read it.
* **Keys that meet.** Flattening joins keys, and different paths may join to one.

Correctness, per component: the chunks partition the file at record boundaries
(`parq-chunk`); every row and every reject of a chunk is returned exactly once,
in order, or the chunk fails for a reason that is in it (`parq-parser`); `Ok`
means both files are complete and final, every failure is reported, and the call
always returns (`parq-core`); a footer is only ever written over whole chunks, so
that a crash leaves nothing that looks finished (`parq-io`); the inferred types do
not depend on the order of the lines, fit the values they were inferred from and
survive being printed (`parq-schema`); which value a flat key holds is determined
by the record (`parq-flatten`); calls that share no file do not disturb each other
(`parq-python`); the telemetry names something that is in the file or true of its
surroundings (`parq`).
`PROJECT.json` lists every hazard at its line with the properties that cover it.

## 2. The modules

| Module | Models | State and actions |
|---|---|---|
| `Chunker` | `parq-chunk` | `data`, `window`, `start`, `pos`, `chunks`; an action per branch of the loop and per byte scanned. Sums are taken modulo `UsizeMax + 1`. `count_lines` and `offset_after_n_lines` are operators on the same bytes. |
| `ParseChunk` | `parse_chunk`, `flush` | pure: the function's locals as a record, one operator per way a line can end. A line is its *kind*, what the code's tests tell apart; a row is its line number. Also what the chunk is *owed*, stated without a loop. |
| `ChunkParser` | the same, run alone | the sequential loop with the lines it sends to the quarantine |
| `Conversion` | the promise of `run_pipeline` | abstract: rows and dead letters arrive in sets, `Ok` only when all are there and final |
| `Pipeline` | `run_pipeline` and its threads | caller (`main`), per-chunk workers (`pc`, `parser`), `chan`, writer (`inhand`, `output`, `written`), quarantine (`dlq`, `dlfile`), mutex and counters. Uses `ParseChunk` for each worker; `Promise == INSTANCE Conversion` is the refinement. |
| `Session` | several calls of `convert` in one process | `file` (each file's content), `pool`, per call its caller, chunks, channel, handles (`call`); a program of the host says which call may follow which outcome |
| `Columns` | `merge`, `value_type`, `ColBuilder` | pure, on kinds of values |
| `SchemaInference` | `infer_schema` and the second reading | one action per branch of the sampling loop and per key; then `StartChunk`, the parser's loop with the builders of the schema, `RefuseBatch`, `EndChunk`, for chunk after chunk |
| `Command` | `main` around one conversion | extends `SchemaInference`: `args`, `status`, `stdout`, `stderr`; an action per way out of `main` |
| `Flatten` | `flatten_object`, `flatten_rec` | `doc` (the record), `frames` (the calls on the stack), `out`; an action per arm of the match |
| `MC*` | instances for TLC | |
| `*Proofs` | theorems | of the module whose name they carry. `ParseChunkProofs` has only lemmas, on the parser's operators: `ChunkParserProofs` and `PipelineProofs` extend it, `DeliveryProofs` extends `PipelineProofs`. `CommandProofs` is about `SchemaInference` and `Command` |

Each definition that models code is mapped to its lines in `PROJECT.json`.
Operators commented as *mutants* are deliberate defects next to the definition
they would replace; they belong to no specification, and each shows that one
property can fail.

Choices worth knowing:

* A worker takes a chunk, reads a line, sends a batch or takes the mutex in one
  step each. The two counters are added in one step, as nobody reads them before
  the loop is over.
* The guard of `Send` is the capacity of the channel: a worker with no such step
  is blocked. With depth 0 only `HandOver` moves a batch, to a writer that waits.
* When the writer fails, its receiver is dropped and the channel's contents with
  it; workers then drop the rest of their batches (`SendClosed`).
* A lost sender is lost with the loop: `SendersGone` is `LoopOver`. Rayon may
  drop some clones earlier, never the last one.
* `Exit` is the end of the command's process. It freezes every thread. With
  `Host = "embedded"` it never happens and detached threads run on.
* `Killed` is the death of the process at any moment: a signal, or a panic, as
  the release profile aborts (`Cargo.toml`, `panic = "abort"`). What the files
  hold from then on is what a reader finds.
* `Quiet` is the only step without an effect; TLC's deadlock check is on for
  `Pipeline` and `Session`, so that "everyone waits for everyone" is a deadlock
  in every run. `NeverStuck` says the same of `Pipeline` as an invariant, with
  the guards of the threads' actions spelled out (`CallerReady`,
  `WorkerReady(c)`, `WriterReady`, `DeadLetterReady`), so that it can be proved.

`SchemaInference` and `Command` follow the bytes of one call through two readers:

* The value of a field is its kind. Of the integers, `int` is one that an f64
  holds, `long` fits an i64 but not an f64, which has every integer up to 2^53
  only (`ColBuilder::append` stores `as_f64`), `big` fits a u64 only; strings that parse as numbers are divided
  likewise. A float is one with a fraction: one without, such as 1.0, would
  survive in an integer column, and is not told apart. A string such as "0.5"
  counts as kept by a float column, which has the nearest f64.
* The object nested under field f leaves values at *joined* keys, `sub[f][g]`,
  and g may be the name of any later field: `{"a": {"b": "x"}}` meets the column
  `a_b` that other records have. A joined key extends f, so f sorts before it,
  and the leaf of the later field is inserted last; the one exception is the
  empty key, which joins to its members' own. `Flattened` keeps the last.
* The file is cut into chunks at any of its lines, and the chunks are taken one
  at a time in any order. Their concurrency is `Pipeline`'s: here they share only
  the error, and the first to fail ends the run. `--limit` counts per chunk.
* A batch is flushed at the end of the chunk or after any row of it, so that
  `RefuseBatch` stands for every `--batch-size`.
* In `Command` an error has the fields of its JSON object; the text of a message
  is left out. `found` is whether the files named by the options can be read,
  `writable` whether the output and the dead-letter file can be written. If they
  cannot, the joins of `run_pipeline` return the error once every chunk is parsed
  (`JoinFails`), and main reports it as Generic.

`Session` trades the detail of one call for several of them:

* `channel_depth` is an argument of each call. With depth 0 (`HasRoom`) a worker
  hands its batch to a writer that waits for one; `chan` is then what the writer
  has in its hands.
* A chunk is one line and a batch one row; `Parse` and `Send` are a worker's two
  steps. A sending worker holds a thread of the pool (`Busy`), whichever call it
  works for, so that a blocked call can keep another from starting.
* `Start` is everything `run_pipeline` does before its loop: the pool, the map,
  hash and partition (`view` is what was hashed), and the two threads. The schema
  is taken as given, and no file operation fails.
* A handle writes at a position of its own (`wpos`, `dpos`). `OpenOutput` and
  `OpenDead` truncate the file whoever else has it open, and a write past the end
  leaves a hole, as it does in a file. A row reaches the file in the step that
  writes it: the `ArrowWriter` may hold the rows of a row group back until it is
  full or closed, and the model has the schedule in which every batch is flushed.
* The bytes under the map are read at each `Parse`, not at `Start`: a file that
  another handle has truncated yields other bytes, or ends the process (`Fault`).
* `alone` is a history variable: no other call had c's files in use from its
  start on. It states the contract that a host must keep to.

`Flatten` has a record as the tree of its values, a function from the path to
each value to its kind, of any depth. A frame of the stack has its object's path
and the members that its loop has left. A key is the sequence of its parts
between separators, so that `a_b` is the two parts `a`, `b` and joining is
concatenation; the empty key is the one part `Blank`. `KeyOrder` is the byte
order in which a `serde_json::Map` (a `BTreeMap` here) is walked. The entries of
the flat map carry the path of their leaf.

## 3. What the runs check

| Run | Shows |
|---|---|
| `chunker` | no byte lost or repeated, no record split, no wrapped sum, termination; `count_lines` and `offset_after_n_lines` agree with the slices on where a record ends |
| `chunk_parser` | `parse_chunk` returns exactly the owed rows, quarantines exactly the rejects in order, fails exactly on chunks with an offence |
| `pipeline_faults` | lenient, with every file operation failing at any moment: `Ok` means the file, the quarantine and the counters are exact, chunk order is kept, no handoff loses a row, nothing moves after `Ok`, no failure is swallowed, and `Pipeline` implements `Conversion`, which says that the call returns as well |
| `pipeline_strict` | strict, several chunks failing at once, a channel without slots, a writer that may die and a process that may be killed: the error names a chunk at fault, memory is bounded, a footer means whole chunks, never does every thread wait for another, the call returns and detached threads end |
| `pipeline_lenient` | lenient, a flush that fails while both workers reject lines, a dead-letter thread that may fail and a process that may be killed: at every moment the dead-letter file has, of each chunk, its first rejects without a gap |
| `session` | two or three calls of a Python host, at once or in turn, on shared and separate files: with its files to itself an `Ok` call leaves exactly its rows and rejects and reports the size of its file; the process dies of a truncated map only while a call that was not left alone is parsing and a call that has begun writes its input; every call ends, on a pool of one and with a channel of depth 0 too |
| `flatten` | the flat record has a key for every leaf and no other, each with the value of the last leaf that joins to it; none is lost if no key is empty or contains the separator |
| `schema` | promotion independent of order, one column per field; why a line of the sample may still be refused, and which sampled values are lost or altered, joined keys included; a printed schema loads as it was; telemetry names a line at fault, as lines of a chunk or as records, or a reason in the file or its surroundings |

Four further runs each check one sentence of the documentation that the code does
not keep; TLC's trace is the witness. `PROJECT.json` quotes the sentences under
`findings`:

| Run | Sentence | What happens |
|---|---|---|
| `retry_claim` | `rows_processed`: rows parsed *and written* | a retry returns `Ok`, and the writer that the failed first call left behind truncates or overwrites its file |
| `telemetry_claim` | a failure is a JSON object on stderr | an unknown codec and every failure of `--infer-schema-only` end in plain text |
| `types_claim` | supported schema types | narrow integers and dates are always refused |
| `flatten_claim` | `--flatten` yields columns for members | not with an inferred schema |

Other sentences the code does not keep, met while modelling. No run refutes them
by itself; where a property of a run says what does hold, it is named:

* README.md:218, `--limit` stops after N rows: each chunk stops after N rows, as
  `parse_chunk` is given the limit and counts its own (`OkIsExact`, of a chunk;
  `OkMeansComplete`, of the file).
* crates/parq-error, line 16, and docs/telemetry.md:35-41, JSON error on line N: N
  counts within the chunk if parsing finds the error, and records, not lines, if
  inference does (`TelemetryIsTrue`, over files cut into two chunks, says what
  the number means in both cases; `ErrorIsGenuine`, whose it is).
* docs/quarantine.md:48, the quarantine has the exact raw bytes: the parser sends
  the trimmed line (crates/parq-parser, line 95). A line is one value in the
  models, and its bytes are below their detail.
* docs/telemetry.md:48, a value that does not match its column raises
  `TypeMismatch`: only a Boolean column does (crates/parq-parser, line 279, for
  one, appends null), and in strict mode alone (`TelemetryIsTrue`).
* docs/telemetry.md:63, `InsufficientData` means a file that is empty or all
  whitespace: only the lines of the sample are looked at (`TelemetryIsTrue`).
* docs/python.md:46 and :68, `threads`: the first call of a process decides for
  all later ones, whose metrics report what they asked for (`pool` in `Session`).
* crates/parq-chunk, line 63, the offset after the first n newlines: for n = 0 it
  is that of n = 1 (`Reaches`; nobody calls it).
* README.md:150-152, a corrupt record does not abort a lenient job: one that the
  schema refuses at the flush does (`FailsOnOffence`).
* `PipelineConfig::channel_depth`, the batches in flight: each worker also holds
  all batches of its chunk (`MemoryBounded`).
* parq-core, line 234, the writer's loop exits cleanly: the command may exit on a
  parse error before it does; in a host that lives on, it does end
  (`DetachedThreadsEnd`).
* docs/index.md:24, safe type promotion: a boolean of a field promoted to a
  number becomes null, and an integer beyond 2^53 in one promoted to floats is
  rounded (`SampleSurvives` says which sampled values can be lost or altered).
* parq-schema, line 34, inference fails only without parseable records: one
  malformed line of the sample is enough (`SampleMalformed`).
* parq-schema, line 22, a byte-order mark is stripped: for inference only; the
  parser then rejects the first line (`KindAt`, `SampleRefusals`).
* README.md:157-158, `--flatten`: with an inferred schema a joined key that has
  the name of an inferred column puts a value there that no type was inferred
  from, and a Boolean column refuses it (`SampleRefusals`).

### Bounds

* `chunker`: all strings of up to 6 bytes over {newline, text}, all chunk sizes
  of a 4-bit `usize`. Six bytes give up to six records and every position of a
  cut relative to a newline; 15 exceeds every file.
* `chunk_parser`: all chunks of up to 4 lines of 6 kinds, both modes, batch sizes
  0 to 3, limits 0 to 2 and none: full, partial and absent last batches, a limit
  inside and at the end of a batch.
* `pipeline_faults`: three chunks on three workers, one slot, batches of one row,
  every kind of reject, all six faults. Two workers race for the slot while the
  third finishes; more chunks only repeat the pattern.
* `pipeline_strict`: seven chunks on two workers with batches of two rows, depth
  0. Three chunks fail, two on a line and one on its flush, so that errors race
  and chunks are skipped, and the four clean ones make more batches than two
  workers and the writer can hold.
* `pipeline_lenient`: two chunks with three and four rejects, batches of one row
  on two workers; one chunk has a row whose flush fails between two of its
  rejects. 12,434 states: every interleaving of two workers' rejects in one queue.
* `session`: nine programs over two inputs of three and two lines, on pools of
  one and two and with channels of depth 0 and 1: two calls at once; a retry after an error; a refused codec, a call
  and a third that overwrites its output; an output that is the input; the
  quarantine of one call as the input of another, during and after it; rows and
  rejects in one file. Two workers and at most one slot are the least with which a
  call fills its channel and holds the pool: about 46,700 states.
* `flatten`: every record of at most two members per object nested twice, and of
  one member nested three times, over the keys `""`, `a`, `a_b`, `b`: every way
  in which two paths can join to one key, scalars and arrays.
* `schema`: files of up to two lines, in one chunk or two, with every kind of
  value, with and without a mark; two fields, the second of which may also be a
  key joined from the first, as both may be if they are empty; and a third line,
  past the sample, at the end of the chunk or in one of its own. Every
  configuration, a limit with a loaded schema, and every option of the command:
  about 780,000 states. Two fields are enough for a joined key to meet one, two
  chunks for the line of an error to differ from that of the file.

No module has a counter that needs a bound: a call, a program of calls and a
record are finite.

### Fairness

`FairSpec` asks for weak fairness of the caller, of each chunk's worker, of the
writer and of the dead-letter thread. The operating system runs every thread
that can run, rayon hands every chunk to a worker that is free, and crossbeam
wakes a blocked sender or receiver. Fairness is per thread and never chooses
which branch a thread takes: no failure and no success is forced. `StartChunk`
of a chunk stays enabled while a worker is free, and workers become free, so
weak fairness per chunk asks no more than rayon gives.

`Session` has the same per call: weak fairness of its workers together, its
writer, its dead-letter thread and its caller. Whether the host makes a call is
its own business: `Begin` has no fairness. The fairness of a call's workers needs
rayon to serve the chunks of every call of the pool, which it does: waiting
callers are injected in order and idle threads steal. `Flatten`, `Command` and
`SchemaInference` are single-threaded and state no liveness.

## 4. What is proved

TLAPS checks these for every input, chunk size, configuration, host, program of
calls and set of faults, the death of the process among them, from the named
assumptions on the constants alone (`ChunkerAssumption`, `ChunkParserAssumption`,
`PipelineAssumption`, `SessionAssumption`, `SchemaAssumption`,
`FlattenAssumption`): every invariant and every action property of the passing
runs.

**`ChunkerProofs`**: all five invariants, `TypeOK`, `SumNeverWraps`, `Lossless`,
`RecordsIntact` and `HeadsAreSlices`. The invariant `Inv` says that the chunks
pushed so far tile `[0, start)`, cover every offset in it and end behind a newline
or at the end of the file.
`WindowFits` is the part that is not obvious: once a chunk has been cut the
window is shorter than the file, which with a slice's maximal length (half of
`usize`) keeps `start + window` in range. `HeadsAreSlices` needs no more of the
run than that. The rest is arithmetic: the sum over the slices (`SumIsTotal`) is
the number of newlines up to the end of the last of them (`LinesAddUp`), and the
slices are in order (`ChunksInOrder`), so the newline that ends slice i is the
one with as many before it as the slices up to i have, less one
(`HeadEndsThere`). `AlwaysNearer` is `Termination` without its fairness: each
step of the loops uses up some of `StepsLeft`.

**`ChunkParserProofs`**: all four invariants of `parse_chunk` run alone: `TypeOK`,
`OkIsExact`, `QuarantineExact`, `FailsOnOffence`. The loop's invariant is `Knows`
(in `ParseChunkProofs`), what the parser knows of the lines it has read: its
`total_ok` is the number of rows among them, so that the loop reads exactly the
lines the limit reaches; the builders and batches hold owed rows only, in line
order, so that a refused flush is a row's own fault; an error has an offence at or
before its line. `LInv` adds that no row read is missing (`Whole`), that every
batch flushed in the loop is full (`Filled`) and that the quarantine is the
rejects so far, in order. After the loop there is nothing left within the limit,
and what was read is what was owed.

**`PipelineProofs`**: `TypeOK`, `FailureIsReported`, `FinalAfterOk`,
`ErrorIsGenuine`, `MemoryBounded`, `NeverStuck`. None is inductive.
* `IInv` adds what the threads know of each other: a failed or skipped chunk
  leaves an error in the mutex until the caller looks (`ErrorNoticed`), so the
  caller starts to join only when every chunk is done (`JoinOrder`), and a writer
  that ended well saw every worker settled (`WriterLife`).
* `EInv`: every worker's parser `Knows` its chunk, whatever the others do. The
  worker that wins the mutex puts an error of that kind there, and the caller
  takes it.
* `MInv`: in the loop every batch of a chunk is full (`Full`), and at its end one
  more may not be (`Packed`), so that a chunk has at most its rows divided by the
  batch size, rounded up; with the channel's depth, the writer's one batch and no
  more busy workers than threads that is the bound.
* `Released`: a call that has returned is out of the loop, its senders dropped, or
  never started a thread. With `JoinOrder` whoever waits for a thread has let go
  of what that thread waits for; and in the loop (`LoopMoves`) a writer in `recv`
  with nothing to take means a free slot, or a rendezvous, for a worker that
  waits to send. This is `NobodyWaitsForEver`.

`EveryStepNearer` is the other half of `Returns`, and of `DetachedThreadsEnd`: each
step brings one chunk nearer to its end (`ChunkLeft`), or leaves the chunks and
brings the threads nearer to theirs (`ThreadsLeft`). So every behaviour, fair or
not, has finitely many steps that change anything, and by `NobodyWaitsForEver`,
where it stops, either nothing is left to do or fairness would have moved a thread.

**`DeliveryProofs`**: where the rows are. `NothingLost` (per step: a line read
leaves its row with the worker, a batch sent is in transit, the writer keeps what
reached it), then `ChunkOrderKept`, `FooterMeansWholeChunks`, `OkMeansComplete`,
`MetricsMatchFile`, `QuarantineComplete`. The invariant `DInv` has the parts
* `SentWhole`: a chunk whose batches are being sent was read to its end, so with
  `EInv` its rows are the owed ones and no line of it is at fault;
* `Counted`: the counters are the numbers of rows and rejects of those chunks;
* `Ordered`: written, in hand, in the channel, held by the worker: on this way
  the rows of one chunk are in line order, hence also disjoint;
* `Footer`: a writer that ended well found the channel empty;
* `Quarantined`: a rejected line is queued or filed, once, until the
  quarantine's thread dies.

`QuarantineHasNoGap` (`QuarantinePrefix`) needs one more, `NoGap`: file and queue
are in line order per chunk (`InTurn`), the file before the queue, and no reject
of a chunk that was read before one in the file is missing there. While the thread
lives, what is next in the queue is by `Quarantined` the first that the file lacks;
when it dies, the file stays as it is.

A footer is then written over nothing but whole chunks: its writer saw every
worker settled and nothing in channel or hand, so by `NothingLost` each row of a
chunk that was done is in the file, and by `Ordered` once. `PromiseIsSafe` is the
safety half of the refinement: initial states of `Pipeline` are initial states of
`Conversion`, and each step is one of its steps or none.

**`SessionProofs`**: all three invariants of `Session`, for any number of calls,
files and threads and every program of the host: `TypeOK`, `DiesOnlyOnConflict`,
`OkFilesIntact`. The invariant `IInv` has, per call,
* `Apart`: while a call is alone its input and its outputs differ and no call
  that has begun and not ended conflicts with it. A call that starts later
  without a conflict keeps this; one with a conflict ends `alone`; and one that
  has ended has no thread left that writes (`EndedStays`), so a step of another
  call leaves the files of the first as they are (`FilesKept`).
* `Undisturbed`: its input is then still what was hashed, so every read of the
  map is inside the file, and `Fault` needs a call that is not alone.
* `Rewritten`: a call whose input is no longer what was hashed has met a call
  that has begun and has that file for its output or its dead letters. Whoever
  writes has begun (`Threaded`), and nobody else changes a file.
* `OutputOwn`, `DeadOwn`: each of its files is as long as its handle's position
  says and holds what was sent to that thread less what is still in the channel,
  every line once (`Delivered`), and behind it the footer.

After `Ok` both channels are empty and every line is done, so what was sent is
what was hashed. `Counted` (nothing is written that was not done) bounds the
position in `TypeOK`.

**`CommandProofs`**, first part: all six invariants of `SchemaInference`.
`PromotionIsWidest` and `ColumnsOnce` (`SInv`): `merge` is the wider of two types,
so a promotion keeps the widest type seen. `FInv` adds what the second reading
needs: when `infer_schema` ends it has seen every object of the sample, so each
column is as wide as every value the sample has for it (`SchemaFits`), and no line
of the sample is malformed (`SampleHolds`); every cell is what the builder made of
the value (`CellsStored`); and a run that ended had its reason in the file
(`EndsForReason`), at a line of the chunk it was in. A column's builder takes the
values it is as wide as (`WideEnough`), and a value that a record has at a key is
the one its column gets, whatever other keys join to that one (`TopLevelWins`):
a joined key extends a field that comes before, so what it inserts is
overwritten. Only a record *without* that key can bring a joined value there. With
`EndsForReason` this is `SampleRefusals`, with `CellsStored` `SampleSurvives`.

Second part, the command: `PrintedSchemaLoads` and `TelemetryIsTrue`. A listed field
never has the type Null (`ColumnsOnce`), so that the columns are of the types on
which the two tables of names agree (`NamesAgree`). What the error object says is
what `EndsForReason` and the count of records (`RecordsCounted`) say, for every
cut of the file into chunks and every order of them; a batch is refused for one of
the three reasons of `IsUnstorable` (`RefusedForReason`).
`ConversionUndisturbed` carries what the first part proves over to runs of the
command, in which `main` takes steps of its own.

**`FlattenProofs`**: all three invariants, `TypeOK`, `LastLeafWins`,
`PlainKeysKeepAll`, for records of any depth and size and any keys. A leaf is
`Seen` when no call on the stack has left the member it lies in; `Inv` says
* `Stacked`: each call is on an object, at its depth, with the joined key of its
  path as prefix, and the members it has visited come before those it has left;
* `Nested`: the calls lie along the path of the innermost, and each but that is
  in the last member that it has visited;
* `MapHolds`: the map has, for the joined key of each seen leaf and for no other,
  the last of the seen leaves with that key.

The first two give `SeenEarlier`, the point of the proof: where the path of a
leaf about to be inserted parts from that of a seen one, a call on the stack has
visited the other member and is in, or about to visit, this one. So whatever
`insert` overwrites is earlier, and at the end, with an empty stack, every leaf
is seen. A step then changes `Seen` by the leaf it visits or not at all
(`SeenWithLeaf`, `CalledSeen`, `AfterReturn`). `JoinedStep` says that
`flatten_rec`, which extends a prefix key by key and takes an empty one for none,
computes the joined key of the whole path; with keys of one part that key
determines the path (`PlainJoined`).

Some of these lemmas are inductions over data: `FlattenSeq` and the sums are
recursive functions. The library's induction theorems take an operator that the
installed provers cannot instantiate, so they are proved without: a function that
solves the recursion is written down or shown to exist, and the least index at
which a claim fails leads to a contradiction (`LeastNumber`, from the
well-foundedness of `<`). No proved module declares a recursive operator.

Only model-checked: everything under fairness (`Returns`, `DetachedThreadsEnd`,
`Termination`, `EveryCallEnds`, the liveness half of `KeepsPromise`) and anything
about `ENABLED`: out of the prover's reach. For `Returns` and `DetachedThreadsEnd`
what is missing is the last step alone, from `EveryStepNearer` and
`NobodyWaitsForEver` to `<>`, which takes the guards of `NeverStuck` for `ENABLED`;
for `Termination` likewise, from `AlwaysNearer`.

## 5. Not modelled

* JSON, Parquet, compression, hashing, logging and timing: libraries or output
  without an effect on control.
* `parq-metrics`, the human-readable report and `ConversionMetrics` as records:
  numbers that are copied. The two counters and `output_bytes`, which can be
  wrong, are modelled where they are computed.
* clap's own errors, and the escapes in the telemetry's `{:?}` strings, which are
  Rust's and not JSON's for unusual characters: layout.
* Other programs writing the input or the output. What calls of one process do to
  each other's files is `Session`.
* File faults, the schema and the death of the process inside `Session`; they are
  in `Pipeline`, one call at a time.
* Poisoned mutexes: a panic aborts the process (`Killed`).

## 6. Plan

1. *Done*: `Chunker`, `ParseChunk`, `ChunkParser`, `Conversion`, `Pipeline`,
   `Columns`, `SchemaInference`, `Session`, `Flatten`, `Command`; proofs of every
   safety property that the runs check.
2. `LineKinds`: the map from `SchemaInference`'s lines and schema to
   `ParseChunk`'s kinds, as a refinement, so that the two parsers are one.
