----------------------------- MODULE ParseChunk -----------------------------
(***************************************************************************)
(* parq-parser: what parse_chunk does with one chunk, as operators on its  *)
(* local variables.  ChunkParser runs them as the sequential loop they     *)
(* come from; Pipeline runs one loop per chunk, concurrently.              *)
(*                                                                         *)
(* A line is its kind: what the code's tests on it tell apart.             *)
(*   "blank"      empty once trimmed                                       *)
(*   "malformed"  not JSON                                                 *)
(*   "nonobject"  JSON, but not an object                                  *)
(*   "boolclash"  an object with a non-boolean under a nullable Boolean    *)
(*                column                                                   *)
(*   "unfit"      an object every builder takes but whose batch            *)
(*                RecordBatch::try_new refuses, such as a null under a     *)
(*                column declared "nullable": false                        *)
(*   "row"        any other object                                         *)
(* A row is the number of its line, from 1; a batch is a set of rows.      *)
(***************************************************************************)
EXTENDS Naturals, Sequences, FiniteSets

CONSTANT NoLimit   \* --limit absent

LineKind == {"blank", "malformed", "nonobject", "boolclash", "unfit", "row"}

\* The fields of PipelineConfig that parse_chunk is given.
ParserConfig == [batch_size : Nat, ignore_errors : BOOLEAN,
                 limit : Nat \cup {NoLimit}]

ErrKind == {"none", "JsonParse", "TypeMismatch", "Arrow"}

(***************************************************************************)
(* The locals of parse_chunk: `line` lines are read, `open` are the rows   *)
(* in the column builders (batch_rows is their number), `batches` the      *)
(* flushed ones, `ok` and `skip` total_ok and total_skip, and `err` the    *)
(* error the function returns, if it does.                                 *)
(***************************************************************************)
ParserState == [line : Nat, open : SUBSET Nat, batches : Seq(SUBSET Nat),
                ok : Nat, skip : Nat, err : ErrKind]

NewParser == [line |-> 0, open |-> {}, batches |-> <<>>,
              ok |-> 0, skip |-> 0, err |-> "none"]

\* The rows of a sequence of batches.
Contents(queue) == UNION {queue[i] : i \in DOMAIN queue}

AtLimit(cfg, p) == cfg.limit # NoLimit /\ p.ok >= cfg.limit

\* The for loop goes on: there is a next line and the limit is not reached.
More(cfg, lines, p) == p.line < Len(lines) /\ ~AtLimit(cfg, p)

Current(lines, p) == lines[p.line + 1]

(***************************************************************************)
(* How a line of each kind ends: skipped and quarantined, turned into a    *)
(* row, or the end of the chunk with an error.  ColBuilder::append refuses *)
(* nothing in lenient mode: the clashing value becomes a null.             *)
(***************************************************************************)
Skips(cfg, kind) == cfg.ignore_errors /\ kind \in {"malformed", "nonobject"}

Accepts(cfg, kind) ==
  \/ kind \in {"row", "unfit"}
  \/ kind = "boolclash" /\ cfg.ignore_errors

Aborts(cfg, kind) ==
  ~cfg.ignore_errors /\ kind \in {"malformed", "nonobject", "boolclash"}

ErrorOf(kind) == IF kind = "boolclash" THEN "TypeMismatch" ELSE "JsonParse"

PassBlank(p) == [p EXCEPT !.line = @ + 1]

\* Mutant of SkipLine: counted when found and when quarantined.
SkipCountedTwice(p) == [p EXCEPT !.line = @ + 1, !.skip = @ + 2]

SkipLine(p) == [p EXCEPT !.line = @ + 1, !.skip = @ + 1]

\* Mutant of Abort: line_no is the number of the line before.
AbortBehind(kind, p) == [p EXCEPT !.err = ErrorOf(kind)]

Abort(kind, p) == [p EXCEPT !.line = @ + 1, !.err = ErrorOf(kind)]

\* Mutant of Flush: an unfit batch is dropped and the error with it.
FlushSwallows(lines, p) ==
  IF \E row \in p.open : lines[row] = "unfit"
  THEN [p EXCEPT !.open = {}]
  ELSE [p EXCEPT !.batches = Append(@, p.open), !.open = {}]

\* flush: finish the builders and assemble the batch, in lenient mode too.
Flush(lines, p) ==
  IF \E row \in p.open : lines[row] = "unfit"
  THEN [p EXCEPT !.err = "Arrow"]
  ELSE [p EXCEPT !.batches = Append(@, p.open), !.open = {}]

AddRow(cfg, lines, p) ==
  LET q == [p EXCEPT !.line = @ + 1, !.open = @ \cup {p.line + 1},
                     !.ok = @ + 1]
  IN  IF Cardinality(q.open) >= cfg.batch_size THEN Flush(lines, q) ELSE q

\* Mutant of Finish: the rows left in the builders are forgotten.
FinishWithoutFlush(lines, p) == p

\* After the loop: the rows left in the builders make the last batch.
Finish(lines, p) == IF p.open # {} THEN Flush(lines, p) ELSE p

------------------------------------------------------------------------------
(***************************************************************************)
(* What a conversion owes the lines of one chunk, stated without the loop: *)
(* a line counts if fewer than `limit` rows come before it; of those, the  *)
(* acceptable become rows, the lenient rejects dead letters, and one       *)
(* offending line is enough to fail the chunk.                             *)
(***************************************************************************)
RowsBefore(cfg, lines, k) ==
  {j \in 1 .. Len(lines) : j < k /\ Accepts(cfg, lines[j])}

Reached(cfg, lines) ==
  {k \in 1 .. Len(lines) :
     cfg.limit = NoLimit \/ Cardinality(RowsBefore(cfg, lines, k)) < cfg.limit}

OwedRows(cfg, lines) ==
  {k \in Reached(cfg, lines) : Accepts(cfg, lines[k])}

OwedDead(cfg, lines) == {k \in Reached(cfg, lines) : Skips(cfg, lines[k])}

Offending(cfg, lines) ==
  {k \in Reached(cfg, lines) :
     Aborts(cfg, lines[k]) \/ lines[k] = "unfit"}
==============================================================================
