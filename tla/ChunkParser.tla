---------------------------- MODULE ChunkParser ----------------------------
(***************************************************************************)
(* parse_chunk on its own: the loop over the lines of one chunk, for every *)
(* chunk and every configuration in the given sets.                        *)
(***************************************************************************)
EXTENDS ParseChunk, Functions

CONSTANTS Inputs,   \* the chunks, as sequences of line kinds
          Configs   \* the configurations

ASSUME ChunkParserAssumption ==
  /\ NoLimit \notin Nat
  /\ Inputs \subseteq Seq(LineKind)
  /\ Configs \subseteq ParserConfig

VARIABLES
  cfg,    \* the configuration, fixed for the call
  lines,  \* the chunk, fixed for the call
  p,      \* the function's locals
  dead,   \* lines sent to dead_letter_tx, in order
  pc      \* "loop", "ok" (returned Ok) or "err" (returned Err)

vars == <<cfg, lines, p, dead, pc>>

Init ==
  /\ cfg \in Configs
  /\ lines \in Inputs
  /\ p = NewParser
  /\ dead = <<>>
  /\ pc = "loop"

InLoop == pc = "loop" /\ More(cfg, lines, p)

\* A `?` or a return leaves the function as soon as an error is there.
Continue == pc' = IF p'.err = "none" THEN "loop" ELSE "err"

Blank ==
  /\ InLoop
  /\ Current(lines, p) = "blank"
  /\ p' = PassBlank(p)
  /\ UNCHANGED <<cfg, lines, dead, pc>>

\* Mutant of BadLine: only what is not JSON is quarantined.
BadLineUnsent ==
  /\ InLoop
  /\ Skips(cfg, Current(lines, p))
  /\ p' = SkipLine(p)
  /\ dead' = IF Current(lines, p) = "malformed"
             THEN Append(dead, p.line + 1) ELSE dead
  /\ UNCHANGED <<cfg, lines, pc>>

BadLine ==
  /\ InLoop
  /\ Skips(cfg, Current(lines, p))
  /\ p' = SkipLine(p)
  /\ dead' = Append(dead, p.line + 1)
  /\ UNCHANGED <<cfg, lines, pc>>

Row ==
  /\ InLoop
  /\ Accepts(cfg, Current(lines, p))
  /\ p' = AddRow(cfg, lines, p)
  /\ Continue
  /\ UNCHANGED <<cfg, lines, dead>>

AbortingLine ==
  /\ InLoop
  /\ Aborts(cfg, Current(lines, p))
  /\ p' = Abort(Current(lines, p), p)
  /\ Continue
  /\ UNCHANGED <<cfg, lines, dead>>

Return ==
  /\ pc = "loop"
  /\ ~More(cfg, lines, p)
  /\ p' = Finish(lines, p)
  /\ pc' = IF p'.err = "none" THEN "ok" ELSE "err"
  /\ UNCHANGED <<cfg, lines, dead>>

Next ==
  \/ Blank
  \/ BadLine
  \/ Row
  \/ AbortingLine
  \/ Return

Spec == Init /\ [][Next]_vars

------------------------------------------------------------------------------
Full(batch) == Cardinality(batch) >= cfg.batch_size

(***************************************************************************)
(* Ok((batches, rows, skipped)) is exact: the batches are non-empty, hold  *)
(* the owed rows once each and in line order, every one but the last is    *)
(* full, and the two counters are the numbers of owed rows and rejects.    *)
(***************************************************************************)
OkIsExact ==
  pc = "ok" =>
    /\ Contents(p.batches) = OwedRows(cfg, lines)
    /\ \A i, j \in 1 .. Len(p.batches) : i < j =>
         /\ \A a \in p.batches[i], b \in p.batches[j] : a < b
         /\ Full(p.batches[i])
    /\ {} \notin Range(p.batches)
    /\ p.ok = Cardinality(OwedRows(cfg, lines))
    /\ p.skip = Cardinality(OwedDead(cfg, lines))

(***************************************************************************)
(* The quarantine loses and reorders nothing: at any time the dead letters *)
(* are the rejected lines among those read, once each and in line order;   *)
(* on success they are all that the chunk owes.                            *)
(***************************************************************************)
QuarantineExact ==
  /\ \A i, j \in DOMAIN dead : i < j => dead[i] < dead[j]
  /\ Range(dead) = {k \in OwedDead(cfg, lines) : k <= p.line}
  /\ pc = "ok" => Range(dead) = OwedDead(cfg, lines)

(***************************************************************************)
(* parse_chunk fails exactly on the chunks with an offending line within   *)
(* the limit; it stops at the first line that aborts, and an unfit row     *)
(* surfaces at the flush of its batch, never after a later aborting line.  *)
(***************************************************************************)
FailsOnOffence ==
  /\ pc = "ok" => Offending(cfg, lines) = {}
  /\ pc = "err" => \E k \in Offending(cfg, lines) : k <= p.line
  /\ pc = "err" /\ p.err \in {"JsonParse", "TypeMismatch"} =>
       /\ Aborts(cfg, lines[p.line])
       /\ \A k \in 1 .. p.line - 1 : ~Aborts(cfg, lines[k])

(***************************************************************************)
(* The type of the function's locals.                                      *)
(***************************************************************************)
TypeOK ==
  /\ cfg \in Configs
  /\ lines \in Inputs
  /\ p.line \in 0 .. Len(lines)
  /\ p.open \subseteq 1 .. p.line
  /\ p.batches \in Seq(SUBSET (1 .. Len(lines)))
  /\ p.ok \in 0 .. p.line /\ p.skip \in 0 .. p.line /\ p.err \in ErrKind
  /\ dead \in Seq(1 .. Len(lines))
  /\ pc \in {"loop", "ok", "err"}

==============================================================================
