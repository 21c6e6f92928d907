-------------------------- MODULE ChunkParserProofs --------------------------
(***************************************************************************)
(* Proofs about ChunkParser, for every set of chunks and configurations:   *)
(* what parse_chunk returns is exact, what it quarantines is exact, and it *)
(* fails exactly when a line is at fault.                                  *)
(***************************************************************************)
EXTENDS ChunkParser, ParseChunkProofs

LocalsType ==
  /\ cfg \in Configs /\ lines \in Inputs
  /\ p \in ParserState /\ p.ok <= p.line /\ p.skip <= p.line
  /\ dead \in Seq(1 .. Len(lines))
  /\ pc \in {"loop", "ok", "err"}
  /\ pc = "err" <=> p.err # "none"

\* No row that was read is missing from what the parser holds.
Whole(q) ==
  q.err = "none" =>
    RowsBefore(cfg, lines, q.line + 1) \subseteq q.open \cup Contents(q.batches)

\* In the loop every batch was flushed because it was full.
Filled(q) ==
  \A i \in DOMAIN q.batches : q.batches[i] # {} /\ Full(q.batches[i])

\* The dead letters are the rejects among the lines read, in line order.
DeadSorted ==
  /\ \A i, j \in DOMAIN dead : i < j => dead[i] < dead[j]
  /\ Range(dead) = DeadBefore(cfg, lines, p.line + 1)

Loop == pc = "loop" => Whole(p) /\ Filled(p)

\* Ok leaves nothing in the builders and no line unread within the limit.
Done == pc = "ok" => OkIsExact /\ Offending(cfg, lines) = {} /\ ~More(cfg, lines, p)

LInv == LocalsType /\ Knows(cfg, lines, p) /\ DeadSorted /\ Loop /\ Done

------------------------------------------------------------------------------
(***************************************************************************)
(* The call starts in the invariant.                                       *)
(***************************************************************************)
LEMMA InitLInv == Init => LInv
<1> SUFFICES ASSUME Init PROVE LInv
  OBVIOUS
<1>1. /\ lines \in Seq(LineKind) /\ p = NewParser /\ dead = <<>> /\ pc = "loop"
      /\ p.line = 0 /\ p.ok = 0 /\ p.skip = 0 /\ p.open = {} /\ p.err = "none"
      /\ p.batches = <<>>
  BY ChunkParserAssumption DEF Init, NewParser
<1>2. LocalsType
  BY <1>1, NewParserType DEF Init, LocalsType
<1>3. /\ Knows(cfg, lines, p) /\ RowsBefore(cfg, lines, p.line + 1) = {}
      /\ DeadBefore(cfg, lines, p.line + 1) = {}
  <2>1. p.line + 1 = 1
    BY <1>1
  <2> QED
    BY <1>1, <2>1, NewParserKnows DEF Knows
<1>4. DeadSorted
  BY <1>1, <1>3 DEF DeadSorted, Range
<1>5. Loop /\ Done
  BY <1>1, <1>3 DEF Loop, Done, Whole, Filled
<1> QED
  BY <1>2, <1>3, <1>4, <1>5 DEF LInv

(***************************************************************************)
(* What a step in the loop starts from.                                    *)
(***************************************************************************)
LEMMA LoopFacts ==
  ASSUME LInv, pc = "loop"
  PROVE  /\ cfg.limit \in Nat \cup {NoLimit} /\ lines \in Seq(LineKind)
         /\ p \in ParserState /\ p.line \in Nat /\ p.ok \in Nat
         /\ p.skip \in Nat /\ p.err = "none" /\ Knows(cfg, lines, p) /\ Whole(p)
         /\ Filled(p) /\ DeadSorted /\ p.ok <= p.line /\ p.skip <= p.line
         /\ InLoop => /\ More(cfg, lines, p) /\ p.line < Len(lines)
                      /\ Current(lines, p) = lines[p.line + 1]
                      /\ p.line + 1 \in 1 .. Len(lines)
<1>1. /\ p \in ParserState /\ p.err = "none" /\ cfg \in ParserConfig
      /\ lines \in Seq(LineKind)
  BY ChunkParserAssumption DEF LInv, LocalsType
<1>2. p.line \in Nat /\ p.ok \in Nat /\ p.skip \in Nat /\ cfg.limit \in Nat \cup {NoLimit}
  BY <1>1 DEF ParserState, ParserConfig
<1>3. InLoop => /\ More(cfg, lines, p) /\ p.line < Len(lines)
                /\ Current(lines, p) = lines[p.line + 1]
                /\ p.line + 1 \in 1 .. Len(lines)
  BY <1>1, <1>2 DEF InLoop, More, Current
<1> QED
  BY <1>1, <1>2, <1>3 DEF LInv, LocalsType, Loop

(***************************************************************************)
(* A step that reads one more line in the loop, and how it must leave the  *)
(* locals.                                                                 *)
(***************************************************************************)
LEMMA LineRead ==
  ASSUME LInv, InLoop, UNCHANGED <<cfg, lines>>,
         p' \in ParserState, p'.line = p.line + 1,
         p'.ok \in {p.ok, p.ok + 1}, p'.skip \in {p.skip, p.skip + 1},
         Knows(cfg, lines, p'), p'.err = "none" => Whole(p)' /\ Filled(p)',
         Continue,
         dead' = IF Skips(cfg, lines[p.line + 1])
                 THEN Append(dead, p.line + 1) ELSE dead
  PROVE  LInv'
<1>1. /\ lines \in Seq(LineKind) /\ p.line \in Nat /\ p.ok \in Nat
      /\ p.skip \in Nat /\ p.ok <= p.line /\ p.skip <= p.line
      /\ p.line < Len(lines) /\ p.line + 1 \in 1 .. Len(lines) /\ DeadSorted
      /\ dead \in Seq(1 .. Len(lines))
  BY LoopFacts DEF InLoop, LInv, LocalsType
<1>2. /\ IsFiniteSet(DeadBefore(cfg, lines, p.line + 1))
      /\ DeadBefore(cfg, lines, p.line + 2) =
           IF Skips(cfg, lines[p.line + 1])
           THEN DeadBefore(cfg, lines, p.line + 1) \cup {p.line + 1}
           ELSE DeadBefore(cfg, lines, p.line + 1)
  BY <1>1, DeadStepByStep
<1>3. \A k \in DeadBefore(cfg, lines, p.line + 1) : k \in Nat /\ k < p.line + 1
  BY <1>1 DEF DeadBefore
<1>4. p'.line + 1 = p.line + 2
  BY <1>1
<1>5. DeadSorted' /\ dead' \in Seq(1 .. Len(lines))
  <2>1. CASE Skips(cfg, lines[p.line + 1])
    <3> DEFINE d == Append(dead, p.line + 1)
    <3>1. dead' = d /\ d \in Seq(1 .. Len(lines))
      BY <1>1, <2>1
    <3> /\ Len(dead) \in Nat /\ DOMAIN dead = 1 .. Len(dead)
        /\ DOMAIN d = 1 .. Len(dead) + 1
      BY <1>1
    <3>2. /\ DOMAIN d = 1 .. Len(dead) + 1 /\ DOMAIN dead = 1 .. Len(dead)
          /\ Len(dead) \in Nat /\ d[Len(dead) + 1] = p.line + 1
          /\ \A i \in DOMAIN dead : d[i] = dead[i]
          /\ \A i \in DOMAIN d : i \in DOMAIN dead \/ i = Len(dead) + 1
          /\ \A i \in DOMAIN dead : i \in DOMAIN d
          /\ Len(dead) + 1 \in DOMAIN d
      BY <1>1
    <3> HIDE DEF d
    <3>3. Range(d) = Range(dead) \cup {p.line + 1}
      BY <3>2 DEF Range
    <3>4. \A i \in DOMAIN dead : dead[i] < p.line + 1
      BY <1>1, <1>3 DEF DeadSorted, Range
    <3>5. ASSUME NEW i \in DOMAIN d, NEW j \in DOMAIN d, i < j
          PROVE  d[i] < d[j]
      <4>1. i \in DOMAIN dead
        BY <3>2, <3>5
      <4>2. CASE j \in DOMAIN dead
        BY <1>1, <3>2, <3>5, <4>1, <4>2 DEF DeadSorted
      <4>3. CASE j = Len(dead) + 1
        BY <3>2, <3>4, <4>1, <4>3
      <4> QED
        BY <3>2, <4>2, <4>3
    <3> QED
      BY <1>1, <1>2, <1>4, <2>1, <3>1, <3>3, <3>5 DEF DeadSorted
  <2>2. CASE ~Skips(cfg, lines[p.line + 1])
    BY <1>1, <1>2, <1>4, <2>2 DEF DeadSorted
  <2> QED
    BY <2>1, <2>2
<1>6. LocalsType'
  <2>1. p'.ok <= p'.line /\ p'.skip <= p'.line
    BY <1>1
  <2> QED
    BY <1>5, <2>1 DEF LInv, LocalsType, Continue
<1>7. Loop' /\ Done'
  BY DEF Continue, Loop, Done
<1> QED
  BY <1>5, <1>6, <1>7 DEF LInv

(***************************************************************************)
(* A blank line and a rejected one.                                        *)
(***************************************************************************)
LEMMA PassKeepsLInv ==
  ASSUME LInv, Blank \/ BadLine
  PROVE  LInv'
<1>1. /\ InLoop /\ pc = "loop" /\ UNCHANGED <<cfg, lines>> /\ pc' = pc
      /\ p' \in {PassBlank(p), SkipLine(p)}
  BY DEF Blank, BadLine, InLoop
<1> DEFINE kind == lines[p.line + 1]
<1>2. /\ cfg.limit \in Nat \cup {NoLimit} /\ lines \in Seq(LineKind)
      /\ p \in ParserState /\ p.err = "none" /\ Knows(cfg, lines, p) /\ Whole(p)
      /\ Filled(p) /\ More(cfg, lines, p) /\ p.line < Len(lines)
      /\ Current(lines, p) = kind /\ p.line \in Nat
  BY <1>1, LoopFacts
<1>3. /\ p' \in ParserState /\ p'.line = p.line + 1 /\ p'.open = p.open
      /\ p'.batches = p.batches /\ p'.err = "none"
  BY <1>1, <1>2, SkipTypes
<1>4. /\ dead' = IF Skips(cfg, kind) THEN Append(dead, p.line + 1) ELSE dead
      /\ \/ kind = "blank" /\ p' = PassBlank(p)
         \/ Skips(cfg, kind) /\ p' = SkipLine(p)
  BY <1>2 DEF Blank, BadLine, Skips
<1>5. /\ Knows(cfg, lines, p') /\ p'.ok = p.ok
      /\ p'.skip \in {p.skip, p.skip + 1} /\ ~Accepts(cfg, kind)
  BY <1>2, <1>3, <1>4, PassKnows
<1>6. Whole(p)'
  <2>1. RowsBefore(cfg, lines, p.line + 2) = RowsBefore(cfg, lines, p.line + 1)
    BY <1>2, <1>5, RowsStepByStep
  <2>2. p'.line + 1 = p.line + 2
    BY <1>2, <1>3
  <2> QED
    BY <1>1, <1>2, <1>3, <2>1, <2>2 DEF Whole
<1>7. Filled(p)'
  BY <1>1, <1>2, <1>3 DEF Filled, Full
<1>8. Continue
  BY <1>1, <1>3 DEF Continue
<1> HIDE DEF kind
<1> QED
  BY <1>1, <1>3, <1>4, <1>5, <1>6, <1>7, <1>8, LineRead DEF kind

(***************************************************************************)
(* A flush adds a batch of the open rows, of which there are enough.       *)
(***************************************************************************)
LEMMA FlushFills ==
  ASSUME NEW q \in ParserState, Filled(q), q.open # {}, Full(q.open)
  PROVE  Filled(Flush(lines, q))
<1> DEFINE f == Flush(lines, q)
<1>1. q.batches \in Seq(SUBSET Nat) /\ q.open \in SUBSET Nat
  BY DEF ParserState
<1>2. f.batches \in {q.batches, Append(q.batches, q.open)}
  BY FlushOutcome
<1> HIDE DEF f
<1>3. CASE f.batches = q.batches
  BY <1>3 DEF Filled, f
<1>4. CASE f.batches = Append(q.batches, q.open)
  <2>1. \A i \in DOMAIN f.batches :
          \/ i \in DOMAIN q.batches /\ f.batches[i] = q.batches[i]
          \/ f.batches[i] = q.open
    BY <1>1, <1>4
  <2> QED
    BY <2>1 DEF Filled, f
<1> QED
  BY <1>2, <1>3, <1>4

(***************************************************************************)
(* An accepted line.                                                       *)
(***************************************************************************)
LEMMA RowKeepsLInv ==
  ASSUME LInv, Row
  PROVE  LInv'
<1>1. /\ InLoop /\ pc = "loop" /\ UNCHANGED <<cfg, lines, dead>> /\ Continue
      /\ p' = AddRow(cfg, lines, p)
  BY DEF Row, InLoop
<1> DEFINE kind == lines[p.line + 1]
<1>2. /\ cfg.limit \in Nat \cup {NoLimit} /\ lines \in Seq(LineKind)
      /\ p \in ParserState /\ p.err = "none" /\ Knows(cfg, lines, p) /\ Whole(p)
      /\ Filled(p) /\ More(cfg, lines, p) /\ p.line < Len(lines)
      /\ Current(lines, p) = kind /\ p.line \in Nat /\ p.ok \in Nat
  BY <1>1, LoopFacts
<1>3. Accepts(cfg, kind) /\ ~Skips(cfg, kind)
  BY <1>2 DEF Row, Accepts, Skips
<1>4. PICK r \in ParserState :
        /\ r.line = p.line + 1 /\ r.ok = p.ok + 1 /\ r.skip = p.skip
        /\ r.err = p.err /\ r.batches = p.batches
        /\ r.open = p.open \cup {p.line + 1}
        /\ p' = IF Cardinality(r.open) >= cfg.batch_size
                THEN Flush(lines, r) ELSE r
  BY <1>1, <1>2, AddRowOutcome
<1>5. /\ p' \in ParserState /\ p'.line = p.line + 1 /\ p'.ok = p.ok + 1
      /\ p'.skip = p.skip
  BY <1>4, FlushOutcome
<1>6. Knows(cfg, lines, p')
  BY <1>1, <1>2, <1>3, RowKnows
<1>7. Whole(p)'
  <2>1. RowsBefore(cfg, lines, p.line + 2)
          = RowsBefore(cfg, lines, p.line + 1) \cup {p.line + 1}
    BY <1>2, <1>3, RowsStepByStep
  <2>2. p'.line + 1 = p.line + 2
    BY <1>2, <1>5
  <2>3. p'.err = "none" =>
          p'.open \cup Contents(p'.batches)
            = p.open \cup Contents(p.batches) \cup {p.line + 1}
    BY <1>1, <1>2, AddRowAdds
  <2> QED
    BY <1>1, <1>2, <2>1, <2>2, <2>3 DEF Whole
<1>8. Filled(p)'
  <2>1. Filled(r)
    BY <1>2, <1>4 DEF Filled
  <2>2. Filled(AddRow(cfg, lines, p))
    BY <1>1, <1>4, <2>1, FlushFills DEF Full
  <2> QED
    BY <1>1, <2>2 DEF Filled, Full
<1> HIDE DEF kind
<1> QED
  BY <1>1, <1>3, <1>5, <1>6, <1>7, <1>8, LineRead DEF kind

(***************************************************************************)
(* A line that ends the function with an error.                            *)
(***************************************************************************)
LEMMA AbortKeepsLInv ==
  ASSUME LInv, AbortingLine
  PROVE  LInv'
<1>1. /\ InLoop /\ pc = "loop" /\ UNCHANGED <<cfg, lines, dead>> /\ Continue
      /\ p' = Abort(Current(lines, p), p)
  BY DEF AbortingLine, InLoop
<1> DEFINE kind == lines[p.line + 1]
<1>2. /\ cfg.limit \in Nat \cup {NoLimit} /\ lines \in Seq(LineKind)
      /\ p \in ParserState /\ p.err = "none" /\ Knows(cfg, lines, p)
      /\ More(cfg, lines, p) /\ Current(lines, p) = kind
  BY <1>1, LoopFacts
<1>3. Aborts(cfg, kind) /\ ~Skips(cfg, kind)
  BY <1>2 DEF AbortingLine, Aborts, Skips
<1>4. /\ p' \in ParserState /\ p'.line = p.line + 1 /\ p'.open = p.open
      /\ p'.batches = p.batches /\ p'.err # "none"
  BY <1>1, <1>2, SkipTypes
<1>5. p'.ok = p.ok /\ p'.skip = p.skip
  BY <1>1, <1>2 DEF Abort, ParserState
<1>6. Knows(cfg, lines, p')
  BY <1>1, <1>2, <1>3, AbortKnows
<1> HIDE DEF kind
<1> QED
  BY <1>1, <1>3, <1>4, <1>5, <1>6, LineRead DEF kind

(***************************************************************************)
(* The end of the loop: the last flush, and the locals are the result.     *)
(***************************************************************************)
LEMMA ReturnKeepsLInv ==
  ASSUME LInv, Return
  PROVE  LInv'
<1>1. /\ pc = "loop" /\ UNCHANGED <<cfg, lines, dead>> /\ ~More(cfg, lines, p)
      /\ p' = Finish(lines, p) /\ pc' = IF p'.err = "none" THEN "ok" ELSE "err"
  BY DEF Return
<1>2. /\ cfg.limit \in Nat \cup {NoLimit} /\ lines \in Seq(LineKind)
      /\ p \in ParserState /\ p.err = "none" /\ Knows(cfg, lines, p) /\ Whole(p)
      /\ Filled(p) /\ DeadSorted /\ p.line \in Nat
      /\ p.ok <= p.line /\ p.skip <= p.line
  BY <1>1, LoopFacts
<1>3. /\ p' \in ParserState /\ p'.line = p.line /\ p'.ok = p.ok
      /\ p'.skip = p.skip
      /\ p'.err = "none" =>
           p'.open \cup Contents(p'.batches) = p.open \cup Contents(p.batches)
  BY <1>1, <1>2, FinishMoves, FlushOutcome DEF Finish
<1>4. Knows(cfg, lines, p')
  BY <1>1, <1>2, FinishKnows
<1>5. /\ RowsBefore(cfg, lines, p.line + 1) = OwedRows(cfg, lines)
      /\ DeadBefore(cfg, lines, p.line + 1) = OwedDead(cfg, lines)
      /\ Offending(cfg, lines) \subseteq p.open
  BY <1>1, <1>2, LoopOwes DEF Knows
<1>6. DeadSorted'
  BY <1>1, <1>2, <1>3 DEF DeadSorted
<1>7. LocalsType' /\ Loop'
  BY <1>1, <1>2, <1>3 DEF LInv, LocalsType, Loop
<1>8. ASSUME p'.err = "none"
      PROVE  OkIsExact' /\ Offending(cfg, lines) = {} /\ ~More(cfg, lines, p)'
  <2> DEFINE b == p.batches
             f == Finish(lines, p)
  <2>1. b \in Seq(SUBSET Nat) /\ p.open \in SUBSET Nat
    BY <1>2 DEF ParserState
  <2>2. \/ p.open = {} /\ f = p
        \/ /\ p.open # {} /\ f.open = {} /\ f.batches = Append(b, p.open)
           /\ \A row \in p.open : lines[row] # "unfit"
    BY <1>1, <1>2, <1>8, FlushOutcome DEF Finish
  <2>3. f.open = {} /\ Offending(cfg, lines) = {}
    <3>1. CASE p.open = {} /\ f = p
      BY <1>5, <3>1
    <3>2. CASE f.open = {} /\ \A row \in p.open : lines[row] # "unfit"
      <4>1. \A k \in p.open : ~Aborts(cfg, lines[k])
        BY <1>2 DEF Knows, Faithful, OwedRows, Accepts, Aborts
      <4>2. Offending(cfg, lines) = {}
        BY <1>5, <3>2, <4>1 DEF Offending
      <4> QED
        BY <3>2, <4>2
    <3> QED
      BY <2>2, <3>1, <3>2
  <2>4. Contents(f.batches) = OwedRows(cfg, lines)
    BY <1>1, <1>2, <1>3, <1>5, <1>8, <2>3 DEF Knows, Sorted, Whole
  <2>5. \A i, j \in DOMAIN f.batches : i < j => Full(f.batches[i])
    <3>1. CASE f.batches = b
      BY <1>2, <3>1 DEF Filled
    <3>2. CASE f.batches = Append(b, p.open)
      <4>1. \A i, j \in DOMAIN f.batches :
              i < j => i \in DOMAIN b /\ f.batches[i] = b[i]
        BY <2>1, <3>2
      <4> QED
        BY <1>2, <4>1 DEF Filled
    <3> QED
      BY <2>2, <3>1, <3>2
  <2>6. {} \notin Range(f.batches)
    <3>1. CASE f.batches = b
      BY <1>2, <3>1 DEF Filled, Range
    <3>2. CASE f.batches = Append(b, p.open) /\ p.open # {}
      <4>1. \A i \in DOMAIN f.batches :
              (i \in DOMAIN b /\ f.batches[i] = b[i]) \/ f.batches[i] = p.open
        BY <2>1, <3>2
      <4> QED
        BY <1>2, <3>2, <4>1 DEF Filled, Range
    <3> QED
      BY <2>2, <3>1, <3>2
  <2>7. f.batches \in Seq(SUBSET Nat)
    BY <1>1, <1>3 DEF ParserState
  <2>8. DOMAIN f.batches = 1 .. Len(f.batches)
    BY <2>7
  <2>9. \A i, j \in DOMAIN f.batches : i < j =>
          \A x \in f.batches[i], y \in f.batches[j] : x < y
    BY <1>1, <1>4 DEF Knows, Sorted
  <2>10. p.ok = Cardinality(OwedRows(cfg, lines))
         /\ p.skip = Cardinality(OwedDead(cfg, lines))
    BY <1>2, <1>5 DEF Knows, Faithful, Exact
  <2>11. ~More(cfg, lines, p)'
    BY <1>1, <1>3 DEF More, AtLimit
  <2> HIDE DEF f, b
  <2>12. p' = f
    BY <1>1 DEF f
  <2>13. OkIsExact'
    BY <1>1, <1>3, <2>4, <2>5, <2>6, <2>8, <2>9, <2>10, <2>12
    DEF OkIsExact, Full
  <2> QED
    BY <2>3, <2>11, <2>13
<1>9. Done'
  BY <1>1, <1>8 DEF Done
<1> QED
  BY <1>1, <1>4, <1>6, <1>7, <1>9 DEF LInv

(***************************************************************************)
(* Every step keeps the invariant, so it always holds.                     *)
(***************************************************************************)
LEMMA LoopInvariance == Spec => []LInv
<1>1. LInv /\ [Next]_vars => LInv'
  <2> SUFFICES ASSUME LInv, [Next]_vars PROVE LInv'
    OBVIOUS
  <2>1. CASE UNCHANGED vars
    BY <2>1 DEF vars, LInv, LocalsType, Knows, DeadSorted, Loop, Done, Whole,
                Filled, Full, OkIsExact
  <2> QED
    BY <2>1, PassKeepsLInv, RowKeepsLInv, AbortKeepsLInv, ReturnKeepsLInv
    DEF Next
<1> QED
  BY <1>1, InitLInv, PTL DEF Spec

------------------------------------------------------------------------------
(***************************************************************************)
(* The locals of parse_chunk keep their types: rows and dead letters are   *)
(* numbers of lines read, and no counter passes the number of lines.       *)
(***************************************************************************)
THEOREM LocalsTyped == Spec => []TypeOK
<1>1. LInv => TypeOK
  <2> SUFFICES ASSUME LInv PROVE TypeOK
    OBVIOUS
  <2>1. /\ p \in ParserState /\ lines \in Seq(LineKind) /\ LocalsType
        /\ Faithful(cfg, lines, p) /\ Sorted(cfg, lines, p)
    BY ChunkParserAssumption DEF LInv, LocalsType, Knows
  <2>2. /\ p.line \in Nat /\ p.ok \in Nat /\ p.skip \in Nat
        /\ p.err \in ErrKind /\ p.batches \in Seq(SUBSET Nat)
    BY <2>1 DEF ParserState
  <2>3. p.line \in 0 .. Len(lines) /\ p.open \subseteq 1 .. p.line
    BY <2>1, <2>2 DEF Faithful
  <2>4. p.ok \in 0 .. p.line /\ p.skip \in 0 .. p.line
    BY <2>1, <2>2 DEF LocalsType
  <2>5. \A i \in DOMAIN p.batches : p.batches[i] \in SUBSET (1 .. Len(lines))
    BY <2>1 DEF Sorted, Contents, RowsBefore
  <2>6. p.batches \in Seq(SUBSET (1 .. Len(lines)))
    BY <2>2, <2>5
  <2> QED
    BY <2>1, <2>2, <2>3, <2>4, <2>6 DEF LocalsType, TypeOK
<1> QED
  BY <1>1, LoopInvariance, PTL

(***************************************************************************)
(* Ok is exact: the batches hold the owed rows once, in line order and in  *)
(* full batches, and the counters are the numbers of rows and rejects.     *)
(***************************************************************************)
THEOREM OkExact == Spec => []OkIsExact
<1>1. LInv => OkIsExact
  BY DEF LInv, Done, OkIsExact
<1> QED
  BY <1>1, LoopInvariance, PTL

(***************************************************************************)
(* The quarantine gets every rejected line as it is read, once and in line *)
(* order, also when the function fails later.                              *)
(***************************************************************************)
THEOREM DeadExact == Spec => []QuarantineExact
<1>1. LInv => QuarantineExact
  <2> SUFFICES ASSUME LInv PROVE QuarantineExact
    OBVIOUS
  <2>1. /\ p \in ParserState /\ lines \in Seq(LineKind) /\ cfg \in ParserConfig
        /\ Faithful(cfg, lines, p) /\ Exact(cfg, lines, p) /\ DeadSorted /\ Done
        /\ pc = "err" <=> p.err # "none"
    BY ChunkParserAssumption DEF LInv, LocalsType, Knows
  <2>2. p.line \in Nat /\ cfg.limit \in Nat \cup {NoLimit}
    BY <2>1 DEF ParserState, ParserConfig
  <2>3. DeadBefore(cfg, lines, p.line + 1)
          = {k \in OwedDead(cfg, lines) : k <= p.line}
    <3>1. 1 .. p.line \subseteq Reached(cfg, lines)
      BY <2>1 DEF Exact
    <3>2. \A k \in 1 .. Len(lines) : k < p.line + 1 <=> k \in 1 .. p.line
      BY <2>2
    <3>3. \A k \in 1 .. Len(lines) : k < p.line + 1 <=> k <= p.line
      BY <2>2
    <3>4. Reached(cfg, lines) \subseteq 1 .. Len(lines)
      BY DEF Reached
    <3> QED
      BY <3>1, <3>2, <3>3, <3>4 DEF DeadBefore, OwedDead
  <2>4. pc = "ok" => DeadBefore(cfg, lines, p.line + 1) = OwedDead(cfg, lines)
    BY <2>1, <2>2, LoopOwes DEF Done
  <2> QED
    BY <2>1, <2>3, <2>4 DEF DeadSorted, QuarantineExact
<1> QED
  BY <1>1, LoopInvariance, PTL

(***************************************************************************)
(* parse_chunk fails on an offending line within the limit and only then,  *)
(* and stops at the first line that aborts.                                *)
(***************************************************************************)
THEOREM FailsExactly == Spec => []FailsOnOffence
<1>1. LInv => FailsOnOffence
  BY DEF LInv, LocalsType, Knows, Faithful, Exact, Done, FailsOnOffence
<1> QED
  BY <1>1, LoopInvariance, PTL
==============================================================================
