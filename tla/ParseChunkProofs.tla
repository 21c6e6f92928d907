--------------------------- MODULE ParseChunkProofs ---------------------------
(***************************************************************************)
(* Lemmas about the operators of ParseChunk: the type of what they return, *)
(* that a flush only moves rows from the builders to the batches, and what *)
(* a parser knows of the lines it has read (Knows), which every operator   *)
(* keeps and from which both ChunkParser and Pipeline are proved.          *)
(***************************************************************************)
EXTENDS ParseChunk, SequenceTheorems, FiniteSetTheorems, TLAPS

\* What a parser knows of the lines before it: total_ok is their number of
\* rows, the builders hold owed rows, and its error is in one of them.
Faithful(cfg, lines, p) ==
  /\ p.line <= Len(lines)
  /\ p.open \subseteq OwedRows(cfg, lines)
  /\ p.open \subseteq 1 .. p.line
  /\ p.ok = Cardinality(RowsBefore(cfg, lines, p.line + 1))
  /\ p.err # "none" => \E k \in Offending(cfg, lines) : k <= p.line

\* The rejected lines before line k.
DeadBefore(cfg, lines, k) ==
  {j \in 1 .. Len(lines) : j < k /\ Skips(cfg, lines[j])}

\* What the loop knows of the lines it read: all within the limit and, if it
\* goes on, none aborting, an unfit one still in the builders, total_skip
\* exact; it breaks off at the first line that aborts.
Exact(cfg, lines, p) ==
  /\ 1 .. p.line \subseteq Reached(cfg, lines)
  /\ p.err = "none" =>
       /\ \A k \in 1 .. p.line : ~Aborts(cfg, lines[k])
       /\ \A k \in 1 .. p.line : lines[k] = "unfit" => k \in p.open
       /\ p.skip = Cardinality(DeadBefore(cfg, lines, p.line + 1))
  /\ p.err \in {"JsonParse", "TypeMismatch"} =>
       /\ p.line >= 1 /\ Aborts(cfg, lines[p.line])
       /\ \A k \in 1 .. p.line - 1 : ~Aborts(cfg, lines[k])

\* The rows a parser holds are rows it read, in line order.
Sorted(cfg, lines, p) ==
  /\ p.open \cup Contents(p.batches) \subseteq RowsBefore(cfg, lines, p.line + 1)
  /\ \A i, j \in DOMAIN p.batches : i < j =>
       \A a \in p.batches[i], b \in p.batches[j] : a < b
  /\ \A a \in Contents(p.batches), b \in p.open : a < b

\* The loop invariant of parse_chunk.
Knows(cfg, lines, p) ==
  Faithful(cfg, lines, p) /\ Exact(cfg, lines, p) /\ Sorted(cfg, lines, p)

------------------------------------------------------------------------------
(***************************************************************************)
(* Pushing a batch adds its rows; nothing that was there is lost.          *)
(***************************************************************************)
LEMMA ContentsAppend ==
  ASSUME NEW T, NEW s \in Seq(T), NEW b \in T
  PROVE  Contents(Append(s, b)) = Contents(s) \cup b
<1> DEFINE t == Append(s, b)
<1>1. /\ Len(s) \in Nat /\ DOMAIN s = 1 .. Len(s)
      /\ DOMAIN t = 1 .. Len(s) + 1
      /\ t[Len(s) + 1] = b
      /\ \A i \in 1 .. Len(s) : t[i] = s[i]
  OBVIOUS
<1>2. \A x \in Contents(t) : x \in Contents(s) \cup b
  <2> SUFFICES ASSUME NEW i \in DOMAIN t, NEW x \in t[i]
               PROVE  x \in Contents(s) \cup b
    BY DEF Contents
  <2>1. CASE i = Len(s) + 1
    BY <1>1, <2>1
  <2>2. CASE i \in 1 .. Len(s)
    BY <1>1, <2>2 DEF Contents
  <2> QED
    BY <1>1, <2>1, <2>2
<1>3. \A x \in Contents(s) : x \in Contents(t)
  <2> SUFFICES ASSUME NEW i \in DOMAIN s, NEW x \in s[i]
               PROVE  x \in Contents(t)
    BY DEF Contents
  <2>1. i \in DOMAIN t /\ x \in t[i]
    BY <1>1
  <2> QED
    BY <2>1 DEF Contents
<1>4. \A x \in b : x \in Contents(t)
  <2>1. Len(s) + 1 \in DOMAIN t
    BY <1>1
  <2> QED
    BY <1>1, <2>1 DEF Contents
<1> QED
  BY <1>2, <1>3, <1>4

(***************************************************************************)
(* Taking the first batch takes its rows and no others.                    *)
(***************************************************************************)
LEMMA ContentsHeadTail ==
  ASSUME NEW T, NEW s \in Seq(T), s # <<>>
  PROVE  Contents(s) = Head(s) \cup Contents(Tail(s))
<1> DEFINE t == Tail(s)
<1>1. /\ Len(s) \in Nat /\ Len(s) >= 1 /\ DOMAIN s = 1 .. Len(s)
      /\ DOMAIN t = 1 .. Len(s) - 1
      /\ \A i \in 1 .. Len(s) - 1 : t[i] = s[i + 1]
      /\ Head(s) = s[1]
  OBVIOUS
<1>2. \A x \in Contents(s) : x \in Head(s) \cup Contents(t)
  <2> SUFFICES ASSUME NEW i \in DOMAIN s, NEW x \in s[i]
               PROVE  x \in Head(s) \cup Contents(t)
    BY DEF Contents
  <2>1. CASE i = 1
    BY <1>1, <2>1
  <2>2. CASE i # 1
    <3>1. i - 1 \in 1 .. Len(s) - 1 /\ t[i - 1] = s[i]
      BY <1>1, <2>2
    <3> QED
      BY <1>1, <3>1 DEF Contents
  <2> QED
    BY <2>1, <2>2
<1>3. \A x \in Contents(t) : x \in Contents(s)
  <2> SUFFICES ASSUME NEW i \in DOMAIN t, NEW x \in t[i]
               PROVE  x \in Contents(s)
    BY DEF Contents
  <2>1. i + 1 \in DOMAIN s /\ x \in s[i + 1]
    BY <1>1
  <2> QED
    BY <2>1 DEF Contents
<1>4. \A x \in Head(s) : x \in Contents(s)
  <2>1. 1 \in DOMAIN s
    BY <1>1
  <2> QED
    BY <1>1, <2>1 DEF Contents
<1> QED
  BY <1>2, <1>3, <1>4

(***************************************************************************)
(* Every locals record that parse_chunk reaches has its type; flush and    *)
(* the end of the loop only take rows out of the builders.                 *)
(***************************************************************************)
LEMMA NewParserType == NewParser \in ParserState /\ NewParser.open = {}
  BY DEF NewParser, ParserState, ErrKind

(***************************************************************************)
(* Assigning one local keeps the record's type.                            *)
(***************************************************************************)
LEMMA FieldTypes ==
  ASSUME NEW p \in ParserState
  PROVE  /\ \A n \in Nat : [p EXCEPT !.line = n] \in ParserState
         /\ \A n \in Nat : [p EXCEPT !.ok = n] \in ParserState
         /\ \A n \in Nat : [p EXCEPT !.skip = n] \in ParserState
         /\ \A e \in ErrKind : [p EXCEPT !.err = e] \in ParserState
         /\ \A rows \in SUBSET Nat : [p EXCEPT !.open = rows] \in ParserState
<1>1. \A n \in Nat : [p EXCEPT !.line = n] \in ParserState
  BY DEF ParserState
<1>2. \A n \in Nat : [p EXCEPT !.ok = n] \in ParserState
  BY DEF ParserState
<1>3. \A n \in Nat : [p EXCEPT !.skip = n] \in ParserState
  BY DEF ParserState
<1>4. \A e \in ErrKind : [p EXCEPT !.err = e] \in ParserState
  BY DEF ParserState
<1>5. \A rows \in SUBSET Nat : [p EXCEPT !.open = rows] \in ParserState
  BY DEF ParserState
<1> QED
  BY <1>1, <1>2, <1>3, <1>4, <1>5

(***************************************************************************)
(* A skipped line, blank or quarantined, and an aborting one.              *)
(***************************************************************************)
LEMMA SkipTypes ==
  ASSUME NEW p \in ParserState, NEW kind
  PROVE  /\ PassBlank(p) = [p EXCEPT !.line = p.line + 1]
         /\ PassBlank(p) \in ParserState /\ SkipLine(p) \in ParserState
         /\ Abort(kind, p) \in ParserState
         /\ \A q \in {PassBlank(p), SkipLine(p), Abort(kind, p)} :
              /\ q.line = p.line + 1 /\ q.open = p.open
              /\ q.batches = p.batches
         /\ PassBlank(p).err = p.err /\ SkipLine(p).err = p.err
         /\ Abort(kind, p).err # "none"
<1>1. ErrorOf(kind) \in ErrKind \ {"none"}
  BY DEF ErrorOf, ErrKind
<1>2. /\ PassBlank(p) = [p EXCEPT !.line = p.line + 1]
      /\ PassBlank(p) \in ParserState /\ SkipLine(p) \in ParserState
  <2>1. p.line + 1 \in Nat /\ p.skip + 1 \in Nat
    BY DEF ParserState
  <2>2. [p EXCEPT !.line = p.line + 1] \in ParserState
    BY <2>1, FieldTypes
  <2>3. [[p EXCEPT !.line = p.line + 1] EXCEPT !.skip = p.skip + 1]
          \in ParserState
    BY <2>1, <2>2, FieldTypes
  <2> QED
    BY <2>2, <2>3 DEF PassBlank, SkipLine
<1>3. ASSUME NEW e \in ErrKind \ {"none"}
      PROVE  LET q == [p EXCEPT !.line = @ + 1, !.err = e]
             IN  /\ q \in ParserState /\ q.err # "none"
                 /\ q.line = p.line + 1 /\ q.open = p.open
                 /\ q.batches = p.batches
  <2> DEFINE q == [p EXCEPT !.line = @ + 1, !.err = e]
  <2>1. q \in ParserState
    <3>1. p.line + 1 \in Nat /\ e \in ErrKind
      BY <1>3 DEF ParserState
    <3>2. [p EXCEPT !.line = p.line + 1] \in ParserState
      BY <3>1, FieldTypes
    <3> QED
      BY <3>1, <3>2, FieldTypes
  <2>2. q.line = p.line + 1 /\ q.err = e
    BY DEF ParserState
  <2>3. q.open = p.open /\ q.batches = p.batches
    BY DEF ParserState
  <2> QED
    BY <1>3, <2>1, <2>2, <2>3
<1>4. /\ Abort(kind, p) \in ParserState /\ Abort(kind, p).err # "none"
      /\ Abort(kind, p).line = p.line + 1 /\ Abort(kind, p).open = p.open
      /\ Abort(kind, p).batches = p.batches
  BY <1>1, <1>3 DEF Abort
<1>5. \A q \in {PassBlank(p), SkipLine(p)} :
        q.line = p.line + 1 /\ q.open = p.open /\ q.batches = p.batches
  BY DEF ParserState, PassBlank, SkipLine
<1>6. PassBlank(p).err = p.err /\ SkipLine(p).err = p.err
  BY DEF ParserState, PassBlank, SkipLine
<1> QED
  BY <1>2, <1>4, <1>5, <1>6

(***************************************************************************)
(* What the ways to leave a line behind have in common.                    *)
(***************************************************************************)
LEMMA SkipFields ==
  ASSUME NEW p \in ParserState, NEW kind,
         NEW q \in {PassBlank(p), SkipLine(p), Abort(kind, p)}
  PROVE  /\ q \in ParserState
         /\ q.line = p.line + 1 /\ q.open = p.open /\ q.batches = p.batches
<1>1. /\ PassBlank(p) \in ParserState /\ SkipLine(p) \in ParserState
      /\ Abort(kind, p) \in ParserState
  BY SkipTypes, Zenon
<1>2. /\ PassBlank(p).line = p.line + 1 /\ PassBlank(p).open = p.open
      /\ PassBlank(p).batches = p.batches
  BY SkipTypes, Zenon
<1>3. /\ SkipLine(p).line = p.line + 1 /\ SkipLine(p).open = p.open
      /\ SkipLine(p).batches = p.batches
  BY SkipTypes, Zenon
<1>4. /\ Abort(kind, p).line = p.line + 1 /\ Abort(kind, p).open = p.open
      /\ Abort(kind, p).batches = p.batches
  BY SkipTypes, Zenon
<1>5. \/ q = PassBlank(p) \/ q = SkipLine(p) \/ q = Abort(kind, p)
  OBVIOUS
<1> QED
  BY <1>1, <1>2, <1>3, <1>4, <1>5, Zenon

(***************************************************************************)
(* flush either fails with the rows still in hand or moves them into one   *)
(* more batch.                                                             *)
(***************************************************************************)
LEMMA FlushMoves ==
  ASSUME NEW p \in ParserState, NEW lines
  PROVE  LET q == Flush(lines, p)
         IN  /\ q \in ParserState /\ q.line = p.line /\ q.open \subseteq p.open
             /\ q.err \in {p.err, "Arrow"}
             /\ q.err # p.err => p.open # {}
             /\ q.err = "none" =>
                  q.open \cup Contents(q.batches)
                    = p.open \cup Contents(p.batches)
<1> DEFINE bad == \E row \in p.open : lines[row] = "unfit"
<1>1. /\ p.batches \in Seq(SUBSET Nat) /\ p.open \in SUBSET Nat
      /\ p.line \in Nat /\ p.err \in ErrKind
  BY DEF ParserState
<1>2. CASE bad
  <2>1. Flush(lines, p) = [p EXCEPT !.err = "Arrow"]
    BY <1>2 DEF Flush
  <2> QED
    BY <1>2, <2>1 DEF ParserState, ErrKind
<1>3. CASE ~bad
  <2>1. Flush(lines, p)
          = [p EXCEPT !.batches = Append(p.batches, p.open), !.open = {}]
    BY <1>3 DEF Flush
  <2>2. Append(p.batches, p.open) \in Seq(SUBSET Nat)
    BY <1>1
  <2>3. Contents(Append(p.batches, p.open)) = Contents(p.batches) \cup p.open
    BY <1>1, ContentsAppend
  <2>4. /\ Flush(lines, p) \in ParserState
        /\ Flush(lines, p).line = p.line /\ Flush(lines, p).err = p.err
        /\ Flush(lines, p).open = {}
        /\ Flush(lines, p).batches = Append(p.batches, p.open)
    BY <2>1, <2>2 DEF ParserState
  <2> QED
    BY <2>3, <2>4
<1> QED
  BY <1>2, <1>3

(***************************************************************************)
(* An accepted line adds one row to what the chunk holds.                  *)
(***************************************************************************)
LEMMA AddRowAdds ==
  ASSUME NEW p \in ParserState, NEW lines, NEW cfg
  PROVE  LET q == AddRow(cfg, lines, p)
         IN  /\ q \in ParserState /\ q.line = p.line + 1
             /\ q.open \subseteq p.open \cup {p.line + 1}
             /\ q.err = "none" =>
                  q.open \cup Contents(q.batches)
                    = p.open \cup Contents(p.batches) \cup {p.line + 1}
<1> DEFINE r == [p EXCEPT !.line = @ + 1, !.open = @ \cup {p.line + 1},
                          !.ok = @ + 1]
<1>1. /\ r \in ParserState /\ r.line = p.line + 1
      /\ r.open = p.open \cup {p.line + 1} /\ r.batches = p.batches
  <2> DEFINE r1 == [p EXCEPT !.line = p.line + 1]
             r2 == [r1 EXCEPT !.open = p.open \cup {p.line + 1}]
  <2>1. /\ p.line + 1 \in Nat /\ p.ok + 1 \in Nat
        /\ p.open \cup {p.line + 1} \in SUBSET Nat
    BY DEF ParserState
  <2>2. r1 \in ParserState
    BY <2>1, FieldTypes
  <2>3. r2 \in ParserState
    BY <2>1, <2>2, FieldTypes
  <2>4. r \in ParserState
    BY <2>1, <2>3, FieldTypes
  <2>5. r.line = p.line + 1 /\ r.batches = p.batches
    BY DEF ParserState
  <2>6. r.open = p.open \cup {p.line + 1}
    BY DEF ParserState
  <2> QED
    BY <2>4, <2>5, <2>6
<1>2. AddRow(cfg, lines, p) \in {r, Flush(lines, r)}
  BY DEF AddRow
<1> HIDE DEF r
<1>3. CASE AddRow(cfg, lines, p) = r
  BY <1>1, <1>3
<1>4. CASE AddRow(cfg, lines, p) = Flush(lines, r)
  BY <1>1, <1>4, FlushMoves
<1> QED
  BY <1>2, <1>3, <1>4

(***************************************************************************)
(* After the loop the builders hold no row, unless the last flush failed.  *)
(***************************************************************************)
LEMMA FinishMoves ==
  ASSUME NEW p \in ParserState, NEW lines
  PROVE  LET q == Finish(lines, p)
         IN  /\ q \in ParserState /\ q.line = p.line /\ q.open \subseteq p.open
             /\ q.err # p.err => p.open # {}
             /\ q.err = "none" =>
                  q.open \cup Contents(q.batches)
                    = p.open \cup Contents(p.batches)
  BY FlushMoves DEF Finish

------------------------------------------------------------------------------
(***************************************************************************)
(* The rows before a line, and before the one behind it.                   *)
(***************************************************************************)
LEMMA RowsStepByStep ==
  ASSUME NEW cfg, NEW lines \in Seq(LineKind), NEW n \in Nat, n < Len(lines)
  PROVE  /\ IsFiniteSet(RowsBefore(cfg, lines, n + 1))
         /\ n + 1 \notin RowsBefore(cfg, lines, n + 1)
         /\ RowsBefore(cfg, lines, n + 2) =
              IF Accepts(cfg, lines[n + 1])
              THEN RowsBefore(cfg, lines, n + 1) \cup {n + 1}
              ELSE RowsBefore(cfg, lines, n + 1)
<1>1. IsFiniteSet(RowsBefore(cfg, lines, n + 1))
  <2>1. RowsBefore(cfg, lines, n + 1) \subseteq 1 .. Len(lines)
    BY DEF RowsBefore
  <2>2. IsFiniteSet(1 .. Len(lines))
    BY FS_Interval
  <2> QED
    BY <2>1, <2>2, FS_Subset
<1>2. /\ n + 1 \in 1 .. Len(lines)
      /\ \A j \in 1 .. Len(lines) : j < n + 2 <=> j < n + 1 \/ j = n + 1
  OBVIOUS
<1> QED
  BY <1>1, <1>2 DEF RowsBefore

(***************************************************************************)
(* A line that the loop goes on to is reached in the sense of the limit.   *)
(***************************************************************************)
LEMMA LoopReaches ==
  ASSUME NEW cfg, cfg.limit \in Nat \cup {NoLimit},
         NEW lines \in Seq(LineKind), NEW p \in ParserState,
         Faithful(cfg, lines, p), p.err = "none", More(cfg, lines, p)
  PROVE  /\ p.line + 1 \in Reached(cfg, lines)
         /\ p.line < Len(lines)
         /\ p.line \in Nat
<1>1. p.line \in Nat /\ p.ok \in Nat
  BY DEF ParserState
<1>2. /\ p.line < Len(lines) /\ p.line + 1 \in 1 .. Len(lines)
      /\ cfg.limit = NoLimit \/ ~(p.ok >= cfg.limit)
  BY <1>1 DEF More, AtLimit
<1>3. p.ok = Cardinality(RowsBefore(cfg, lines, p.line + 1))
  BY DEF Faithful
<1>4. cfg.limit # NoLimit => p.ok < cfg.limit
  BY <1>1, <1>2
<1> QED
  BY <1>1, <1>2, <1>3, <1>4 DEF Reached

(***************************************************************************)
(* A line that leaves no row.                                              *)
(***************************************************************************)
LEMMA PassKeepsFaith ==
  ASSUME NEW cfg, NEW lines \in Seq(LineKind),
         NEW p \in ParserState, NEW q \in ParserState,
         Faithful(cfg, lines, p), p.err = "none", p.line < Len(lines),
         ~Accepts(cfg, lines[p.line + 1]),
         q.line = p.line + 1, q.open = p.open, q.ok = p.ok, q.err = "none"
  PROVE  Faithful(cfg, lines, q)
<1>1. p.line \in Nat /\ p.line + 1 + 1 = p.line + 2
  BY DEF ParserState
<1>2. RowsBefore(cfg, lines, p.line + 2) = RowsBefore(cfg, lines, p.line + 1)
  BY <1>1, RowsStepByStep
<1>3. q.ok = Cardinality(RowsBefore(cfg, lines, q.line + 1))
  BY <1>1, <1>2 DEF Faithful
<1>4. q.open \subseteq 1 .. q.line /\ q.line <= Len(lines)
  BY <1>1 DEF Faithful
<1> QED
  BY <1>3, <1>4 DEF Faithful

(***************************************************************************)
(* A line that ends the chunk is its own offence.                          *)
(***************************************************************************)
LEMMA AbortIsOffence ==
  ASSUME NEW cfg, cfg.limit \in Nat \cup {NoLimit},
         NEW lines \in Seq(LineKind), NEW p \in ParserState,
         Faithful(cfg, lines, p), p.err = "none", More(cfg, lines, p),
         Aborts(cfg, lines[p.line + 1])
  PROVE  Faithful(cfg, lines, Abort(lines[p.line + 1], p))
<1> DEFINE q == Abort(lines[p.line + 1], p)
<1>1. /\ p.line \in Nat /\ p.line < Len(lines)
      /\ p.line + 1 \in Offending(cfg, lines)
  BY LoopReaches DEF Offending
<1>2. q.line = p.line + 1 /\ q.open = p.open /\ q.err # "none"
  BY SkipTypes
<1> HIDE DEF q
<1>3. p.line + 1 <= q.line
  BY <1>1, <1>2
<1>4. q.open \subseteq 1 .. q.line /\ q.line <= Len(lines)
  BY <1>1, <1>2 DEF Faithful
<1>5. q.ok = Cardinality(RowsBefore(cfg, lines, q.line + 1))
  <2>1. q.ok = p.ok
    BY DEF q, Abort, ParserState
  <2>2. q.line + 1 = p.line + 2
    BY <1>1, <1>2
  <2>3. ~Accepts(cfg, lines[p.line + 1])
    BY DEF Accepts, Aborts
  <2>4. RowsBefore(cfg, lines, p.line + 2) = RowsBefore(cfg, lines, p.line + 1)
    BY <1>1, <2>3, RowsStepByStep
  <2> QED
    BY <2>1, <2>2, <2>4 DEF Faithful
<1> QED
  BY <1>1, <1>2, <1>3, <1>4, <1>5 DEF Faithful, q

(***************************************************************************)
(* flush fails on a row of the chunk that arrow refuses.                   *)
(***************************************************************************)
LEMMA FlushKeepsFaith ==
  ASSUME NEW cfg, NEW lines \in Seq(LineKind), NEW p \in ParserState,
         Faithful(cfg, lines, p), p.err = "none"
  PROVE  Faithful(cfg, lines, Flush(lines, p))
<1>1. CASE \E row \in p.open : lines[row] = "unfit"
  <2> DEFINE q == Flush(lines, p)
  <2>1. q = [p EXCEPT !.err = "Arrow"]
    BY <1>1 DEF Flush
  <2>2. /\ q.err = "Arrow" /\ q.line = p.line /\ q.open = p.open
        /\ q.ok = p.ok
    BY <2>1 DEF ParserState
  <2>3. PICK row \in p.open : lines[row] = "unfit"
    BY <1>1
  <2>4. row \in Offending(cfg, lines) /\ row \in 1 .. p.line
    BY <2>3 DEF Faithful, OwedRows, Offending
  <2>5. row <= p.line
    BY <2>4
  <2> HIDE DEF q
  <2> QED
    BY <2>2, <2>4, <2>5 DEF Faithful, q
<1>2. CASE ~\E row \in p.open : lines[row] = "unfit"
  <2> DEFINE q == Flush(lines, p)
  <2>1. q = [p EXCEPT !.batches = Append(p.batches, p.open), !.open = {}]
    BY <1>2 DEF Flush
  <2>2. q.err = p.err /\ q.line = p.line /\ q.open = {} /\ q.ok = p.ok
    BY <2>1 DEF ParserState
  <2> HIDE DEF q
  <2> QED
    BY <2>2 DEF Faithful, q
<1> QED
  BY <1>1, <1>2

(***************************************************************************)
(* An accepted line is one more row, owed, in the builders or flushed.     *)
(***************************************************************************)
LEMMA RowKeepsFaith ==
  ASSUME NEW cfg, cfg.limit \in Nat \cup {NoLimit},
         NEW lines \in Seq(LineKind), NEW p \in ParserState,
         Faithful(cfg, lines, p), p.err = "none", More(cfg, lines, p),
         Accepts(cfg, lines[p.line + 1])
  PROVE  Faithful(cfg, lines, AddRow(cfg, lines, p))
<1> DEFINE n == p.line + 1
           r == [p EXCEPT !.line = @ + 1, !.open = @ \cup {p.line + 1},
                          !.ok = @ + 1]
<1>1. /\ p.line \in Nat /\ p.line < Len(lines) /\ n \in OwedRows(cfg, lines)
      /\ p.ok \in Nat
  BY LoopReaches DEF OwedRows, ParserState
<1>2. r \in ParserState
  <2>1. p.ok + 1 \in Nat /\ n \in Nat /\ p.open \cup {n} \in SUBSET Nat
    BY <1>1 DEF ParserState
  <2>2. [p EXCEPT !.line = n] \in ParserState
    BY <2>1, FieldTypes
  <2>3. [[p EXCEPT !.line = n] EXCEPT !.open = p.open \cup {n}] \in ParserState
    BY <2>1, <2>2, FieldTypes
  <2> QED
    BY <2>1, <2>3, FieldTypes
<1>3. r.line = n /\ r.ok = p.ok + 1 /\ r.err = p.err
  BY DEF ParserState
<1>4. r.open = p.open \cup {n}
  BY DEF ParserState
<1>5. AddRow(cfg, lines, p) \in {r, Flush(lines, r)}
  BY DEF AddRow
<1>6. Faithful(cfg, lines, r)
  <2> HIDE DEF r
  <2>1. Cardinality(RowsBefore(cfg, lines, n + 1)) = p.ok + 1
    <3>1. p.ok = Cardinality(RowsBefore(cfg, lines, n))
      BY DEF Faithful
    <3>2. n + 1 = p.line + 2
      BY <1>1
    <3>3. /\ IsFiniteSet(RowsBefore(cfg, lines, n))
          /\ n \notin RowsBefore(cfg, lines, n)
          /\ RowsBefore(cfg, lines, n + 1) = RowsBefore(cfg, lines, n) \cup {n}
      BY <1>1, <3>2, RowsStepByStep
    <3> QED
      BY <3>1, <3>3, FS_AddElement
  <2>2. r.open \subseteq OwedRows(cfg, lines)
    BY <1>1, <1>4 DEF Faithful
  <2>3. r.open \subseteq 1 .. r.line /\ r.line <= Len(lines)
    BY <1>1, <1>3, <1>4 DEF Faithful
  <2> QED
    BY <1>3, <2>1, <2>2, <2>3 DEF Faithful
<1> HIDE DEF r
<1> QED
  BY <1>2, <1>3, <1>5, <1>6, FlushKeepsFaith

(***************************************************************************)
(* flush, case by case.                                                    *)
(***************************************************************************)
LEMMA FlushOutcome ==
  ASSUME NEW p \in ParserState, NEW lines
  PROVE  LET q == Flush(lines, p)
         IN  /\ q \in ParserState
             /\ q.line = p.line /\ q.ok = p.ok /\ q.skip = p.skip
             /\ \/ /\ \E row \in p.open : lines[row] = "unfit"
                   /\ q.err = "Arrow" /\ q.open = p.open
                   /\ q.batches = p.batches
                \/ /\ \A row \in p.open : lines[row] # "unfit"
                   /\ q.err = p.err /\ q.open = {}
                   /\ q.batches = Append(p.batches, p.open)
<1> DEFINE q == Flush(lines, p)
<1>1. q \in ParserState /\ q.line = p.line
  BY FlushMoves
<1>2. CASE \E row \in p.open : lines[row] = "unfit"
  <2>1. q = [p EXCEPT !.err = "Arrow"]
    BY <1>2 DEF Flush
  <2>2. q.err = "Arrow" /\ q.open = p.open /\ q.batches = p.batches
    BY <2>1 DEF ParserState
  <2>3. q.ok = p.ok /\ q.skip = p.skip
    BY <2>1 DEF ParserState
  <2> QED
    BY <1>1, <1>2, <2>2, <2>3
<1>3. CASE ~\E row \in p.open : lines[row] = "unfit"
  <2>1. q = [p EXCEPT !.batches = Append(p.batches, p.open), !.open = {}]
    BY <1>3 DEF Flush
  <2>2. q.err = p.err /\ q.open = {} /\ q.batches = Append(p.batches, p.open)
    BY <2>1 DEF ParserState
  <2>3. q.ok = p.ok /\ q.skip = p.skip
    BY <2>1 DEF ParserState
  <2> QED
    BY <1>1, <1>3, <2>2, <2>3
<1> QED
  BY <1>2, <1>3

(***************************************************************************)
(* An accepted line goes into the builders, which are flushed when full.   *)
(***************************************************************************)
LEMMA AddRowOutcome ==
  ASSUME NEW p \in ParserState, NEW lines, NEW cfg
  PROVE  \E r \in ParserState :
           /\ r.line = p.line + 1 /\ r.ok = p.ok + 1 /\ r.skip = p.skip
           /\ r.err = p.err /\ r.batches = p.batches
           /\ r.open = p.open \cup {p.line + 1}
           /\ AddRow(cfg, lines, p) =
                IF Cardinality(r.open) >= cfg.batch_size
                THEN Flush(lines, r) ELSE r
<1> DEFINE r1 == [p EXCEPT !.line = p.line + 1]
           r2 == [r1 EXCEPT !.open = p.open \cup {p.line + 1}]
           r  == [p EXCEPT !.line = @ + 1, !.open = @ \cup {p.line + 1},
                           !.ok = @ + 1]
<1>1. /\ p.line + 1 \in Nat /\ p.ok + 1 \in Nat
      /\ p.open \cup {p.line + 1} \in SUBSET Nat
  BY DEF ParserState
<1>2. r1 \in ParserState
  BY <1>1, FieldTypes
<1>3. r2 \in ParserState
  BY <1>1, <1>2, FieldTypes
<1>4. r \in ParserState
  BY <1>1, <1>3, FieldTypes
<1>5. /\ r.line = p.line + 1 /\ r.ok = p.ok + 1 /\ r.skip = p.skip
      /\ r.err = p.err
  BY DEF ParserState
<1>6. r.open = p.open \cup {p.line + 1}
  BY DEF ParserState
<1>7. r.batches = p.batches
  BY DEF ParserState
<1>8. AddRow(cfg, lines, p) =
        IF Cardinality(r.open) >= cfg.batch_size THEN Flush(lines, r) ELSE r
  BY DEF AddRow
<1> HIDE DEF r
<1> QED
  BY <1>4, <1>5, <1>6, <1>7, <1>8

(***************************************************************************)
(* The rejects before a line, and before the one behind it.                *)
(***************************************************************************)
LEMMA DeadStepByStep ==
  ASSUME NEW cfg, NEW lines \in Seq(LineKind), NEW n \in Nat, n < Len(lines)
  PROVE  /\ IsFiniteSet(DeadBefore(cfg, lines, n + 1))
         /\ n + 1 \notin DeadBefore(cfg, lines, n + 1)
         /\ DeadBefore(cfg, lines, n + 2) =
              IF Skips(cfg, lines[n + 1])
              THEN DeadBefore(cfg, lines, n + 1) \cup {n + 1}
              ELSE DeadBefore(cfg, lines, n + 1)
<1>1. IsFiniteSet(DeadBefore(cfg, lines, n + 1))
  <2>1. DeadBefore(cfg, lines, n + 1) \subseteq 1 .. Len(lines)
    BY DEF DeadBefore
  <2>2. IsFiniteSet(1 .. Len(lines))
    BY FS_Interval
  <2> QED
    BY <2>1, <2>2, FS_Subset
<1>2. /\ n + 1 \in 1 .. Len(lines)
      /\ \A j \in 1 .. Len(lines) : j < n + 2 <=> j < n + 1 \/ j = n + 1
  OBVIOUS
<1> QED
  BY <1>1, <1>2 DEF DeadBefore

(***************************************************************************)
(* The loop ends where the limit says: the lines it read are the lines     *)
(* with fewer than `limit` rows before them.                               *)
(***************************************************************************)
LEMMA LoopEnds ==
  ASSUME NEW cfg, cfg.limit \in Nat \cup {NoLimit},
         NEW lines \in Seq(LineKind), NEW p \in ParserState,
         Faithful(cfg, lines, p), Exact(cfg, lines, p), p.err = "none",
         ~More(cfg, lines, p)
  PROVE  Reached(cfg, lines) = 1 .. p.line
<1>1. /\ p.line \in Nat /\ p.ok \in Nat /\ Len(lines) \in Nat
      /\ p.line <= Len(lines)
      /\ p.ok = Cardinality(RowsBefore(cfg, lines, p.line + 1))
  BY DEF ParserState, Faithful
<1>2. 1 .. p.line \subseteq Reached(cfg, lines)
  BY DEF Exact
<1>3. CASE p.line = Len(lines)
  BY <1>2, <1>3 DEF Reached
<1>4. CASE p.line # Len(lines)
  <2>1. cfg.limit \in Nat /\ cfg.limit # NoLimit /\ p.ok >= cfg.limit
    BY <1>1, <1>4 DEF More, AtLimit
  <2>2. ASSUME NEW k \in Reached(cfg, lines), ~(k <= p.line)
        PROVE  FALSE
    <3>1. k \in 1 .. Len(lines) /\ k \in Nat
      BY DEF Reached
    <3>2. RowsBefore(cfg, lines, p.line + 1) \subseteq RowsBefore(cfg, lines, k)
      <4>1. \A j \in 1 .. Len(lines) : j < p.line + 1 => j < k
        BY <1>1, <2>2, <3>1
      <4> QED
        BY <4>1 DEF RowsBefore
    <3>3. IsFiniteSet(RowsBefore(cfg, lines, k))
      <4>1. RowsBefore(cfg, lines, k) \subseteq 1 .. Len(lines)
        BY DEF RowsBefore
      <4>2. IsFiniteSet(1 .. Len(lines))
        BY <1>1, FS_Interval
      <4> QED
        BY <4>1, <4>2, FS_Subset
    <3>4. /\ p.ok <= Cardinality(RowsBefore(cfg, lines, k))
          /\ Cardinality(RowsBefore(cfg, lines, k)) \in Nat
      BY <1>1, <3>2, <3>3, FS_Subset, FS_CardinalityType
    <3>5. Cardinality(RowsBefore(cfg, lines, k)) < cfg.limit
      BY <2>1 DEF Reached
    <3> QED
      BY <1>1, <2>1, <3>4, <3>5
  <2>3. Reached(cfg, lines) \subseteq 1 .. Len(lines)
    BY DEF Reached
  <2>4. \A k \in Reached(cfg, lines) : k <= p.line
    BY <2>2
  <2>5. Reached(cfg, lines) \subseteq 1 .. p.line
    BY <1>1, <2>3, <2>4
  <2> QED
    BY <1>2, <2>5
<1> QED
  BY <1>3, <1>4

(***************************************************************************)
(* So the rows and rejects it counted are the ones the chunk is owed, and  *)
(* an offence can only be an unfit row that is still in the builders.      *)
(***************************************************************************)
LEMMA LoopOwes ==
  ASSUME NEW cfg, cfg.limit \in Nat \cup {NoLimit},
         NEW lines \in Seq(LineKind), NEW p \in ParserState,
         Faithful(cfg, lines, p), Exact(cfg, lines, p), p.err = "none",
         ~More(cfg, lines, p)
  PROVE  /\ RowsBefore(cfg, lines, p.line + 1) = OwedRows(cfg, lines)
         /\ DeadBefore(cfg, lines, p.line + 1) = OwedDead(cfg, lines)
         /\ Offending(cfg, lines) \subseteq p.open
<1>1. /\ p.line \in Nat /\ Len(lines) \in Nat /\ p.line <= Len(lines)
  BY DEF ParserState, Faithful
<1>2. Reached(cfg, lines) = 1 .. p.line
  BY LoopEnds
<1>3. \A j : j \in 1 .. p.line <=> j \in 1 .. Len(lines) /\ j < p.line + 1
  BY <1>1
<1>4. RowsBefore(cfg, lines, p.line + 1) = OwedRows(cfg, lines)
  BY <1>2, <1>3 DEF RowsBefore, OwedRows
<1>5. DeadBefore(cfg, lines, p.line + 1) = OwedDead(cfg, lines)
  BY <1>2, <1>3 DEF DeadBefore, OwedDead
<1>6. Offending(cfg, lines) \subseteq p.open
  BY <1>2 DEF Offending, Exact
<1> QED
  BY <1>4, <1>5, <1>6

(***************************************************************************)
(* A blank or skipped line leaves the account exact.                       *)
(***************************************************************************)
LEMMA PassKeepsExact ==
  ASSUME NEW cfg, cfg.limit \in Nat \cup {NoLimit},
         NEW lines \in Seq(LineKind),
         NEW p \in ParserState, NEW q \in ParserState,
         Faithful(cfg, lines, p), Exact(cfg, lines, p), p.err = "none",
         More(cfg, lines, p),
         ~Accepts(cfg, lines[p.line + 1]), ~Aborts(cfg, lines[p.line + 1]),
         q.line = p.line + 1, q.open = p.open, q.err = "none",
         q.skip = IF Skips(cfg, lines[p.line + 1]) THEN p.skip + 1 ELSE p.skip
  PROVE  Exact(cfg, lines, q)
<1>1. /\ p.line + 1 \in Reached(cfg, lines)
      /\ p.line < Len(lines) /\ p.line \in Nat
  BY LoopReaches
<1>2. \A k \in 1 .. q.line : k \in 1 .. p.line \/ k = p.line + 1
  BY <1>1
<1>3. lines[p.line + 1] # "unfit"
  BY DEF Accepts
<1>4. /\ 1 .. q.line \subseteq Reached(cfg, lines)
      /\ \A k \in 1 .. q.line : ~Aborts(cfg, lines[k])
      /\ \A k \in 1 .. q.line : lines[k] = "unfit" => k \in q.open
  BY <1>1, <1>2, <1>3 DEF Exact
<1>5. q.skip = Cardinality(DeadBefore(cfg, lines, q.line + 1))
  <2>1. p.skip = Cardinality(DeadBefore(cfg, lines, p.line + 1))
    BY DEF Exact
  <2>2. q.line + 1 = p.line + 2
    BY <1>1
  <2> DEFINE D == DeadBefore(cfg, lines, p.line + 1)
  <2>3. /\ IsFiniteSet(D) /\ p.line + 1 \notin D
        /\ DeadBefore(cfg, lines, p.line + 2) =
              IF Skips(cfg, lines[p.line + 1]) THEN D \cup {p.line + 1} ELSE D
    BY <1>1, DeadStepByStep
  <2> HIDE DEF D
  <2>4. Cardinality(D \cup {p.line + 1}) = Cardinality(D) + 1
    BY <2>3, FS_AddElement
  <2>5. p.skip = Cardinality(D)
    BY <2>1 DEF D
  <2> QED
    BY <2>2, <2>3, <2>4, <2>5
<1> QED
  BY <1>4, <1>5 DEF Exact

(***************************************************************************)
(* So does a flush: what it moves on, arrow has taken.                     *)
(***************************************************************************)
LEMMA FlushKeepsExact ==
  ASSUME NEW cfg, NEW lines, NEW p \in ParserState, Exact(cfg, lines, p),
         p.err = "none"
  PROVE  Exact(cfg, lines, Flush(lines, p))
<1> DEFINE q == Flush(lines, p)
<1>1. /\ q.line = p.line /\ q.skip = p.skip
      /\ \/ q.err = "Arrow"
         \/ q.err = "none" /\ \A row \in p.open : lines[row] # "unfit"
  BY FlushOutcome
<1> HIDE DEF q
<1> QED
  BY <1>1 DEF Exact, q

(***************************************************************************)
(* And an accepted line.                                                   *)
(***************************************************************************)
LEMMA RowKeepsExact ==
  ASSUME NEW cfg, cfg.limit \in Nat \cup {NoLimit},
         NEW lines \in Seq(LineKind), NEW p \in ParserState,
         Faithful(cfg, lines, p), Exact(cfg, lines, p), p.err = "none",
         More(cfg, lines, p), Accepts(cfg, lines[p.line + 1])
  PROVE  Exact(cfg, lines, AddRow(cfg, lines, p))
<1>1. /\ p.line + 1 \in Reached(cfg, lines)
      /\ p.line < Len(lines) /\ p.line \in Nat
  BY LoopReaches
<1>2. PICK r \in ParserState :
        /\ r.line = p.line + 1 /\ r.skip = p.skip /\ r.err = "none"
        /\ r.open = p.open \cup {p.line + 1}
        /\ AddRow(cfg, lines, p) \in {r, Flush(lines, r)}
  BY AddRowOutcome
<1>3. \A k \in 1 .. r.line : k \in 1 .. p.line \/ k = p.line + 1
  BY <1>1, <1>2
<1>4. /\ ~Skips(cfg, lines[p.line + 1])
      /\ ~Aborts(cfg, lines[p.line + 1])
  BY DEF Accepts, Skips, Aborts
<1>5. /\ 1 .. r.line \subseteq Reached(cfg, lines)
      /\ \A k \in 1 .. r.line : ~Aborts(cfg, lines[k])
      /\ \A k \in 1 .. r.line : lines[k] = "unfit" => k \in r.open
  BY <1>1, <1>2, <1>3, <1>4 DEF Exact
<1>6. r.skip = Cardinality(DeadBefore(cfg, lines, r.line + 1))
  <2>1. p.skip = Cardinality(DeadBefore(cfg, lines, p.line + 1))
    BY DEF Exact
  <2>2. r.line + 1 = p.line + 2
    BY <1>1, <1>2
  <2>3. DeadBefore(cfg, lines, p.line + 2) = DeadBefore(cfg, lines, p.line + 1)
    BY <1>1, <1>4, DeadStepByStep
  <2> QED
    BY <1>2, <2>1, <2>2, <2>3
<1>7. Exact(cfg, lines, r)
  BY <1>2, <1>5, <1>6 DEF Exact
<1> QED
  BY <1>2, <1>7, FlushKeepsExact

------------------------------------------------------------------------------
(***************************************************************************)
(* An aborting line is the first of its kind.                              *)
(***************************************************************************)
LEMMA AbortKeepsExact ==
  ASSUME NEW cfg, cfg.limit \in Nat \cup {NoLimit},
         NEW lines \in Seq(LineKind), NEW p \in ParserState,
         Faithful(cfg, lines, p), Exact(cfg, lines, p), p.err = "none",
         More(cfg, lines, p), Aborts(cfg, lines[p.line + 1])
  PROVE  Exact(cfg, lines, Abort(lines[p.line + 1], p))
<1> DEFINE q == Abort(lines[p.line + 1], p)
<1>1. /\ p.line + 1 \in Reached(cfg, lines)
      /\ p.line < Len(lines) /\ p.line \in Nat
  BY LoopReaches
<1>2. q.line = p.line + 1 /\ q.err # "none"
  BY SkipTypes
<1>3. \A k \in 1 .. q.line : k \in 1 .. p.line \/ k = p.line + 1
  BY <1>1, <1>2
<1> HIDE DEF q
<1>4. 1 .. q.line \subseteq Reached(cfg, lines)
  BY <1>1, <1>3 DEF Exact
<1>5. /\ q.line >= 1 /\ Aborts(cfg, lines[q.line])
      /\ \A k \in 1 .. q.line - 1 : ~Aborts(cfg, lines[k])
  BY <1>1, <1>2 DEF Exact
<1> QED
  BY <1>2, <1>4, <1>5 DEF Exact, q

(***************************************************************************)
(* Before the first line nothing is known and nothing is wrong.            *)
(***************************************************************************)
LEMMA NewParserKnows ==
  ASSUME NEW cfg, NEW lines \in Seq(LineKind)
  PROVE  /\ Faithful(cfg, lines, NewParser)
         /\ Exact(cfg, lines, NewParser)
         /\ Sorted(cfg, lines, NewParser)
         /\ RowsBefore(cfg, lines, 1) = {}
         /\ DeadBefore(cfg, lines, 1) = {}
<1> DEFINE p == NewParser
<1>1. /\ p.line = 0 /\ p.open = {} /\ p.ok = 0 /\ p.skip = 0
      /\ p.err = "none" /\ p.batches = <<>>
  BY DEF NewParser
<1>2. p.line + 1 = 1 /\ 1 .. p.line = {} /\ p.line <= Len(lines)
  BY <1>1
<1>3. RowsBefore(cfg, lines, 1) = {} /\ DeadBefore(cfg, lines, 1) = {}
  BY DEF RowsBefore, DeadBefore
<1>4. Cardinality({}) = 0
  BY FS_EmptySet
<1>5. p.ok = Cardinality(RowsBefore(cfg, lines, p.line + 1))
  BY <1>1, <1>2, <1>3, <1>4
<1>6. p.skip = Cardinality(DeadBefore(cfg, lines, p.line + 1))
  BY <1>1, <1>2, <1>3, <1>4
<1> HIDE DEF p
<1>7. Faithful(cfg, lines, p)
  BY <1>1, <1>2, <1>5 DEF Faithful
<1>8. Exact(cfg, lines, p)
  BY <1>1, <1>2, <1>6 DEF Exact
<1>9. Sorted(cfg, lines, p)
  BY <1>1 DEF Sorted, Contents
<1> QED
  BY <1>3, <1>7, <1>8, <1>9 DEF p

(***************************************************************************)
(* Rows before a line are before the next one too, and are line numbers.   *)
(***************************************************************************)
LEMMA RowsGrow ==
  ASSUME NEW cfg, NEW lines, NEW n \in Nat
  PROVE  /\ RowsBefore(cfg, lines, n + 1) \subseteq RowsBefore(cfg, lines, n + 2)
         /\ \A k \in RowsBefore(cfg, lines, n + 1) : k \in Nat /\ k < n + 1
<1>1. \A j \in 1 .. Len(lines) : j \in Nat /\ (j < n + 1 => j < n + 2)
  OBVIOUS
<1> QED
  BY <1>1 DEF RowsBefore

(***************************************************************************)
(* A line that makes no row keeps the rows in order.                       *)
(***************************************************************************)
LEMMA PassKeepsSorted ==
  ASSUME NEW cfg, NEW lines, NEW p \in ParserState, NEW q,
         Sorted(cfg, lines, p),
         q.line = p.line + 1, q.open = p.open, q.batches = p.batches
  PROVE  Sorted(cfg, lines, q)
<1>1. p.line \in Nat /\ q.line + 1 = p.line + 2
  BY DEF ParserState
<1>2. RowsBefore(cfg, lines, p.line + 1) \subseteq RowsBefore(cfg, lines, q.line + 1)
  BY <1>1, RowsGrow
<1> QED
  BY <1>2 DEF Sorted

(***************************************************************************)
(* So does a flush: the open rows come after the batches.                  *)
(***************************************************************************)
LEMMA FlushKeepsSorted ==
  ASSUME NEW cfg, NEW lines, NEW p \in ParserState, Sorted(cfg, lines, p)
  PROVE  Sorted(cfg, lines, Flush(lines, p))
<1> DEFINE q == Flush(lines, p)
           b == p.batches
<1>1. b \in Seq(SUBSET Nat) /\ p.open \in SUBSET Nat
  BY DEF ParserState
<1>2. /\ q.line = p.line
      /\ \/ q.open = p.open /\ q.batches = b
         \/ q.open = {} /\ q.batches = Append(b, p.open)
  BY FlushOutcome
<1>3. CASE q.open = p.open /\ q.batches = b
  <2> HIDE DEF q
  <2> QED
    BY <1>2, <1>3 DEF Sorted, q
<1>4. CASE q.open = {} /\ q.batches = Append(b, p.open)
  <2> HIDE DEF q
  <2>1. Contents(q.batches) = Contents(b) \cup p.open
    BY <1>1, <1>4, ContentsAppend
  <2>2. /\ DOMAIN q.batches = 1 .. Len(b) + 1 /\ DOMAIN b = 1 .. Len(b)
        /\ \A i \in 1 .. Len(b) : q.batches[i] = b[i]
        /\ q.batches[Len(b) + 1] = p.open /\ Len(b) \in Nat
    BY <1>1, <1>4
  <2>3. ASSUME NEW i \in DOMAIN q.batches, NEW j \in DOMAIN q.batches, i < j,
               NEW x \in q.batches[i], NEW y \in q.batches[j]
        PROVE  x < y
    <3>1. i \in DOMAIN b /\ q.batches[i] = b[i]
      BY <2>2, <2>3
    <3>2. CASE j = Len(b) + 1
      BY <2>2, <2>3, <3>1, <3>2 DEF Sorted, Contents
    <3>3. CASE j # Len(b) + 1
      <4>1. j \in DOMAIN b /\ q.batches[j] = b[j]
        BY <2>2, <2>3, <3>3
      <4> QED
        BY <2>3, <3>1, <4>1 DEF Sorted
    <3> QED
      BY <3>2, <3>3
  <2> QED
    BY <1>2, <1>4, <2>1, <2>3 DEF Sorted, q
<1> QED
  BY <1>2, <1>3, <1>4

(***************************************************************************)
(* A new row comes after all others.                                       *)
(***************************************************************************)
LEMMA RowKeepsSorted ==
  ASSUME NEW cfg, NEW lines \in Seq(LineKind), NEW p \in ParserState,
         Sorted(cfg, lines, p), p.line < Len(lines),
         Accepts(cfg, lines[p.line + 1])
  PROVE  Sorted(cfg, lines, AddRow(cfg, lines, p))
<1>1. PICK r \in ParserState :
        /\ r.line = p.line + 1 /\ r.batches = p.batches
        /\ r.open = p.open \cup {p.line + 1}
        /\ AddRow(cfg, lines, p) \in {r, Flush(lines, r)}
  BY AddRowOutcome
<1>2. p.line \in Nat /\ r.line + 1 = p.line + 2
  BY <1>1 DEF ParserState
<1>3. RowsBefore(cfg, lines, r.line + 1)
        = RowsBefore(cfg, lines, p.line + 1) \cup {p.line + 1}
  BY <1>2, RowsStepByStep
<1>4. \A a \in Contents(p.batches) : a < p.line + 1
  BY <1>2, RowsGrow DEF Sorted
<1>5. Sorted(cfg, lines, r)
  BY <1>1, <1>3, <1>4 DEF Sorted
<1> QED
  BY <1>1, <1>5, FlushKeepsSorted

------------------------------------------------------------------------------
(***************************************************************************)
(* A blank or rejected line keeps what the parser knows.                   *)
(***************************************************************************)
LEMMA PassKnows ==
  ASSUME NEW cfg, cfg.limit \in Nat \cup {NoLimit},
         NEW lines \in Seq(LineKind),
         NEW p \in ParserState, NEW q \in ParserState,
         Knows(cfg, lines, p), p.err = "none", More(cfg, lines, p),
         \/ lines[p.line + 1] = "blank" /\ q = PassBlank(p)
         \/ Skips(cfg, lines[p.line + 1]) /\ q = SkipLine(p)
  PROVE  /\ Knows(cfg, lines, q) /\ q.ok = p.ok
         /\ q.skip \in {p.skip, p.skip + 1}
         /\ ~Accepts(cfg, lines[p.line + 1])
<1> DEFINE kind == lines[p.line + 1]
<1>1. /\ q.line = p.line + 1 /\ q.open = p.open /\ q.err = "none"
      /\ q.batches = p.batches
  <2>1. q = PassBlank(p) \/ q = SkipLine(p)
    OBVIOUS
  <2>2. PassBlank(p).err = p.err /\ SkipLine(p).err = p.err
    BY SkipTypes, Zenon
  <2>3. /\ PassBlank(p).line = p.line + 1 /\ PassBlank(p).open = p.open
        /\ PassBlank(p).batches = p.batches
    BY SkipTypes, Zenon
  <2>4. /\ SkipLine(p).line = p.line + 1 /\ SkipLine(p).open = p.open
        /\ SkipLine(p).batches = p.batches
    BY SkipTypes, Zenon
  <2> QED
    BY <2>1, <2>2, <2>3, <2>4, Zenon
<1>2. PassBlank(p).ok = p.ok /\ PassBlank(p).skip = p.skip
  BY DEF PassBlank, ParserState
<1>3. SkipLine(p).ok = p.ok /\ SkipLine(p).skip = p.skip + 1
  BY DEF SkipLine, ParserState
<1>4. q.ok = p.ok /\ q.skip = IF Skips(cfg, kind) THEN p.skip + 1 ELSE p.skip
  BY <1>2, <1>3 DEF Skips
<1>5. ~Accepts(cfg, kind) /\ ~Aborts(cfg, kind)
  BY DEF Accepts, Aborts, Skips
<1>6. p.line < Len(lines)
  BY LoopReaches DEF Knows
<1>7. Faithful(cfg, lines, q)
  BY <1>1, <1>4, <1>5, <1>6, PassKeepsFaith DEF Knows
<1>8. Exact(cfg, lines, q)
  BY <1>1, <1>4, <1>5, PassKeepsExact DEF Knows
<1>9. Sorted(cfg, lines, q)
  BY <1>1, PassKeepsSorted DEF Knows
<1> QED
  BY <1>4, <1>5, <1>7, <1>8, <1>9 DEF Knows

(***************************************************************************)
(* So does a line that becomes a row, flush included.                      *)
(***************************************************************************)
LEMMA RowKnows ==
  ASSUME NEW cfg, cfg.limit \in Nat \cup {NoLimit},
         NEW lines \in Seq(LineKind), NEW p \in ParserState,
         Knows(cfg, lines, p), p.err = "none", More(cfg, lines, p),
         Accepts(cfg, lines[p.line + 1])
  PROVE  Knows(cfg, lines, AddRow(cfg, lines, p))
<1>1. p.line < Len(lines)
  BY LoopReaches DEF Knows
<1> QED
  BY <1>1, RowKeepsFaith, RowKeepsExact, RowKeepsSorted DEF Knows

(***************************************************************************)
(* So does a line that ends the chunk with an error.                       *)
(***************************************************************************)
LEMMA AbortKnows ==
  ASSUME NEW cfg, cfg.limit \in Nat \cup {NoLimit},
         NEW lines \in Seq(LineKind), NEW p \in ParserState,
         Knows(cfg, lines, p), p.err = "none", More(cfg, lines, p),
         Aborts(cfg, lines[p.line + 1])
  PROVE  Knows(cfg, lines, Abort(lines[p.line + 1], p))
<1>1. Sorted(cfg, lines, Abort(lines[p.line + 1], p))
  <2> DEFINE q == Abort(lines[p.line + 1], p)
  <2>1. q.line = p.line + 1 /\ q.open = p.open /\ q.batches = p.batches
    BY SkipTypes
  <2> HIDE DEF q
  <2>2. Sorted(cfg, lines, q)
    BY <2>1, PassKeepsSorted DEF Knows
  <2> QED
    BY <2>2 DEF q
<1> QED
  BY <1>1, AbortIsOffence, AbortKeepsExact DEF Knows

(***************************************************************************)
(* So does the last flush.                                                 *)
(***************************************************************************)
LEMMA FinishKnows ==
  ASSUME NEW cfg, NEW lines \in Seq(LineKind), NEW p \in ParserState,
         Knows(cfg, lines, p), p.err = "none"
  PROVE  Knows(cfg, lines, Finish(lines, p))
  BY FlushKeepsFaith, FlushKeepsExact, FlushKeepsSorted DEF Finish, Knows

(***************************************************************************)
(* And so does handing over the first batch.                               *)
(***************************************************************************)
LEMMA DropKnows ==
  ASSUME NEW cfg, NEW lines, NEW p \in ParserState, Knows(cfg, lines, p),
         p.batches # <<>>
  PROVE  Knows(cfg, lines, [p EXCEPT !.batches = Tail(@)])
<1> DEFINE b == p.batches
           q == [p EXCEPT !.batches = Tail(@)]
<1>1. b \in Seq(SUBSET Nat)
  BY DEF ParserState
<1>2. /\ q.line = p.line /\ q.open = p.open /\ q.ok = p.ok /\ q.skip = p.skip
      /\ q.err = p.err
  BY DEF ParserState
<1>3. q.batches = Tail(b)
  BY DEF ParserState
<1>4. \A i \in DOMAIN Tail(b) : i + 1 \in DOMAIN b /\ Tail(b)[i] = b[i + 1]
  BY <1>1
<1>5. \A i, j \in DOMAIN Tail(b) : i < j => i + 1 < j + 1
  BY <1>1
<1>6. Contents(b) = Head(b) \cup Contents(Tail(b))
  BY <1>1, ContentsHeadTail
<1> HIDE DEF q
<1>7. Sorted(cfg, lines, q)
  BY <1>2, <1>3, <1>4, <1>5, <1>6 DEF Knows, Sorted
<1>8. Faithful(cfg, lines, q) /\ Exact(cfg, lines, q)
  BY <1>2 DEF Knows, Faithful, Exact
<1> QED
  BY <1>7, <1>8 DEF Knows, q
==============================================================================
