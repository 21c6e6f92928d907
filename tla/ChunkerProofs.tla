---------------------------- MODULE ChunkerProofs ----------------------------
(***************************************************************************)
(* Proofs about Chunker, for every input and every chunk size of a usize.  *)
(* Inv is the inductive invariant: the chunks tile the part of the file    *)
(* that is cut so far and each of them ends behind a newline or at the end *)
(* of the file.                                                            *)
(***************************************************************************)
EXTENDS Chunker, SequenceTheorems, FiniteSetTheorems, TLAPS

\* How far the chunks reach; LastChunk breaks out without moving start.
Covered == IF pc = "done" THEN Len(data) ELSE start

Tiled ==
  /\ \A i \in 1 .. Len(chunks) :
       /\ chunks[i].lo = BoundaryBefore(i)
       /\ chunks[i].lo < chunks[i].hi
       /\ chunks[i].hi <= Len(data)
  /\ BoundaryBefore(Len(chunks) + 1) = Covered

Covers ==
  \A o \in 0 .. Len(data) - 1 :
    o < Covered => \E i \in 1 .. Len(chunks) :
                     chunks[i].lo <= o /\ o < chunks[i].hi

CutAtNewlines ==
  \A i \in 1 .. Len(chunks) :
    chunks[i].hi = Len(data) \/ LineFeed(chunks[i].hi - 1)

\* What keeps start + window inside usize after the first cut.
WindowFits ==
  /\ start > 0 => window < Len(data)
  /\ pc = "snap" => start < pos /\ window < Len(data)

Inv == TypeOK /\ Tiled /\ Covers /\ CutAtNewlines /\ WindowFits

------------------------------------------------------------------------------
(***************************************************************************)
(* A sum that fits is its own remainder: fixed_chunks adds without wrap.   *)
(***************************************************************************)
LEMMA SmallMod ==
  ASSUME NEW x \in Nat, NEW m \in Nat, x <= m
  PROVE  x % (m + 1) = x
  OBVIOUS

(***************************************************************************)
(* The input of a call is a byte string at most half as long as usize.     *)
(***************************************************************************)
LEMMA DataFacts ==
  ASSUME TypeOK
  PROVE  /\ data \in Seq(Byte) /\ Len(data) \in Nat
         /\ 2 * Len(data) <= UsizeMax /\ UsizeMax \in Nat
         /\ window \in Nat /\ window >= 1 /\ window <= UsizeMax
         /\ start \in Nat /\ start <= Len(data)
         /\ pos \in Nat /\ pos <= Len(data)
  BY ChunkerAssumption DEF TypeOK

(***************************************************************************)
(* Pushing [start, end) keeps the chunks tiled, covering and cut.          *)
(***************************************************************************)
LEMMA PushKeepsTiling ==
  ASSUME TypeOK, Tiled, Covers, CutAtNewlines, pc # "done",
         NEW end \in Nat, start < end, end <= Len(data),
         end = Len(data) \/ LineFeed(end - 1),
         chunks' = Append(chunks, Slice(start, end)),
         data' = data, Covered' = end
  PROVE  /\ chunks' \in Seq([lo : Nat, hi : Nat])
         /\ Tiled' /\ Covers' /\ CutAtNewlines'
<1> DEFINE n == Len(chunks)
<1>1. /\ start \in Nat /\ chunks \in Seq([lo : Nat, hi : Nat])
      /\ n \in Nat /\ Len(data) \in Nat
  BY DataFacts DEF TypeOK
<1>2. Slice(start, end) \in [lo : Nat, hi : Nat]
  BY <1>1 DEF Slice
<1>3. chunks' \in Seq([lo : Nat, hi : Nat]) /\ Len(chunks') = n + 1
  BY <1>1, <1>2
<1>4. \A i \in 1 .. n : chunks'[i] = chunks[i]
  BY <1>1, <1>2
<1>5. chunks'[n + 1].lo = start /\ chunks'[n + 1].hi = end
  BY <1>1, <1>2 DEF Slice
<1>6. BoundaryBefore(n + 1) = start
  BY DEF Tiled, Covered
<1>7. \A i \in 1 .. n + 1 : BoundaryBefore(i)' = BoundaryBefore(i)
  BY <1>1, <1>4 DEF BoundaryBefore
<1>8. Tiled'
  <2>1. \A i \in 1 .. n + 1 : /\ chunks'[i].lo = BoundaryBefore(i)'
                              /\ chunks'[i].lo < chunks'[i].hi
                              /\ chunks'[i].hi <= Len(data)
    BY <1>1, <1>4, <1>5, <1>6, <1>7 DEF Tiled
  <2>2. BoundaryBefore(Len(chunks) + 1)' = end
    <3>1. Len(chunks') + 1 - 1 = n + 1 /\ Len(chunks') + 1 # 1
      BY <1>1, <1>3
    <3> QED
      BY <1>5, <3>1 DEF BoundaryBefore
  <2> QED
    BY <1>3, <2>1, <2>2 DEF Tiled
<1>9. Covers'
  <2> SUFFICES ASSUME NEW o \in 0 .. Len(data) - 1, o < end
               PROVE  \E i \in 1 .. n + 1 :
                        chunks'[i].lo <= o /\ o < chunks'[i].hi
    BY <1>3 DEF Covers
  <2>1. CASE o < start
    <3>1. PICK i \in 1 .. n : chunks[i].lo <= o /\ o < chunks[i].hi
      BY <2>1 DEF Covers, Covered
    <3> QED
      BY <1>1, <1>4, <3>1
  <2>2. CASE start <= o
    BY <1>1, <1>5, <2>2
  <2> QED
    BY <1>1, <2>1, <2>2
<1>10. CutAtNewlines'
  <2>1. \A i \in 1 .. n + 1 :
          chunks'[i].hi = Len(data) \/ LineFeed(chunks'[i].hi - 1)
    BY <1>1, <1>4, <1>5 DEF CutAtNewlines
  <2> QED
    BY <1>3, <2>1 DEF CutAtNewlines, LineFeed
<1> QED
  BY <1>3, <1>8, <1>9, <1>10

------------------------------------------------------------------------------
(***************************************************************************)
(* fixed_chunks starts with nothing cut.                                   *)
(***************************************************************************)
LEMMA InitInv == Init => Inv
<1> SUFFICES ASSUME Init PROVE Inv
  OBVIOUS
<1>1. data \in Seq(Byte) /\ Len(data) \in Nat
  BY ChunkerAssumption DEF Init
<1>2. window \in 1 .. UsizeMax
  BY ChunkerAssumption DEF Init, Window
<1>3. TypeOK
  BY <1>1, <1>2 DEF Init, TypeOK
<1> QED
  BY <1>1, <1>3
  DEF Init, Inv, Tiled, Covers, Covered, CutAtNewlines, WindowFits,
      BoundaryBefore

(***************************************************************************)
(* At every cut the sum is exact, so the window's end lies ahead of start. *)
(***************************************************************************)
LEMMA SumExact ==
  ASSUME Inv, pc = "cut", start < Len(data)
  PROVE  /\ start + window <= UsizeMax
         /\ Sum = start + window
<1>1. start + window <= UsizeMax
  BY DataFacts DEF Inv, WindowFits
<1> QED
  BY <1>1, SmallMod, DataFacts DEF Inv, Sum

(***************************************************************************)
(* An iteration that snaps pushes a chunk and returns to the while.        *)
(***************************************************************************)
LEMMA PushInv ==
  ASSUME Inv, pc = "snap", NEW end \in Nat, PushChunk(end), start < end,
         end <= Len(data), end = Len(data) \/ LineFeed(end - 1)
  PROVE  Inv'
<1>1. Covered' = end
  BY DEF PushChunk, Covered
<1>2. /\ chunks' \in Seq([lo : Nat, hi : Nat])
      /\ Tiled' /\ Covers' /\ CutAtNewlines'
  BY <1>1, PushKeepsTiling DEF Inv, PushChunk
<1>3. TypeOK' /\ WindowFits'
  BY <1>2, DataFacts DEF Inv, PushChunk, TypeOK, WindowFits
<1> QED
  BY <1>2, <1>3 DEF Inv

(***************************************************************************)
(* Every step of fixed_chunks keeps the invariant.                         *)
(***************************************************************************)
LEMMA NextInv == Inv /\ [Next]_vars => Inv'
<1> SUFFICES ASSUME Inv, [Next]_vars PROVE Inv'
  OBVIOUS
<1> USE DEF Inv
<1>0. /\ data \in Seq(Byte) /\ Len(data) \in Nat /\ start \in Nat
      /\ pos \in Nat /\ window \in Nat /\ window >= 1
      /\ start <= Len(data) /\ pos <= Len(data)
  BY DataFacts
<1>1. CASE LastChunk
  <2>1. Covered' = Len(data)
    BY <1>1 DEF LastChunk, Covered
  <2>2. /\ chunks' \in Seq([lo : Nat, hi : Nat])
        /\ Tiled' /\ Covers' /\ CutAtNewlines'
    BY <1>0, <1>1, <2>1, PushKeepsTiling DEF LastChunk
  <2> QED
    BY <1>1, <2>2 DEF LastChunk, TypeOK, WindowFits
<1>2. CASE BeginSnap
  <2>1. Sum = start + window /\ Sum < Len(data)
    BY <1>0, <1>2, SumExact DEF BeginSnap, Tentative
  <2>2. pos' = start + window
    BY <2>1, <1>2 DEF BeginSnap, Tentative
  <2>3. TypeOK' /\ WindowFits'
    BY <1>0, <1>2, <2>1, <2>2 DEF BeginSnap, TypeOK, WindowFits
  <2> QED
    BY <1>2, <2>3
    DEF BeginSnap, Tiled, Covers, Covered, CutAtNewlines, BoundaryBefore,
        LineFeed
<1>3. CASE Scan
  <2>1. TypeOK' /\ WindowFits'
    BY <1>0, <1>3 DEF Scan, TypeOK, WindowFits
  <2> QED
    BY <1>3, <2>1
    DEF Scan, Tiled, Covers, Covered, CutAtNewlines, BoundaryBefore, LineFeed
<1>4. CASE SnapAtNewline
  <2>1. /\ pos + 1 \in Nat /\ start < pos + 1 /\ pos + 1 <= Len(data)
        /\ pos + 1 - 1 = pos /\ pos + 1 - 1 + 1 = pos + 1
    BY <1>0, <1>4 DEF SnapAtNewline, WindowFits
  <2>2. LineFeed(pos + 1 - 1)
    <3>1. data[pos + 1] = "NL"
      BY <1>4 DEF SnapAtNewline
    <3>2. LineFeed(pos)
      BY <3>1 DEF LineFeed
    <3> QED
      BY <2>1, <3>2
  <2> QED
    <3>1. PushChunk(pos + 1) /\ pc = "snap"
      BY <1>4 DEF SnapAtNewline
    <3> HIDE DEF Inv
    <3> QED
      BY <1>0, <2>1, <2>2, <3>1, PushInv
<1>5. CASE SnapAtEnd
  <2>1. start < Len(data)
    BY <1>0, <1>5 DEF SnapAtEnd, WindowFits
  <2> QED
    <3>1. PushChunk(Len(data)) /\ pc = "snap"
      BY <1>5 DEF SnapAtEnd
    <3> HIDE DEF Inv
    <3> QED
      BY <1>0, <2>1, <3>1, PushInv
<1>6. CASE Finish
  <2>1. Covered' = Covered
    BY <1>0, <1>6 DEF Finish, Covered
  <2> QED
    BY <1>6, <2>1
    DEF Finish, TypeOK, WindowFits, Tiled, Covers, CutAtNewlines,
        BoundaryBefore, LineFeed
<1>7. CASE UNCHANGED vars
  BY <1>7
  DEF vars, TypeOK, WindowFits, Tiled, Covers, Covered, CutAtNewlines,
      BoundaryBefore, LineFeed
<1> QED
  BY <1>1, <1>2, <1>3, <1>4, <1>5, <1>6, <1>7 DEF Next

(***************************************************************************)
(* The chunks are tiled, covering and cut at newlines in every state.      *)
(***************************************************************************)
THEOREM Invariance == Spec => []Inv
  BY InitInv, NextInv, PTL DEF Spec

------------------------------------------------------------------------------
(***************************************************************************)
(* Every variable of fixed_chunks keeps its type.                          *)
(***************************************************************************)
THEOREM TypeCorrect == Spec => []TypeOK
  BY Invariance, PTL DEF Inv

(***************************************************************************)
(* start + window of fixed_chunks never leaves usize.                      *)
(***************************************************************************)
THEOREM NoWrap == Spec => []SumNeverWraps
<1>1. Inv => SumNeverWraps
  BY SumExact DEF SumNeverWraps
<1> QED
  BY <1>1, Invariance, PTL

(***************************************************************************)
(* fixed_chunks drops and repeats no byte.                                 *)
(***************************************************************************)
THEOREM NoByteLost == Spec => []Lossless
<1>1. Inv => Lossless
  BY DEF Inv, Tiled, Covered, Lossless
<1> QED
  BY <1>1, Invariance, PTL

(***************************************************************************)
(* What parse_chunk finds between newlines in the slices is exactly what   *)
(* the file has between newlines.                                          *)
(***************************************************************************)
LEMMA IntactFromInv == Inv => RecordsIntact
<1> SUFFICES ASSUME Inv, pc = "done",
                    NEW from \in 0 .. Len(data), NEW to \in 0 .. Len(data)
             PROVE  IsRun(from, to, 0, Len(data)) <=>
                      \E i \in 1 .. Len(chunks) :
                        IsRun(from, to, chunks[i].lo, chunks[i].hi)
  BY DEF RecordsIntact
<1>typed. chunks \in Seq([lo : Nat, hi : Nat])
  BY DEF Inv, TypeOK
<1>1. Len(data) \in Nat /\ Len(chunks) \in Nat
  BY <1>typed, DataFacts DEF Inv
<1>2. \A i \in 1 .. Len(chunks) :
        /\ chunks[i].lo \in Nat /\ chunks[i].hi \in Nat
        /\ chunks[i].lo < chunks[i].hi /\ chunks[i].hi <= Len(data)
  <2>1. \A i \in 1 .. Len(chunks) : chunks[i] \in [lo : Nat, hi : Nat]
    BY <1>typed, ElementOfSeq
  <2> QED
    BY <2>1 DEF Inv, Tiled
<1>cut. \A i \in 1 .. Len(chunks) :
        chunks[i].hi = Len(data) \/ LineFeed(chunks[i].hi - 1)
  BY DEF Inv, CutAtNewlines
<1>3. \A i \in 1 .. Len(chunks) :
        chunks[i].lo = 0 \/ LineFeed(chunks[i].lo - 1)
  <2> SUFFICES ASSUME NEW i \in 1 .. Len(chunks)
               PROVE  chunks[i].lo = 0 \/ LineFeed(chunks[i].lo - 1)
    OBVIOUS
  <2>1. chunks[i].lo = BoundaryBefore(i)
    BY DEF Inv, Tiled
  <2>2. CASE i = 1
    BY <2>1, <2>2 DEF BoundaryBefore
  <2>3. CASE i # 1
    <3>1. i - 1 \in 1 .. Len(chunks) /\ chunks[i].lo = chunks[i - 1].hi
      BY <1>1, <2>1, <2>3 DEF BoundaryBefore
    <3>2. chunks[i].lo < Len(data)
      BY <1>1, <1>2
    <3> QED
      BY <1>1, <1>2, <1>cut, <3>1, <3>2
  <2> QED
    BY <2>2, <2>3
<1>4. ASSUME IsRun(from, to, 0, Len(data))
      PROVE  \E i \in 1 .. Len(chunks) :
               IsRun(from, to, chunks[i].lo, chunks[i].hi)
  <2>1. from < to /\ from \in 0 .. Len(data) - 1 /\ from < Covered
    BY <1>1, <1>4 DEF IsRun, Covered
  <2>2. PICK i \in 1 .. Len(chunks) : chunks[i].lo <= from /\ from < chunks[i].hi
    BY <2>1 DEF Inv, Covers
  <2>3. to <= chunks[i].hi
    <3> SUFFICES ASSUME chunks[i].hi < to PROVE FALSE
      BY <1>1, <1>2
    <3>1. /\ chunks[i].hi # Len(data)
          /\ chunks[i].hi - 1 \in from .. to - 1
      BY <1>1, <1>2, <2>2
    <3>2. LineFeed(chunks[i].hi - 1)
      BY <1>cut, <3>1
    <3> QED
      BY <1>4, <3>1, <3>2 DEF IsRun
  <2>4. from = chunks[i].lo \/ LineFeed(from - 1)
    BY <1>1, <1>2, <1>4, <2>2 DEF IsRun
  <2>5. to = chunks[i].hi \/ LineFeed(to)
    BY <1>1, <1>2, <1>4, <2>3 DEF IsRun
  <2> QED
    BY <1>4, <2>1, <2>2, <2>3, <2>4, <2>5 DEF IsRun
<1>5. ASSUME NEW i \in 1 .. Len(chunks),
             IsRun(from, to, chunks[i].lo, chunks[i].hi)
      PROVE  IsRun(from, to, 0, Len(data))
  <2>1. from = 0 \/ LineFeed(from - 1)
    BY <1>3, <1>5 DEF IsRun
  <2>2. to = Len(data) \/ LineFeed(to)
    <3>1. to - 1 \in from .. to - 1
      BY <1>1, <1>5 DEF IsRun
    <3> QED
      BY <1>cut, <1>5, <3>1 DEF IsRun
  <2> QED
    BY <1>1, <1>2, <1>5, <2>1, <2>2 DEF IsRun
<1> QED
  BY <1>4, <1>5

(***************************************************************************)
(* No record of the input is split between two workers, or lost.           *)
(***************************************************************************)
THEOREM NoRecordSplit == Spec => []RecordsIntact
  BY IntactFromInv, Invariance, PTL
------------------------------------------------------------------------------
\* At most so many steps are left, by the bytes not cut or scanned yet.
StepsLeft ==
  IF pc = "cut" THEN 2 * (Len(data) - start) + 1
  ELSE IF pc = "snap" THEN 2 * (Len(data) - pos) + 2
  ELSE 0

(***************************************************************************)
(* fixed_chunks cannot loop: every step, of the while or of the scan for a *)
(* newline, brings it nearer to its return, by a number that starts at     *)
(* 2 * Len(data) + 1.  It is what Termination needs besides fairness, and  *)
(* what chunk_size.max(1) and i += 1 see to.                               *)
(***************************************************************************)
THEOREM AlwaysNearer ==
  Spec => [](StepsLeft \in Nat) /\ [][StepsLeft' < StepsLeft]_vars
<1>1. Inv => StepsLeft \in Nat
  <2> SUFFICES ASSUME Inv PROVE StepsLeft \in Nat
    OBVIOUS
  <2>1. /\ Len(data) - start \in Nat
        /\ Len(data) - pos \in Nat
    BY DataFacts DEF Inv
  <2>2. /\ 2 * (Len(data) - start) + 1 \in Nat
        /\ 2 * (Len(data) - pos) + 2 \in Nat
    BY <2>1
  <2> QED
    BY <2>2, Zenon DEF StepsLeft
<1>2. Inv /\ [Next]_vars => [StepsLeft' < StepsLeft]_vars
  <2> SUFFICES ASSUME Inv, Next PROVE StepsLeft' < StepsLeft
    BY DEF vars
  <2>1. /\ Len(data) \in Nat /\ start \in Nat /\ pos \in Nat
        /\ start <= Len(data) /\ pos <= Len(data)
        /\ window \in Nat /\ window >= 1
    BY DataFacts DEF Inv
  <2>2. CASE LastChunk
    BY <2>1, <2>2 DEF LastChunk, StepsLeft
  <2>3. CASE BeginSnap
    <3>1. pos' = start + window /\ start + window < Len(data)
      BY <2>1, <2>3, SumExact DEF BeginSnap, Tentative
    <3> QED
      BY <2>1, <2>3, <3>1 DEF BeginSnap, StepsLeft
  <2>4. CASE Scan
    BY <2>1, <2>4 DEF Scan, StepsLeft
  <2>5. CASE SnapAtNewline
    BY <2>1, <2>5 DEF SnapAtNewline, PushChunk, StepsLeft
  <2>6. CASE SnapAtEnd
    BY <2>1, <2>6 DEF SnapAtEnd, PushChunk, StepsLeft
  <2>7. CASE Finish
    BY <2>1, <2>7 DEF Finish, StepsLeft
  <2> QED
    BY <2>2, <2>3, <2>4, <2>5, <2>6, <2>7 DEF Next
<1> QED
  BY <1>1, <1>2, Invariance, PTL DEF Spec

------------------------------------------------------------------------------
(***************************************************************************)
(* A non-empty set of numbers has a least one.                             *)
(***************************************************************************)
LEMMA LeastNumber ==
  ASSUME NEW S \in SUBSET Nat, S # {}
  PROVE  \E m \in S : \A k \in S : m <= k
<1> DEFINE R == OpToRel(<, Nat)
<1>1. IsWellFoundedOn(R, Nat)
  BY NatLessThanWellFounded
<1>2. \A i, j \in Nat : i < j => <<i, j>> \in R
  BY DEF OpToRel
<1> HIDE DEF R
<1>3. PICK m \in S : \A k \in S : ~ (<<k, m>> \in R)
  BY <1>1, WFMin
<1>4. \A k \in S : ~ (k < m)
  BY <1>2, <1>3
<1> QED
  BY <1>4

(***************************************************************************)
(* The sum of a list of numbers is whatever is 0 for no index and grows by *)
(* g[x] with index x, in whatever order the indices are taken: total is    *)
(* such a function of the sets of indices.                                 *)
(***************************************************************************)
LEMMA SumIsTotal ==
  ASSUME NEW n \in Nat, NEW g \in [1 .. n -> Nat],
         NEW total \in [SUBSET (1 .. n) -> Nat], total[{}] = 0,
         \A s \in SUBSET (1 .. n) :
           \A x \in s : total[s] = g[x] + total[s \ {x}]
  PROVE  SumFunction(g) = total[1 .. n]
<1> DEFINE D == 1 .. n
           C(s) == CHOOSE x \in s : TRUE
           Def(i) == [s \in SUBSET D |->
                        IF s = {} THEN 0 ELSE g[C(s)] + i[s \ {C(s)}]]
           iter == CHOOSE i : i = Def(i)
<1>1. SumFunction(g) = iter[D]
  BY DEF SumFunction, SumFunctionOnSet, FoldFunctionOnSet, MapThenFoldSet
<1>2. \A s \in SUBSET D : s # {} => C(s) \in s
  OBVIOUS
<1>3. total = Def(total)
  <2> HIDE DEF C
  <2>1. \A s \in SUBSET D :
          total[s] = IF s = {} THEN 0 ELSE g[C(s)] + total[s \ {C(s)}]
    BY <1>2
  <2> QED
    BY <2>1
<1>4. \E i : i = Def(i)
  BY <1>3
<1>5. iter = Def(iter)
  <2> HIDE DEF Def
  <2> QED
    BY <1>4
<1> HIDE DEF iter, C
<1>6. \A s \in SUBSET D : iter[s] = total[s]
  <2> DEFINE B == {s \in SUBSET D : iter[s] # total[s]}
  <2> SUFFICES ASSUME B # {} PROVE FALSE
    OBVIOUS
  <2>1. IsWellFoundedOn(StrictSubsetOrdering(D), SUBSET D)
    <3>1. 1 \in Int /\ n \in Int
      OBVIOUS
    <3>2. IsFiniteSet(1 .. n)
      BY <3>1, FS_Interval, Zenon
    <3>3. FiniteSubsetsOf(D) = SUBSET D
      BY <3>2, FS_FiniteSubsetsOfFinite
    <3>4. IsWellFoundedOn(StrictSubsetOrdering(D), FiniteSubsetsOf(D))
      BY FS_StrictSubsetOrderingWellFounded
    <3> QED
      BY <3>3, <3>4
  <2>2. PICK s \in B : \A r \in B : ~ (<<r, s>> \in StrictSubsetOrdering(D))
    <3>1. B \subseteq SUBSET D
      OBVIOUS
    <3> HIDE DEF B, D
    <3> QED
      BY <2>1, <3>1, WFMin, Zenon
  <2>3. CASE s = {}
    BY <1>5, <2>3
  <2>4. CASE s # {}
    <3> DEFINE r == s \ {C(s)}
    <3>1. r \in SUBSET D /\ r \subseteq s /\ r # s
      BY <1>2, <2>4
    <3>2. <<r, s>> \in StrictSubsetOrdering(D)
      BY <3>1 DEF StrictSubsetOrdering
    <3>3. iter[r] = total[r]
      BY <2>2, <3>1, <3>2
    <3>4. iter[s] = g[C(s)] + iter[r]
      BY <1>5, <2>4
    <3>5. total[s] = g[C(s)] + total[r]
      BY <1>2, <2>4
    <3> QED
      BY <3>3, <3>4, <3>5
  <2> QED
    BY <2>3, <2>4
<1> QED
  BY <1>1, <1>6

\* The newlines of the bytes from lo up to hi, by their positions in bytes.
Newlines(bytes, lo, hi) == {p \in lo + 1 .. hi : bytes[p] = "NL"}

(***************************************************************************)
(* A slice of the file has the newlines the file has there.                *)
(***************************************************************************)
LEMMA CountSlice ==
  ASSUME NEW bytes \in Seq(Byte), NEW lo \in Nat, NEW hi \in Nat,
         lo <= hi, hi <= Len(bytes)
  PROVE  /\ IsFiniteSet(Newlines(bytes, lo, hi))
         /\ Cardinality(Newlines(bytes, lo, hi)) \in Nat
         /\ count_lines(SubSeq(bytes, lo + 1, hi)) =
              Cardinality(Newlines(bytes, lo, hi))
<1> DEFINE slice == SubSeq(bytes, lo + 1, hi)
           S == {i \in DOMAIN slice : slice[i] = "NL"}
           T == Newlines(bytes, lo, hi)
           f == [i \in S |-> i + lo]
<1>1. /\ DOMAIN slice = 1 .. hi - lo
      /\ \A i \in 1 .. hi - lo : slice[i] = bytes[i + lo]
  BY SubSeqProperties
<1>2. IsFiniteSet(S)
  <2>1. 1 \in Int /\ hi - lo \in Int
    OBVIOUS
  <2>2. IsFiniteSet(1 .. hi - lo)
    BY <2>1, FS_Interval, Zenon
  <2>3. S \in SUBSET (1 .. hi - lo)
    BY <1>1
  <2> QED
    BY <2>2, <2>3, FS_Subset
<1>3. f \in Bijection(S, T)
  <2>1. f \in [S -> T]
    BY <1>1 DEF Newlines
  <2>2. \A i, j \in S : f[i] = f[j] => i = j
    BY <1>1
  <2>3. \A p \in T : \E i \in S : f[i] = p
    <3> SUFFICES ASSUME NEW p \in T PROVE \E i \in S : f[i] = p
      OBVIOUS
    <3>1. p - lo \in 1 .. hi - lo /\ p - lo + lo = p /\ bytes[p] = "NL"
      BY DEF Newlines
    <3>2. p - lo \in S
      BY <1>1, <3>1
    <3> QED
      BY <3>1, <3>2
  <2> HIDE DEF f, S, T
  <2> QED
    BY <2>1, <2>2, <2>3 DEF Bijection, Injection, Surjection, IsInjective
<1>4. ExistsBijection(S, T)
  BY <1>3 DEF ExistsBijection
<1>5. count_lines(slice) = Cardinality(S)
  BY DEF count_lines
<1> HIDE DEF S, T
<1>6. IsFiniteSet(T) /\ Cardinality(T) = Cardinality(S)
  BY <1>2, <1>4, FS_Bijection
<1>7. Cardinality(T) \in Nat
  BY <1>6, FS_CardinalityType
<1> QED
  BY <1>5, <1>6, <1>7 DEF T

(***************************************************************************)
(* The newlines of the whole file are what count_lines finds in it.        *)
(***************************************************************************)
LEMMA CountFile ==
  ASSUME NEW bytes \in Seq(Byte)
  PROVE  count_lines(bytes) = Cardinality(Newlines(bytes, 0, Len(bytes)))
<1>1. DOMAIN bytes = 0 + 1 .. Len(bytes)
  OBVIOUS
<1> QED
  BY <1>1 DEF count_lines, Newlines

(***************************************************************************)
(* offset_after_n_lines stops at the newline that makes the count: the     *)
(* head of as many lines as end at a newline ends there.                   *)
(***************************************************************************)
LEMMA HeadEndsThere ==
  ASSUME NEW bytes \in Seq(Byte), NEW end \in 1 .. Len(bytes),
         bytes[end] = "NL"
  PROVE  offset_after_n_lines(bytes, Cardinality(Newlines(bytes, 0, end)))
           = end
<1> DEFINE n == Cardinality(Newlines(bytes, 0, end))
           P(o) == /\ o = Len(bytes) \/ Reaches(bytes, n, o)
                   /\ \A i \in 1 .. o - 1 : ~Reaches(bytes, n, i)
<1>1. \A o \in 1 .. Len(bytes) :
        /\ IsFiniteSet(Newlines(bytes, 0, o))
        /\ Cardinality(Newlines(bytes, 0, o)) \in Nat
        /\ count_lines(SubSeq(bytes, 1, o)) = Cardinality(Newlines(bytes, 0, o))
  <2> SUFFICES ASSUME NEW o \in 1 .. Len(bytes)
               PROVE  /\ IsFiniteSet(Newlines(bytes, 0, o))
                      /\ Cardinality(Newlines(bytes, 0, o)) \in Nat
                      /\ count_lines(SubSeq(bytes, 1, o)) =
                           Cardinality(Newlines(bytes, 0, o))
    OBVIOUS
  <2>1. 0 \in Nat /\ o \in Nat /\ 0 <= o /\ o <= Len(bytes) /\ 0 + 1 = 1
    OBVIOUS
  <2>2. /\ IsFiniteSet(Newlines(bytes, 0, o))
        /\ Cardinality(Newlines(bytes, 0, o)) \in Nat
        /\ count_lines(SubSeq(bytes, 0 + 1, o)) =
             Cardinality(Newlines(bytes, 0, o))
    BY <2>1, CountSlice, Zenon
  <2> QED
    BY <2>1, <2>2
<1>2. Reaches(bytes, n, end)
  BY <1>1 DEF Reaches
<1>3. \A i \in 1 .. end - 1 : ~Reaches(bytes, n, i)
  <2> SUFFICES ASSUME NEW i \in 1 .. end - 1 PROVE ~Reaches(bytes, n, i)
    OBVIOUS
  <2>1. i \in 1 .. Len(bytes) /\ end \in 1 .. Len(bytes)
    OBVIOUS
  <2>2. Newlines(bytes, 0, i) \in SUBSET Newlines(bytes, 0, end)
    BY DEF Newlines
  <2>3. Newlines(bytes, 0, i) # Newlines(bytes, 0, end)
    <3>1. end \in Newlines(bytes, 0, end) /\ end \notin Newlines(bytes, 0, i)
      BY DEF Newlines
    <3> QED
      BY <3>1
  <2>4. /\ Cardinality(Newlines(bytes, 0, i)) <= n
        /\ n # Cardinality(Newlines(bytes, 0, i))
    BY <1>1, <2>1, <2>2, <2>3, FS_Subset
  <2> QED
    BY <1>1, <2>1, <2>4 DEF Reaches
<1>4. P(end)
  BY <1>2, <1>3
<1>5. \A o \in 1 .. Len(bytes) \cup {Len(bytes)} : P(o) => o = end
  <2> SUFFICES ASSUME NEW o \in 1 .. Len(bytes) \cup {Len(bytes)}, P(o)
               PROVE  o = end
    OBVIOUS
  <2>1. CASE o < end
    BY <1>3, <2>1
  <2>2. CASE end < o
    BY <1>2, <2>2
  <2> QED
    BY <2>1, <2>2
<1>6. offset_after_n_lines(bytes, n) =
        CHOOSE o \in 1 .. Len(bytes) \cup {Len(bytes)} : P(o)
  BY DEF offset_after_n_lines
<1> HIDE DEF P, n
<1> QED
  BY <1>4, <1>5, <1>6 DEF n
------------------------------------------------------------------------------
\* The newlines of chunk j, and those of the chunks of a set of indices.
ChunkNewlines(j) == Newlines(data, chunks[j].lo, chunks[j].hi)
NewlinesOf(s) == {p \in 1 .. Len(data) : \E j \in s : p \in ChunkNewlines(j)}

(***************************************************************************)
(* What the proof below needs of the chunks when fixed_chunks has          *)
(* returned, from the invariant: they lie in the file, one behind another. *)
(***************************************************************************)
LEMMA ChunksInOrder ==
  ASSUME Inv
  PROVE  /\ data \in Seq(Byte) /\ Len(data) \in Nat /\ Len(chunks) \in Nat
         /\ \A i \in 1 .. Len(chunks) :
              /\ chunks[i].lo \in Nat /\ chunks[i].hi \in Nat
              /\ chunks[i].lo < chunks[i].hi /\ chunks[i].hi <= Len(data)
         /\ \A i, j \in 1 .. Len(chunks) :
              i < j => chunks[i].hi <= chunks[j].lo
<1>1. chunks \in Seq([lo : Nat, hi : Nat])
  BY DEF Inv, TypeOK
<1>2. data \in Seq(Byte) /\ Len(data) \in Nat /\ Len(chunks) \in Nat
  BY <1>1, DataFacts DEF Inv
<1>3. \A i \in 1 .. Len(chunks) :
        /\ chunks[i].lo \in Nat /\ chunks[i].hi \in Nat
        /\ chunks[i].lo < chunks[i].hi /\ chunks[i].hi <= Len(data)
  <2>1. \A i \in 1 .. Len(chunks) : chunks[i] \in [lo : Nat, hi : Nat]
    BY <1>1, ElementOfSeq
  <2> QED
    BY <2>1 DEF Inv, Tiled
<1>4. \A i, j \in 1 .. Len(chunks) : i < j => chunks[i].hi <= chunks[j].lo
  <2> SUFFICES ASSUME NEW i \in 1 .. Len(chunks)
               PROVE  \A j \in 1 .. Len(chunks) :
                        i < j => chunks[i].hi <= chunks[j].lo
    OBVIOUS
  <2> DEFINE B == {j \in 1 .. Len(chunks) :
                     i < j /\ ~(chunks[i].hi <= chunks[j].lo)}
  <2> SUFFICES ASSUME B # {} PROVE FALSE
    OBVIOUS
  <2>1. PICK j \in B : \A k \in B : j <= k
    <3>1. B \in SUBSET Nat
      BY <1>2
    <3> HIDE DEF B
    <3> QED
      BY <3>1, LeastNumber
  <2>2. chunks[j].lo = chunks[j - 1].hi
    BY <1>2 DEF Inv, Tiled, BoundaryBefore
  <2>3. j - 1 \in 1 .. Len(chunks) /\ j - 1 \notin B /\ i <= j - 1
    BY <1>2, <2>1
  <2>4. CASE i = j - 1
    BY <1>3, <2>2, <2>4
  <2>5. CASE i < j - 1
    <3>1. chunks[i].hi <= chunks[j - 1].lo
      BY <2>3, <2>5
    <3> QED
      BY <1>3, <2>2, <2>3, <3>1
  <2> QED
    BY <1>2, <2>3, <2>4, <2>5
<1> QED
  BY <1>2, <1>3, <1>4

(***************************************************************************)
(* Counted slice by slice, the lines through chunk i are the newlines of   *)
(* the file up to where the chunk ends.                                    *)
(***************************************************************************)
LEMMA LinesAddUp ==
  ASSUME Inv, NEW m \in 0 .. Len(chunks)
  PROVE  LinesThrough(m) = Cardinality(NewlinesOf(1 .. m))
<1> DEFINE g == [j \in 1 .. m |->
                   count_lines(SubSeq(data, chunks[j].lo + 1, chunks[j].hi))]
           total == [s \in SUBSET (1 .. m) |-> Cardinality(NewlinesOf(s))]
<1>0. m \in Nat
  BY ChunksInOrder
<1>1. \A j \in 1 .. m :
        /\ IsFiniteSet(ChunkNewlines(j))
        /\ Cardinality(ChunkNewlines(j)) \in Nat
        /\ g[j] = Cardinality(ChunkNewlines(j))
  <2> SUFFICES ASSUME NEW j \in 1 .. m
               PROVE  /\ IsFiniteSet(ChunkNewlines(j))
                      /\ Cardinality(ChunkNewlines(j)) \in Nat
                      /\ g[j] = Cardinality(ChunkNewlines(j))
    OBVIOUS
  <2>1. /\ data \in Seq(Byte) /\ chunks[j].lo \in Nat /\ chunks[j].hi \in Nat
        /\ chunks[j].lo <= chunks[j].hi /\ chunks[j].hi <= Len(data)
    BY ChunksInOrder
  <2> QED
    BY <2>1, CountSlice DEF ChunkNewlines
<1>2. g \in [1 .. m -> Nat]
  BY <1>1
<1>3. \A s : IsFiniteSet(NewlinesOf(s)) /\ Cardinality(NewlinesOf(s)) \in Nat
  <2> TAKE s
  <2>1. 1 \in Int /\ Len(data) \in Int
    BY ChunksInOrder
  <2>2. IsFiniteSet(1 .. Len(data))
    BY <2>1, FS_Interval, Zenon
  <2>3. NewlinesOf(s) \in SUBSET (1 .. Len(data))
    BY DEF NewlinesOf
  <2>4. IsFiniteSet(NewlinesOf(s))
    BY <2>2, <2>3, FS_Subset
  <2> QED
    BY <2>4, FS_CardinalityType
<1>4. total \in [SUBSET (1 .. m) -> Nat]
  BY <1>3
<1>5. total[{}] = 0
  <2>1. NewlinesOf({}) = {}
    BY DEF NewlinesOf
  <2> QED
    BY <2>1, FS_EmptySet
<1>6. \A s \in SUBSET (1 .. m) : \A x \in s : total[s] = g[x] + total[s \ {x}]
  <2> SUFFICES ASSUME NEW s \in SUBSET (1 .. m), NEW x \in s
               PROVE  total[s] = g[x] + total[s \ {x}]
    OBVIOUS
  <2> DEFINE U == NewlinesOf(s \ {x})
             V == ChunkNewlines(x)
  <2>1. x \in 1 .. Len(chunks) /\ s \subseteq 1 .. Len(chunks)
    BY ChunksInOrder
  <2>2. V \subseteq 1 .. Len(data)
    BY <2>1, ChunksInOrder DEF ChunkNewlines, Newlines
  <2>3. NewlinesOf(s) = V \cup U
    BY <2>2 DEF NewlinesOf
  <2>4. V \cap U = {}
    <3> SUFFICES ASSUME NEW p \in V, p \in U PROVE FALSE
      OBVIOUS
    <3>1. PICK j \in s \ {x} : p \in ChunkNewlines(j)
      BY DEF NewlinesOf
    <3>2. /\ chunks[x].lo < p /\ p <= chunks[x].hi
          /\ chunks[j].lo < p /\ p <= chunks[j].hi /\ p \in Int
      BY <2>1, <3>1, ChunksInOrder DEF ChunkNewlines, Newlines
    <3>3. x < j \/ j < x
      BY <2>1
    <3>4. CASE x < j
      BY <2>1, <3>2, <3>4, ChunksInOrder
    <3>5. CASE j < x
      BY <2>1, <3>2, <3>5, ChunksInOrder
    <3> QED
      BY <3>3, <3>4, <3>5
  <2> HIDE DEF U, V
  <2>5. IsFiniteSet(U) /\ IsFiniteSet(V)
        /\ Cardinality(U) \in Nat /\ Cardinality(V) \in Nat
    BY <1>1, <1>3 DEF U, V
  <2>6. Cardinality(V \cup U) = Cardinality(V) + Cardinality(U)
    <3>1. Cardinality(V \cap U) = 0
      BY <2>4, FS_EmptySet
    <3>2. Cardinality(V \cup U) =
            Cardinality(V) + Cardinality(U) - Cardinality(V \cap U)
      BY <2>5, FS_Union, Zenon
    <3> QED
      BY <2>5, <3>1, <3>2
  <2>7. total[s] = Cardinality(V \cup U) /\ total[s \ {x}] = Cardinality(U)
    BY <2>3 DEF U
  <2>8. g[x] = Cardinality(V)
    BY <1>1 DEF V
  <2> QED
    BY <2>6, <2>7, <2>8
<1>7. total[1 .. m] = Cardinality(NewlinesOf(1 .. m))
  OBVIOUS
<1>8. LinesThrough(m) = SumFunction(g)
  BY DEF LinesThrough
<1> HIDE DEF g, total
<1> QED
  BY <1>0, <1>2, <1>4, <1>5, <1>6, <1>7, <1>8, SumIsTotal

(***************************************************************************)
(* The first m chunks hold the newlines of the file up to where they end.  *)
(***************************************************************************)
LEMMA NewlinesThrough ==
  ASSUME Inv, pc = "done", NEW m \in 1 .. Len(chunks)
  PROVE  NewlinesOf(1 .. m) = Newlines(data, 0, chunks[m].hi)
<1> USE ChunksInOrder
<1>1. ASSUME NEW p \in NewlinesOf(1 .. m)
      PROVE  p \in Newlines(data, 0, chunks[m].hi)
  <2>1. PICK j \in 1 .. m : p \in ChunkNewlines(j)
    BY DEF NewlinesOf
  <2>2. p \in 1 .. chunks[j].hi /\ data[p] = "NL"
    BY <2>1 DEF ChunkNewlines, Newlines
  <2>3. chunks[j].hi <= chunks[m].hi
    <3>1. CASE j = m
      BY <3>1
    <3>2. CASE j < m
      BY <3>2
    <3> QED
      BY <3>1, <3>2
  <2> QED
    BY <2>2, <2>3 DEF Newlines
<1>2. ASSUME NEW p \in Newlines(data, 0, chunks[m].hi)
      PROVE  p \in NewlinesOf(1 .. m)
  <2>1. p \in 1 .. chunks[m].hi /\ data[p] = "NL" /\ p \in 1 .. Len(data)
    BY <1>2 DEF Newlines
  <2>2. p - 1 \in 0 .. Len(data) - 1 /\ p - 1 < Covered
    BY <2>1 DEF Covered
  <2>3. PICK j \in 1 .. Len(chunks) :
          chunks[j].lo <= p - 1 /\ p - 1 < chunks[j].hi
    BY <2>2 DEF Inv, Covers
  <2>4. p \in ChunkNewlines(j)
    BY <2>1, <2>3 DEF ChunkNewlines, Newlines
  <2>5. j <= m
    <3> SUFFICES ASSUME m < j PROVE FALSE
      OBVIOUS
    <3>1. chunks[m].hi <= chunks[j].lo
      OBVIOUS
    <3> QED
      BY <2>1, <2>3, <3>1
  <2> QED
    BY <2>1, <2>4, <2>5 DEF NewlinesOf
<1> QED
  BY <1>1, <1>2

(***************************************************************************)
(* A file that is cut has the newlines of its chunks, and each chunk that  *)
(* ends in one ends where the head of as many lines does.                  *)
(***************************************************************************)
LEMMA HeadsFromInv == Inv => HeadsAreSlices
<1> SUFFICES ASSUME Inv, pc = "done" PROVE HeadsAreSlices
  BY DEF HeadsAreSlices
<1> USE ChunksInOrder
<1>1. LinesThrough(Len(chunks)) = count_lines(data)
  <2>1. LinesThrough(Len(chunks)) = Cardinality(NewlinesOf(1 .. Len(chunks)))
    BY LinesAddUp
  <2>2. NewlinesOf(1 .. Len(chunks)) = Newlines(data, 0, Len(data))
    <3>1. BoundaryBefore(Len(chunks) + 1) = Len(data)
      BY DEF Inv, Tiled, Covered
    <3>2. CASE Len(chunks) = 0
      <4>1. Len(data) = 0
        BY <3>1, <3>2 DEF BoundaryBefore
      <4> QED
        BY <4>1 DEF NewlinesOf, Newlines
    <3>3. CASE Len(chunks) # 0
      <4>1. Len(chunks) \in 1 .. Len(chunks)
        BY <3>3
      <4>2. chunks[Len(chunks)].hi = Len(data)
        <5>1. Len(chunks) + 1 # 1 /\ Len(chunks) + 1 - 1 = Len(chunks)
          BY <3>3
        <5> QED
          BY <3>1, <5>1 DEF BoundaryBefore
      <4> QED
        BY <4>1, <4>2, NewlinesThrough
    <3> QED
      BY <3>2, <3>3
  <2> QED
    BY <2>1, <2>2, CountFile
<1>2. ASSUME NEW i \in 1 .. Len(chunks), LineFeed(chunks[i].hi - 1)
      PROVE  offset_after_n_lines(data, LinesThrough(i)) = chunks[i].hi
  <2>1. /\ chunks[i].hi \in 1 .. Len(data)
        /\ chunks[i].hi - 1 + 1 = chunks[i].hi /\ i \in 0 .. Len(chunks)
    OBVIOUS
  <2>2. data[chunks[i].hi] = "NL"
    BY <1>2, <2>1 DEF LineFeed
  <2>3. LinesThrough(i) = Cardinality(Newlines(data, 0, chunks[i].hi))
    BY <2>1, LinesAddUp, NewlinesThrough
  <2> QED
    BY <2>1, <2>2, <2>3, HeadEndsThere
<1> QED
  BY <1>1, <1>2 DEF HeadsAreSlices

(***************************************************************************)
(* fixed_chunks, count_lines and offset_after_n_lines agree on where a     *)
(* record ends, for every input and every chunk size.                      *)
(***************************************************************************)
THEOREM ScannersAgree == Spec => []HeadsAreSlices
  BY HeadsFromInv, Invariance, PTL
==============================================================================
