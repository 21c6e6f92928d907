------------------------------- MODULE Chunker -------------------------------
(***************************************************************************)
(* parq-chunk: fixed_chunks partitions the mapped input into windows of    *)
(* chunk_size bytes and moves the end of every window forward to the byte  *)
(* after the next newline (snap_to_newline).  The workers parse the slices *)
(* independently, so no record may straddle two of them.                   *)
(*                                                                         *)
(* A byte is "NL" or "text": the partitioner tells nothing else apart.     *)
(* Offsets are the code's, from 0; the byte at offset i is data[i + 1].    *)
(***************************************************************************)
EXTENDS Integers, Sequences, FiniteSets, Functions

CONSTANTS
  Inputs,      \* the byte strings the input file may hold
  ChunkSizes,  \* values of chunk_size; None is its default, one more number
  UsizeMax     \* the largest usize

Byte == {"NL", "text"}

(***************************************************************************)
(* A Rust slice holds at most isize::MAX bytes, half the range of usize.   *)
(***************************************************************************)
ASSUME ChunkerAssumption ==
  /\ UsizeMax \in Nat \ {0}
  /\ Inputs \subseteq Seq(Byte)
  /\ \A d \in Inputs : 2 * Len(d) <= UsizeMax
  /\ ChunkSizes \subseteq 0 .. UsizeMax

VARIABLES
  data,    \* the mapped file
  window,  \* bytes per window
  start,   \* offset at which the next chunk begins
  pos,     \* scan offset of snap_to_newline
  chunks,  \* the slices returned, as [lo, hi) offset pairs
  pc       \* "cut": at the while; "snap": in snap_to_newline; "done"

vars == <<data, window, start, pos, chunks, pc>>

Window(chunk_size) == IF chunk_size < 1 THEN 1 ELSE chunk_size

\* start + window wraps in a release build; SumNeverWraps shows it does not.
Sum == (start + window) % (UsizeMax + 1)

Tentative == IF Sum < Len(data) THEN Sum ELSE Len(data)

Slice(lo, hi) == [lo |-> lo, hi |-> hi]

------------------------------------------------------------------------------
(* The other two scanners of the crate, over any slice.                    *)

count_lines(bytes) == Cardinality({i \in DOMAIN bytes : bytes[i] = "NL"})

\* Mutant of Reaches: the head stops one newline late.
ReachesPast(bytes, n, i) ==
  bytes[i] = "NL" /\ count_lines(SubSeq(bytes, 1, i)) > n

\* The test at byte i; for n = 0 the first newline passes it, as for n = 1.
Reaches(bytes, n, i) ==
  bytes[i] = "NL" /\ count_lines(SubSeq(bytes, 1, i)) >= n

offset_after_n_lines(bytes, n) ==
  CHOOSE o \in 1 .. Len(bytes) \cup {Len(bytes)} :
    /\ o = Len(bytes) \/ Reaches(bytes, n, o)
    /\ \A i \in 1 .. o - 1 : ~Reaches(bytes, n, i)

------------------------------------------------------------------------------
\* Mutant of Init: a byte-order mark is cut off by starting at offset 3.
InitPastBom ==
  /\ data \in Inputs
  /\ \E chunk_size \in ChunkSizes : window = Window(chunk_size)
  /\ start = IF Len(data) > 3 THEN 3 ELSE 0
  /\ pos = 0
  /\ chunks = <<>>
  /\ pc = "cut"

Init ==
  /\ data \in Inputs
  /\ \E chunk_size \in ChunkSizes : window = Window(chunk_size)
  /\ start = 0
  /\ pos = 0
  /\ chunks = <<>>
  /\ pc = "cut"

\* The window reaches the end of the data: the rest is the last chunk.
LastChunk ==
  /\ pc = "cut"
  /\ start < Len(data)
  /\ Tentative = Len(data)
  /\ chunks' = Append(chunks, Slice(start, Len(data)))
  /\ pc' = "done"
  /\ UNCHANGED <<data, window, start, pos>>

\* Mutant of BeginSnap: the window's end is taken as the chunk's end.
BeginSnapForgotten ==
  /\ pc = "cut"
  /\ start < Len(data)
  /\ Tentative # Len(data)
  /\ chunks' = Append(chunks, Slice(start, Tentative))
  /\ start' = Tentative
  /\ UNCHANGED <<data, window, pos, pc>>

BeginSnap ==
  /\ pc = "cut"
  /\ start < Len(data)
  /\ Tentative # Len(data)
  /\ pos' = Tentative
  /\ pc' = "snap"
  /\ UNCHANGED <<data, window, start, chunks>>

\* Mutant of Scan: i += 1 is missing.
ScanInPlace ==
  /\ pc = "snap"
  /\ pos < Len(data)
  /\ data[pos + 1] # "NL"
  /\ UNCHANGED vars

Scan ==
  /\ pc = "snap"
  /\ pos < Len(data)
  /\ data[pos + 1] # "NL"
  /\ pos' = pos + 1
  /\ UNCHANGED <<data, window, start, chunks, pc>>

\* fixed_chunks pushes data[start..end] and continues from end.
PushChunk(end) ==
  /\ chunks' = Append(chunks, Slice(start, end))
  /\ start' = end
  /\ pc' = "cut"
  /\ UNCHANGED <<data, window, pos>>

\* Mutant of SnapAtNewline: the chunk ends before the newline, the next
\* one begins after it.
SnapDropsNewline ==
  /\ pc = "snap"
  /\ pos < Len(data)
  /\ data[pos + 1] = "NL"
  /\ chunks' = Append(chunks, Slice(start, pos))
  /\ start' = pos + 1
  /\ pc' = "cut"
  /\ UNCHANGED <<data, window, pos>>

\* Mutant of SnapAtNewline: one byte too far.
SnapTooFar ==
  /\ pc = "snap"
  /\ pos < Len(data)
  /\ data[pos + 1] = "NL"
  /\ PushChunk(pos + 2)

SnapAtNewline ==
  /\ pc = "snap"
  /\ pos < Len(data)
  /\ data[pos + 1] = "NL"
  /\ PushChunk(pos + 1)

SnapAtEnd ==
  /\ pc = "snap"
  /\ pos >= Len(data)
  /\ PushChunk(Len(data))

\* The while loop ends; data.is_empty() returns here at once.
Finish ==
  /\ pc = "cut"
  /\ start >= Len(data)
  /\ pc' = "done"
  /\ UNCHANGED <<data, window, start, pos, chunks>>

Next ==
  \/ LastChunk
  \/ BeginSnap
  \/ Scan
  \/ SnapAtNewline
  \/ SnapAtEnd
  \/ Finish

Spec == Init /\ [][Next]_vars

\* The loop runs on the calling thread and nothing in it blocks.
FairSpec == Spec /\ WF_vars(Next)

------------------------------------------------------------------------------
(***************************************************************************)
(* Every variable keeps the type its Rust counterpart has.                 *)
(***************************************************************************)
TypeOK ==
  /\ data \in Inputs
  /\ window \in 1 .. UsizeMax
  /\ start \in 0 .. Len(data)
  /\ pos \in 0 .. Len(data)
  /\ chunks \in Seq([lo : Nat, hi : Nat])
  /\ pc \in {"cut", "snap", "done"}

(***************************************************************************)
(* `start + window` of fixed_chunks never leaves usize, whatever the chunk *)
(* size: an overflow would wrap the tentative end back into the file.      *)
(***************************************************************************)
SumNeverWraps ==
  pc = "cut" /\ start < Len(data) => start + window <= UsizeMax

LineFeed(offset) == data[offset + 1] = "NL"

\* First offset past chunk i - 1, where chunk i must begin.
BoundaryBefore(i) == IF i = 1 THEN 0 ELSE chunks[i - 1].hi

(***************************************************************************)
(* Zero loss of fixed_chunks: when it returns, the slices are non-empty,   *)
(* abut each other, begin at offset 0 and end at the end of the data.      *)
(***************************************************************************)
Lossless ==
  pc = "done" =>
    /\ \A i \in 1 .. Len(chunks) :
         chunks[i].lo = BoundaryBefore(i) /\ chunks[i].lo < chunks[i].hi
    /\ BoundaryBefore(Len(chunks) + 1) = Len(data)

IsRun(lo, hi, from, to) ==
  /\ from <= lo /\ lo < hi /\ hi <= to
  /\ \A o \in lo .. hi - 1 : ~LineFeed(o)
  /\ lo = from \/ LineFeed(lo - 1)
  /\ hi = to \/ LineFeed(hi)

(***************************************************************************)
(* The record discipline of parse_chunk, which splits each slice at its    *)
(* newlines on its own: the maximal newline-free runs of the slices are    *)
(* exactly those of the whole file, so no worker sees half a record.       *)
(***************************************************************************)
RecordsIntact ==
  pc = "done" =>
    \A lo, hi \in 0 .. Len(data) :
      IsRun(lo, hi, 0, Len(data)) <=>
        \E i \in 1 .. Len(chunks) : IsRun(lo, hi, chunks[i].lo, chunks[i].hi)

\* What count_lines adds up to over the first i slices.
LinesThrough(i) ==
  SumFunction([j \in 1 .. i |->
    count_lines(SubSeq(data, chunks[j].lo + 1, chunks[j].hi))])

(***************************************************************************)
(* The three scanners agree on where a record ends: counted slice by slice *)
(* the newlines are those of the file, and the head of as many lines ends  *)
(* where the slice does, if that has its newline.                          *)
(***************************************************************************)
HeadsAreSlices ==
  pc = "done" =>
    /\ LinesThrough(Len(chunks)) = count_lines(data)
    /\ \A i \in 1 .. Len(chunks) :
         LineFeed(chunks[i].hi - 1) =>
           offset_after_n_lines(data, LinesThrough(i)) = chunks[i].hi

(***************************************************************************)
(* fixed_chunks returns, for every input and every chunk size, 0 included. *)
(***************************************************************************)
Termination == <>(pc = "done")
==============================================================================
