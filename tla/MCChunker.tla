------------------------------ MODULE MCChunker ------------------------------
(* Every byte string up to six bytes with every chunk size of a 4-bit usize. *)
EXTENDS Chunker

MCInputs == UNION {[1 .. n -> Byte] : n \in 0 .. 6}
MCChunkSizes == 0 .. 15
==============================================================================
