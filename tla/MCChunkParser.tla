--------------------------- MODULE MCChunkParser ---------------------------
(* Every chunk of at most four lines, in both modes, with batch sizes from  *)
(* 0 (accepted by the command line) to 3 and limits from 0 to 2 or none.    *)
EXTENDS ChunkParser

MCInputs == UNION {[1 .. n -> LineKind] : n \in 0 .. 4}

MCConfigs == [batch_size : 0 .. 3, ignore_errors : BOOLEAN,
              limit : (0 .. 2) \cup {NoLimit}]
==============================================================================
