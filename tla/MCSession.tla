------------------------------ MODULE MCSession ------------------------------
(* Two files of lines, and the programs a host may run with them.           *)
EXTENDS Session

Row(k) == [by |-> 0, what |-> "row", line |-> k]
Bad(k) == [by |-> 0, what |-> "bad", line |-> k]

MCPath == {"a", "b", "out", "out2", "err", "err2"}
MCDisk == [p \in MCPath |-> CASE p = "a" -> <<Row(1), Bad(2), Row(3)>>
                              [] p = "b" -> <<Row(1), Row(2)>>
                              [] OTHER   -> <<>>]

Convert(input, output, dead, threads, depth, ignore_errors, after, when) ==
  [codec |-> TRUE, input |-> input, output |-> output, dead |-> dead,
   threads |-> threads, channel_depth |-> depth,
   ignore_errors |-> ignore_errors, after |-> after, when |-> when]

\* The example of docs/python.md, on a pool of one worker or of all; one call
\* has a channel of one batch, the other of none.
TwoAtOnce(threads, depth) ==
  <<Convert("a", "out", "err", threads, depth, TRUE, 0, {}),
    Convert("b", "out2", "err2", 0, 1 - depth, FALSE, 0, {})>>

\* A strict call fails, a lenient one follows on the same path.
Retry ==
  <<Convert("a", "out", NoPath, 2, 1, FALSE, 0, {}),
    Convert("a", "out", "err", 2, 1, TRUE, 1, {"err"})>>

\* The codec is corrected, and the file converted a second time.
Twice ==
  <<[Convert("b", "out", NoPath, 1, 1, FALSE, 0, {}) EXCEPT !.codec = FALSE],
    Convert("b", "out", NoPath, 2, 0, FALSE, 1, {"err"}),
    Convert("a", "out", "err", 1, 1, TRUE, 2, {"ok"})>>

\* The output is the input, and its bytes are the input of another call.
InPlace ==
  <<Convert("b", "b", NoPath, 2, 1, TRUE, 0, {}),
    Convert("b", "out", "err", 2, 1, TRUE, 0, {})>>

\* The quarantine of a call is converted while it is written, or after.
Reprocess(after) ==
  <<Convert("a", "out", "err", 2, 1, TRUE, 0, {}),
    Convert("err", "out2", "err2", 2, 1, TRUE, after, {"ok"})>>

\* The rejects go where the rows go.
OneFile == <<Convert("a", "out", "out", 2, 1, TRUE, 0, {})>>

MCPrograms == {TwoAtOnce(1, 1), TwoAtOnce(1, 0), TwoAtOnce(0, 1), Retry,
               Twice, InPlace, Reprocess(0), Reprocess(1), OneFile}
RetryOnly == {Retry}
==============================================================================
