----------------------------- MODULE MCPipeline -----------------------------
(* Inputs and configurations for Pipeline.  As the partitioner leaves them, *)
(* every chunk but the last ends with a newline, after which parse_chunk    *)
(* finds an empty line.                                                     *)
EXTENDS Pipeline

Config(batch_size, ignore_errors, limit, channel_depth, threads, dead_letter) ==
  [batch_size |-> batch_size, ignore_errors |-> ignore_errors,
   limit |-> limit, channel_depth |-> channel_depth, threads |-> threads,
   dead_letter |-> dead_letter]

\* Both kinds of reject, a null for a clash, and chunks of several batches
\* for a channel of one slot.
DirtyInput == << <<"row", "malformed", "row", "blank">>,
                 <<"nonobject", "boolclash", "blank">>,
                 <<"row", "row">> >>
LenientConfig == Config(1, TRUE, NoLimit, 1, 3, TRUE)

\* Two chunks fail on a line and one on its flush; four clean ones make more
\* batches than two workers and the writer can hold; the channel has no slot.
TornInput == << <<"row", "malformed", "blank">>,
                <<"row", "blank">>, <<"row", "blank">>,
                <<"unfit", "boolclash", "blank">>,
                <<"row", "blank">>, <<"boolclash", "blank">>,
                <<"row">> >>
StrictConfig == Config(2, FALSE, NoLimit, 0, 2, FALSE)

\* One chunk rejects lines and then fails, lenient or not; the rejects of the
\* other are sent meanwhile.
FailingInput == << <<"malformed", "row", "nonobject", "unfit", "malformed",
                     "blank">>,
                   <<"nonobject", "malformed", "row", "malformed">> >>
FailingConfig == Config(1, TRUE, NoLimit, 1, 2, TRUE)
==============================================================================
