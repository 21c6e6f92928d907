------------------------------ MODULE Session ------------------------------
(***************************************************************************)
(* parq-python in its host: several calls of convert in one process, one   *)
(* after the other or at once, on named files.  The calls share the global *)
(* rayon pool, which the first of them builds, and the file system, where  *)
(* each writes through handles of its own, those of a failed call too: its *)
(* threads are left behind.  Pipeline has the steps of one call in detail; *)
(* here every chunk is one line, every batch one row, every read and write *)
(* of a file a step, and the files do not fail.                            *)
(***************************************************************************)
EXTENDS Integers, Sequences, FiniteSets

CONSTANTS
  Path,          \* the files
  Disk,          \* what they hold at first
  Programs,      \* what the host may do: per call, its arguments and its turn
  Cpus,          \* num_cpus::get()
  NoPath

\* What a handle writes at one position: a line of the input (by 0), a row, a
\* rejected line or the footer of call `by`; a hole where nobody wrote.
Block == [by : Nat, what : {"row", "bad", "footer"}, line : Nat]
Hole == [by |-> 0, what |-> "bad", line |-> 0]

Outcome == {"none", "ok", "err"}

Arguments ==
  [codec : BOOLEAN, input : Path, output : Path, dead : Path \cup {NoPath},
   threads : Nat, channel_depth : Nat, ignore_errors : BOOLEAN,
   after : Nat, when : SUBSET Outcome]

ASSUME SessionAssumption ==
  /\ NoPath \notin Path
  /\ Disk \in [Path -> Seq(Block)]
  /\ \A p \in Programs : p \in Seq(Arguments)
  /\ Cpus \in Nat \ {0}

VARIABLES
  program,   \* the program the host runs
  file,      \* what each file holds
  pool,      \* workers of the global pool, 0 before it is built
  call,      \* the state of each call
  killed,    \* a worker read mapped bytes that are no longer in the file
  alone      \* per call: no other had its files in use, from its start on

vars == <<program, file, pool, call, killed, alone>>

Call == DOMAIN program
Args(c) == program[c]

\* The pipeline was entered: neither waiting for its turn nor refused.
Begun(c) == call[c].writer # "unborn"

NewCall ==
  [pc |-> "idle", result |-> "none", view |-> <<>>, task |-> <<>>, err |-> 0,
   chan |-> <<>>, writer |-> "unborn", wpos |-> 1, dlq |-> <<>>,
   dl |-> "unborn", dpos |-> 1, output_bytes |-> 0]

Settled == {"done", "skipped", "failed"}
Lines(c) == DOMAIN call[c].task

\* for_each_with is over, and with it the last sender of both channels.
LoopOver(c) ==
  /\ call[c].pc # "idle"
  /\ \A k \in Lines(c) : call[c].task[k] \in Settled

Ended(c) ==
  /\ call[c].pc = "returned"
  /\ call[c].writer \in {"unborn", "ok"} /\ call[c].dl \in {"unborn", "none", "ok"}

\* Workers of the pool that are in a send, whosever chunk it is.
Busy ==
  UNION {{c} \X {k \in Lines(c) : call[c].task[k] = "sending"} : c \in Call}

------------------------------------------------------------------------------
Init ==
  /\ program \in Programs
  /\ file = Disk
  /\ pool = 0
  /\ call = [c \in Call |-> NewCall]
  /\ killed = FALSE
  /\ alone = [c \in Call |-> FALSE]

Turn(c) ==
  /\ call[c].pc = "idle"
  /\ Args(c).after # 0 => call[Args(c).after].result \in Args(c).when

\* An unknown codec is refused before the pipeline is entered.
Refuse(c) ==
  /\ Turn(c)
  /\ ~Args(c).codec
  /\ call' = [call EXCEPT ![c].pc = "returned", ![c].result = "err"]
  /\ UNCHANGED <<program, file, pool, killed, alone>>

Written(c) == {Args(c).output, Args(c).dead} \ {NoPath}
Conflict(c, d) ==
  \/ Written(c) \cap ({Args(d).input} \cup Written(d)) # {}
  \/ Written(d) \cap {Args(c).input} # {}

\* Bookkeeping of the model: c starts.
Alone(c) ==
  [d \in Call |->
     IF d # c THEN alone[d] /\ ~Conflict(c, d)
     ELSE /\ Args(c).input \notin Written(c) /\ Args(c).output # Args(c).dead
          /\ \A e \in Call \ {c} :
               call[e].pc # "idle" /\ ~Ended(e) => ~Conflict(c, e)]

Threads(c) == IF Args(c).threads = 0 THEN Cpus ELSE Args(c).threads

\* build_global succeeds once; the file is mapped, hashed and partitioned,
\* and the two threads are started.
Start(c) ==
  /\ Turn(c)
  /\ Args(c).codec
  /\ pool' = IF pool = 0 THEN Threads(c) ELSE pool
  /\ call' = [call EXCEPT ![c] =
       [@ EXCEPT !.pc = "parsing", !.view = file[Args(c).input],
                 !.task = [k \in DOMAIN file[Args(c).input] |-> "pending"],
                 !.writer = "opening",
                 !.dl = IF Args(c).dead = NoPath THEN "none" ELSE "opening"]]
  /\ alone' = Alone(c)
  /\ UNCHANGED <<program, file, killed>>

------------------------------------------------------------------------------
(* The workers.                                                            *)

Pending(c, k) ==
  /\ k \in Lines(c)
  /\ call[c].task[k] = "pending"
  /\ Cardinality(Busy) < pool

Source(c) == file[Args(c).input]

\* What is under the map now; past the end of a truncated file the rest of
\* the page reads as zeros.
Mapped(c, k) == IF k <= Len(Source(c)) THEN Source(c)[k] ELSE Hole

\* Only a line of an input is JSON.
IsJson(block) == block.by = 0 /\ block.what = "row"

Skip(c, k) ==
  /\ Pending(c, k)
  /\ call[c].err # 0
  /\ call' = [call EXCEPT ![c].task[k] = "skipped"]
  /\ UNCHANGED <<program, file, pool, killed, alone>>

Parse(c, k) ==
  /\ Pending(c, k)
  /\ call[c].err = 0
  /\ LET p == call[c]
         q == IF Args(c).dead = NoPath THEN p.dlq ELSE Append(p.dlq, k)
     IN  call' = [call EXCEPT ![c] =
           IF IsJson(Mapped(c, k)) THEN [p EXCEPT !.task[k] = "sending"]
           ELSE IF Args(c).ignore_errors
           THEN [p EXCEPT !.task[k] = "done", !.dlq = q]
           ELSE [p EXCEPT !.task[k] = "failed", !.err = k]]
  /\ UNCHANGED <<program, file, pool, killed, alone>>

\* Beyond the last page of a truncated file a read ends the process (SIGBUS).
Fault(c, k) ==
  /\ Pending(c, k)
  /\ call[c].err = 0
  /\ k > Len(Source(c))
  /\ killed' = TRUE
  /\ UNCHANGED <<program, file, pool, call, alone>>

\* A channel of depth 0 hands a batch to a writer that waits for one; chan is
\* then what the writer has in its hands.
HasRoom(c) ==
  IF Args(c).channel_depth = 0
  THEN call[c].writer = "recv" /\ call[c].chan = <<>>
  ELSE Len(call[c].chan) < Args(c).channel_depth

\* A worker that waits for the channel holds a thread of the pool.
Send(c, k) ==
  /\ k \in Lines(c)
  /\ call[c].task[k] = "sending"
  /\ HasRoom(c)
  /\ call' = [call EXCEPT ![c].task[k] = "done", ![c].chan = Append(@, k)]
  /\ UNCHANGED <<program, file, pool, killed, alone>>

------------------------------------------------------------------------------
(* The writer and the dead-letter thread.                                  *)

\* A write at a position of a handle's own, wherever the file ends by now.
PutAt(content, pos, block) ==
  [i \in 1 .. (IF pos > Len(content) THEN pos ELSE Len(content)) |->
     IF i = pos THEN block
     ELSE IF i <= Len(content) THEN content[i] ELSE Hole]

Put(p, pos, c, what, line) ==
  file' = [file EXCEPT ![p] =
    PutAt(@, pos, [by |-> c, what |-> what, line |-> line])]

\* Mutant of OpenOutput: the writer is given the other path.
OpenOutputSwapped(c) ==
  /\ call[c].writer = "opening"
  /\ file' = [file EXCEPT ![Args(c).input] = <<>>]
  /\ call' = [call EXCEPT ![c].writer = "recv"]
  /\ UNCHANGED <<program, pool, killed, alone>>

\* File::create truncates the file, whoever else has it open.
OpenOutput(c) ==
  /\ call[c].writer = "opening"
  /\ file' = [file EXCEPT ![Args(c).output] = <<>>]
  /\ call' = [call EXCEPT ![c].writer = "recv"]
  /\ UNCHANGED <<program, pool, killed, alone>>

\* Mutant of WriteRow: the batch is looked at and not taken.
WriteRowAgain(c) ==
  /\ call[c].writer = "recv"
  /\ call[c].chan # <<>>
  /\ Put(Args(c).output, call[c].wpos, c, "row", Head(call[c].chan))
  /\ call' = [call EXCEPT ![c].wpos = @ + 1]
  /\ UNCHANGED <<program, pool, killed, alone>>

\* Mutant of WriteRow: the writer is a task of the pool, not a thread.
WriteRowOnPool(c) ==
  /\ call[c].writer = "recv"
  /\ call[c].chan # <<>>
  /\ Cardinality(Busy) < pool
  /\ Put(Args(c).output, call[c].wpos, c, "row", Head(call[c].chan))
  /\ call' = [call EXCEPT ![c].chan = Tail(@), ![c].wpos = @ + 1]
  /\ UNCHANGED <<program, pool, killed, alone>>

WriteRow(c) ==
  /\ call[c].writer = "recv"
  /\ call[c].chan # <<>>
  /\ Put(Args(c).output, call[c].wpos, c, "row", Head(call[c].chan))
  /\ call' = [call EXCEPT ![c].chan = Tail(@), ![c].wpos = @ + 1]
  /\ UNCHANGED <<program, pool, killed, alone>>

CloseOutput(c) ==
  /\ call[c].writer = "recv"
  /\ call[c].chan = <<>>
  /\ LoopOver(c)
  /\ Put(Args(c).output, call[c].wpos, c, "footer", 0)
  /\ call' = [call EXCEPT ![c].writer = "ok"]
  /\ UNCHANGED <<program, pool, killed, alone>>

OpenDead(c) ==
  /\ call[c].dl = "opening"
  /\ file' = [file EXCEPT ![Args(c).dead] = <<>>]
  /\ call' = [call EXCEPT ![c].dl = "recv"]
  /\ UNCHANGED <<program, pool, killed, alone>>

WriteDead(c) ==
  /\ call[c].dl = "recv"
  /\ call[c].dlq # <<>>
  /\ Put(Args(c).dead, call[c].dpos, c, "bad", Head(call[c].dlq))
  /\ call' = [call EXCEPT ![c].dlq = Tail(@), ![c].dpos = @ + 1]
  /\ UNCHANGED <<program, pool, killed, alone>>

CloseDead(c) ==
  /\ call[c].dl = "recv"
  /\ call[c].dlq = <<>>
  /\ LoopOver(c)
  /\ call' = [call EXCEPT ![c].dl = "ok"]
  /\ UNCHANGED <<program, file, pool, killed, alone>>

------------------------------------------------------------------------------
(* The calling thread after the loop.                                      *)

\* The first error is returned, and nothing is joined.
Fail(c) ==
  /\ call[c].pc = "parsing"
  /\ LoopOver(c)
  /\ call[c].err # 0
  /\ call' = [call EXCEPT ![c].pc = "returned", ![c].result = "err"]
  /\ UNCHANGED <<program, file, pool, killed, alone>>

\* Mutant of Succeed: neither thread is joined.
SucceedUnjoined(c) ==
  /\ call[c].pc = "parsing"
  /\ LoopOver(c)
  /\ call[c].err = 0
  /\ call' = [call EXCEPT ![c].pc = "returned", ![c].result = "ok",
                          ![c].output_bytes = Len(file[Args(c).output])]
  /\ UNCHANGED <<program, file, pool, killed, alone>>

\* Both threads are joined; the size is asked of the path, not of the writer.
Succeed(c) ==
  /\ call[c].pc = "parsing"
  /\ LoopOver(c)
  /\ call[c].err = 0
  /\ call[c].writer = "ok" /\ call[c].dl \in {"none", "ok"}
  /\ call' = [call EXCEPT ![c].pc = "returned", ![c].result = "ok",
                          ![c].output_bytes = Len(file[Args(c).output])]
  /\ UNCHANGED <<program, file, pool, killed, alone>>

Begin(c) == Refuse(c) \/ Start(c)
Work(c, k) == Skip(c, k) \/ Parse(c, k) \/ Fault(c, k) \/ Send(c, k)
Write(c) == OpenOutput(c) \/ WriteRow(c) \/ CloseOutput(c)
Quarantine(c) == OpenDead(c) \/ WriteDead(c) \/ CloseDead(c)
Finish(c) == Fail(c) \/ Succeed(c)

Alive(A) == ~killed /\ A

\* The host need not make a call; every other stop is a deadlock.
Quiet ==
  /\ killed \/ \A c \in Call : call[c].pc = "idle" \/ Ended(c)
  /\ UNCHANGED vars

Next ==
  \/ \E c \in Call : \/ Alive(Begin(c))
                     \/ \E k \in Lines(c) : Alive(Work(c, k))
                     \/ Alive(Write(c))
                     \/ Alive(Quarantine(c))
                     \/ Alive(Finish(c))
  \/ Quiet

Spec == Init /\ [][Next]_vars

Slot == UNION {DOMAIN p : p \in Programs}

\* The operating system runs every thread and rayon every call's chunks.
FairSpec ==
  /\ Spec
  /\ \A c \in Slot :
       /\ WF_vars(\E d \in Call \cap {c} :
                    \E k \in Lines(d) : Alive(Work(d, k)))
       /\ WF_vars(\E d \in Call \cap {c} : Alive(Write(d)))
       /\ WF_vars(\E d \in Call \cap {c} : Alive(Quarantine(d)))
       /\ WF_vars(\E d \in Call \cap {c} : Alive(Finish(d)))

------------------------------------------------------------------------------
CallState ==
  [pc : {"idle", "parsing", "returned"}, result : Outcome, view : Seq(Block),
   task : Seq({"pending", "sending"} \cup Settled), err : Nat,
   chan : Seq(Nat), writer : {"unborn", "opening", "recv", "ok"}, wpos : Nat,
   dlq : Seq(Nat), dl : {"unborn", "none", "opening", "recv", "ok"},
   dpos : Nat, output_bytes : Nat]

(***************************************************************************)
(* The type of every variable; no handle is ahead of its own writes.       *)
(***************************************************************************)
TypeOK ==
  /\ program \in Programs
  /\ file \in [Path -> Seq(Block)]
  /\ pool \in Nat
  /\ call \in [Call -> CallState]
  /\ killed \in BOOLEAN /\ alone \in [Call -> BOOLEAN]
  /\ \A c \in Call : call[c].wpos <= Len(call[c].view) + 1

\* The lines of call c that are JSON, or are not, when they are hashed.
Due(c, json) == {k \in DOMAIN call[c].view : IsJson(call[c].view[k]) = json}

Holds(p, c, what, lines) ==
  /\ {file[p][i] : i \in DOMAIN file[p]} =
       {[by |-> c, what |-> what, line |-> k] : k \in lines}
  /\ Len(file[p]) = Cardinality(lines)

HasRows(c) ==
  LET content == file[Args(c).output]
      last == Len(content)
  IN  /\ last = Cardinality(Due(c, TRUE)) + 1
      /\ content[last] = [by |-> c, what |-> "footer", line |-> 0]
      /\ {content[i] : i \in 1 .. last - 1} =
           {[by |-> c, what |-> "row", line |-> k] : k \in Due(c, TRUE)}
      /\ call[c].output_bytes = last

(***************************************************************************)
(* What a host must keep to, and what it then gets: if no other call, nor  *)
(* a thread that a failed call left behind, had the files of c in use when *)
(* it started and none has taken them up since, then after Ok the output   *)
(* holds the rows that were hashed, the footer and nothing else, the       *)
(* dead-letter file the other lines, and output_bytes is the file's size.  *)
(***************************************************************************)
OkFilesIntact ==
  \A c \in Call : call[c].result = "ok" /\ alone[c] =>
    /\ HasRows(c)
    /\ Args(c).dead # NoPath => Holds(Args(c).dead, c, "bad", Due(c, FALSE))

(***************************************************************************)
(* The SAFETY comments of run_pipeline: the map is sound as long as nobody *)
(* writes the input.  The process dies on it only while a call is parsing  *)
(* that was not left alone, and only if a call that has begun, this one or *)
(* another, has that very input for its output or its dead-letter file.    *)
(***************************************************************************)
DiesOnlyOnConflict ==
  killed => \E c, d \in {b \in Call : Begun(b)} :
    /\ call[c].pc = "parsing" /\ ~alone[c]
    /\ Args(c).input \in Written(d)

(***************************************************************************)
(* Each call that has begun returns and its threads end, even when its     *)
(* chunks wait for a pool whose only thread is blocked in another call's   *)
(* channel, and whoever else writes its files.                             *)
(***************************************************************************)
EveryCallEnds ==
  \A c \in Slot :
    (\E d \in Call \cap {c} : call[d].pc # "idle")
      ~> (killed \/ \E d \in Call \cap {c} : Ended(d))

------------------------------------------------------------------------------
(* What the documentation says and the code does not do.                   *)

(***************************************************************************)
(* docs/python.md:66, rows_processed: "Rows successfully parsed and        *)
(* written": a host that waits for each call to return before it makes the *)
(* next finds the rows of the last one, if it is Ok, in its file.          *)
(***************************************************************************)
RetryIsWritten ==
  \A c \in Call : call[c].result = "ok" /\ c = Len(program) => HasRows(c)

==============================================================================
