---------------------------- MODULE SessionProofs ----------------------------
(***************************************************************************)
(* Proofs about Session, for any number of calls, files, threads and lines *)
(* and every program of the host: a call whose files nobody else has in use*)
(* keeps them to itself, and what it then reports of them is true.         *)
(***************************************************************************)
EXTENDS Session, FiniteSetTheorems, TLAPS

\* The type invariant but for its bound on the writer's position.
Typed ==
  /\ program \in Programs
  /\ file \in [Path -> Seq(Block)]
  /\ pool \in Nat
  /\ call \in [Call -> CallState]
  /\ killed \in BOOLEAN /\ alone \in [Call -> BOOLEAN]

\* A step of call c, of its threads or of a worker on one of its chunks.
CallStep(c) ==
  \/ Begin(c)
  \/ \E k \in Lines(c) : Work(c, k)
  \/ Write(c)
  \/ Quarantine(c)
  \/ Finish(c)

\* A thread of c still has a file to open or to write.
Writing(c) ==
  call[c].writer \in {"opening", "recv"} \/ call[c].dl \in {"opening", "recv"}

(***************************************************************************)
(* What the assumption on the constants gives for the calls of a program.  *)
(***************************************************************************)
LEMMA CallTypes ==
  ASSUME program \in Programs
  PROVE  /\ \A c \in Call : c \in Nat /\ c # 0 /\ Args(c) \in Arguments
         /\ Cpus \in Nat \ {0} /\ NoPath \notin Path
<1>1. program \in Seq(Arguments)
  BY SessionAssumption
<1> QED
  BY <1>1, SessionAssumption DEF Call, Args

(***************************************************************************)
(* Every step is a step of one call, in a process that is alive, or none.  *)
(***************************************************************************)
LEMMA NextIsCallStep ==
  [Next]_vars => UNCHANGED vars \/ (~killed /\ \E c \in Call : CallStep(c))
  BY DEF Next, Alive, Quiet, CallStep

(***************************************************************************)
(* A write at a position leaves a sequence of blocks behind.               *)
(***************************************************************************)
LEMMA PutTyped ==
  ASSUME NEW content \in Seq(Block), NEW pos \in Nat,
         NEW block \in Block
  PROVE  PutAt(content, pos, block) \in Seq(Block)
<1>1. Hole \in Block
  BY DEF Hole, Block
<1> DEFINE n == IF pos > Len(content) THEN pos ELSE Len(content)
<1>2. n \in Nat
  OBVIOUS
<1>3. ASSUME NEW i \in 1 .. n
      PROVE  (IF i = pos THEN block
              ELSE IF i <= Len(content) THEN content[i] ELSE Hole) \in Block
  BY <1>1
<1> HIDE DEF n
<1> QED
  BY <1>2, <1>3 DEF PutAt, n

(***************************************************************************)
(* The updates that the steps make of the record of a call.                *)
(***************************************************************************)
LEMMA Updates ==
  ASSUME NEW p \in CallState
  PROVE  /\ [p EXCEPT !.writer = "recv"] \in CallState
         /\ [p EXCEPT !.writer = "ok"] \in CallState
         /\ [p EXCEPT !.dl = "recv"] \in CallState
         /\ [p EXCEPT !.dl = "ok"] \in CallState
         /\ p.chan # <<>> =>
              [p EXCEPT !.chan = Tail(p.chan), !.wpos = p.wpos + 1]
                \in CallState
         /\ p.dlq # <<>> =>
              [p EXCEPT !.dlq = Tail(p.dlq), !.dpos = p.dpos + 1]
                \in CallState
         /\ \A n \in Nat, t \in {"pending", "sending"} \cup Settled :
              [p EXCEPT !.task[n] = t] \in CallState
         /\ \A n \in Nat :
              /\ [p EXCEPT !.task[n] = "done", !.chan = Append(p.chan, n)]
                   \in CallState
              /\ [p EXCEPT !.task[n] = "done", !.dlq = Append(p.dlq, n)]
                   \in CallState
              /\ [p EXCEPT !.task[n] = "failed", !.err = n] \in CallState
<1> DEFINE T == Seq({"pending", "sending"} \cup Settled)
           N == Seq(Nat)
<1>1. /\ p.task \in T /\ p.chan \in N /\ p.dlq \in N /\ p.wpos \in Nat
      /\ p.dpos \in Nat
  BY DEF CallState
<1>2. p.chan # <<>> => Tail(p.chan) \in N
  BY <1>1
<1>3. p.dlq # <<>> => Tail(p.dlq) \in N
  BY <1>1
<1>4. \A n \in Nat : Append(p.chan, n) \in N /\ Append(p.dlq, n) \in N
  BY <1>1
<1>5. \A n \in Nat, t \in {"pending", "sending"} \cup Settled :
        [p.task EXCEPT ![n] = t] \in T
  <2> DEFINE S == {"pending", "sending"} \cup Settled
  <2>1. p.task \in [1 .. Len(p.task) -> S] /\ Len(p.task) \in Nat
    BY <1>1
  <2> HIDE DEF S
  <2>2. \A n \in Nat, t \in S : [p.task EXCEPT ![n] = t] \in [1 .. Len(p.task) -> S]
    BY <2>1
  <2>3. [1 .. Len(p.task) -> S] \subseteq Seq(S)
    BY <2>1
  <2> QED
    BY <2>2, <2>3 DEF S
<1>6. {"done", "failed"} \subseteq {"pending", "sending"} \cup Settled
  BY DEF Settled
<1>7. CallState = [pc : {"idle", "parsing", "returned"}, result : Outcome,
                   view : Seq(Block), task : T, err : Nat, chan : N,
                   writer : {"unborn", "opening", "recv", "ok"}, wpos : Nat,
                   dlq : N, dl : {"unborn", "none", "opening", "recv", "ok"},
                   dpos : Nat, output_bytes : Nat]
  BY DEF CallState
<1>8. p.wpos + 1 \in Nat /\ p.dpos + 1 \in Nat
  BY <1>1
<1> HIDE DEF T, N
<1>9. ASSUME NEW chan \in N, NEW n \in Nat
      PROVE  [p EXCEPT !.chan = chan, !.wpos = n] \in CallState
  BY <1>7
<1>10. ASSUME NEW dlq \in N, NEW n \in Nat
       PROVE  [p EXCEPT !.dlq = dlq, !.dpos = n] \in CallState
  BY <1>7
<1>11. ASSUME NEW task \in T, NEW queue \in N, NEW n \in Nat
       PROVE  /\ [p EXCEPT !.task = task, !.chan = queue] \in CallState
              /\ [p EXCEPT !.task = task, !.dlq = queue] \in CallState
              /\ [p EXCEPT !.task = task, !.err = n] \in CallState
  BY <1>7
<1>12. /\ [p EXCEPT !.writer = "recv"] \in CallState
       /\ [p EXCEPT !.writer = "ok"] \in CallState
       /\ [p EXCEPT !.dl = "recv"] \in CallState
       /\ [p EXCEPT !.dl = "ok"] \in CallState
  BY <1>7
<1>13. ASSUME NEW n \in Nat, NEW t \in {"pending", "sending"} \cup Settled
       PROVE  [p EXCEPT !.task[n] = t] \in CallState
  <2>1. [p EXCEPT !.task[n] = t] = [p EXCEPT !.task = [p.task EXCEPT ![n] = t]]
    OBVIOUS
  <2> QED
    BY <1>5, <1>7, <2>1
<1>14. ASSUME NEW n \in Nat
       PROVE  /\ [p EXCEPT !.task[n] = "done", !.chan = Append(p.chan, n)]
                   \in CallState
              /\ [p EXCEPT !.task[n] = "done", !.dlq = Append(p.dlq, n)]
                   \in CallState
              /\ [p EXCEPT !.task[n] = "failed", !.err = n] \in CallState
  <2> DEFINE d == [p.task EXCEPT ![n] = "done"]
             f == [p.task EXCEPT ![n] = "failed"]
             a == Append(p.chan, n)
             b == Append(p.dlq, n)
  <2>1. d \in T /\ f \in T /\ a \in N /\ b \in N
    BY <1>4, <1>5, <1>6
  <2>2. /\ [p EXCEPT !.task[n] = "done", !.chan = a]
             = [p EXCEPT !.task = d, !.chan = a]
        /\ [p EXCEPT !.task[n] = "done", !.dlq = b]
             = [p EXCEPT !.task = d, !.dlq = b]
        /\ [p EXCEPT !.task[n] = "failed", !.err = n]
             = [p EXCEPT !.task = f, !.err = n]
    OBVIOUS
  <2> HIDE DEF d, f, a, b
  <2>3. /\ [p EXCEPT !.task = d, !.chan = a] \in CallState
        /\ [p EXCEPT !.task = d, !.dlq = b] \in CallState
        /\ [p EXCEPT !.task = f, !.err = n] \in CallState
    BY <1>11, <2>1
  <2> QED
    BY <2>2, <2>3 DEF a, b
<1> QED
  BY <1>2, <1>3, <1>8, <1>9, <1>10, <1>12, <1>13, <1>14

(***************************************************************************)
(* Every step of a call keeps the types of the variables.                  *)
(***************************************************************************)
LEMMA StepTyped ==
  ASSUME Typed, NEW c \in Call, CallStep(c)
  PROVE  Typed'
<1> USE DEF Typed
<1> DEFINE p == call[c]
<1>1. /\ p \in CallState /\ c \in Nat /\ Args(c) \in Arguments
      /\ Cpus \in Nat /\ call \in [Call -> CallState]
      /\ file \in [Path -> Seq(Block)] /\ pool \in Nat
      /\ alone \in [Call -> BOOLEAN]
  BY CallTypes
<1>2. ASSUME NEW r \in CallState, call' = [call EXCEPT ![c] = r],
             UNCHANGED <<program, killed>>, file' \in [Path -> Seq(Block)],
             pool' \in Nat, alone' \in [Call -> BOOLEAN]
      PROVE  Typed'
  BY <1>1, <1>2 DEF Call
<1>3. ASSUME NEW r \in CallState, call' = [call EXCEPT ![c] = r],
             UNCHANGED <<program, file, pool, killed, alone>>
      PROVE  Typed'
  BY <1>1, <1>2, <1>3
<1>4. ASSUME NEW q, NEW content \in Seq(Block), NEW r \in CallState,
             file' = [file EXCEPT ![q] = content],
             call' = [call EXCEPT ![c] = r],
             UNCHANGED <<program, pool, killed, alone>>
      PROVE  Typed'
  <2>1. file' \in [Path -> Seq(Block)]
    BY <1>1, <1>4
  <2> QED
    BY <1>1, <1>2, <1>4, <2>1
<1>5. CASE Refuse(c)
  <2> DEFINE r == [p EXCEPT !.pc = "returned", !.result = "err"]
  <2>1. r \in CallState
    BY <1>1 DEF CallState, Outcome
  <2>2. call' = [call EXCEPT ![c] = r]
    BY <1>1, <1>5 DEF Refuse, CallState
  <2> HIDE DEF r
  <2> QED
    BY <1>3, <1>5, <2>1, <2>2 DEF Refuse
<1>6. CASE Start(c)
  <2> DEFINE view == file[Args(c).input]
             r == [p EXCEPT !.pc = "parsing", !.view = view,
                            !.task = [k \in DOMAIN view |-> "pending"],
                            !.writer = "opening",
                            !.dl = IF Args(c).dead = NoPath
                                   THEN "none" ELSE "opening"]
  <2>1. view \in Seq(Block)
    BY <1>1 DEF Arguments
  <2>2. [k \in DOMAIN view |-> "pending"]
          \in Seq({"pending", "sending"} \cup Settled)
    BY <2>1
  <2> HIDE DEF view
  <2>3. r \in CallState
    BY <1>1, <2>1, <2>2 DEF CallState
  <2>4. call' = [call EXCEPT ![c] = r]
    BY <1>1, <1>6 DEF Start, CallState, view
  <2>5. pool' \in Nat
    BY <1>1, <1>6 DEF Start, Threads, Arguments
  <2>6. alone' \in [Call -> BOOLEAN]
    BY <1>1, <1>6 DEF Start, Alone
  <2> HIDE DEF r
  <2> QED
    BY <1>1, <1>2, <1>6, <2>3, <2>4, <2>5, <2>6 DEF Start
<1>7. ASSUME NEW k \in Lines(c), Work(c, k) PROVE Typed'
  <2>1. k \in Nat
    BY <1>1, <1>7 DEF Lines, CallState
  <2>2. CASE Skip(c, k)
    <3>1. [p EXCEPT !.task[k] = "skipped"] \in CallState
      BY <1>1, <2>1, Updates DEF Settled
    <3>2. call' = [call EXCEPT ![c] = [p EXCEPT !.task[k] = "skipped"]]
      BY <1>1, <2>2 DEF Skip, CallState
    <3> QED
      BY <1>3, <2>2, <3>1, <3>2 DEF Skip
  <2>3. CASE Parse(c, k)
    <3>1. /\ [p EXCEPT !.task[k] = "sending"] \in CallState
          /\ [p EXCEPT !.task[k] = "done"] \in CallState
          /\ [p EXCEPT !.task[k] = "done", !.dlq = Append(p.dlq, k)]
               \in CallState
          /\ [p EXCEPT !.task[k] = "failed", !.err = k] \in CallState
      BY <1>1, <2>1, Updates DEF Settled
    <3>2. \/ call' = [call EXCEPT ![c] = [p EXCEPT !.task[k] = "sending"]]
          \/ call' = [call EXCEPT ![c] = [p EXCEPT !.task[k] = "done"]]
          \/ call' = [call EXCEPT ![c] = [p EXCEPT !.task[k] = "done",
                                            !.dlq = Append(p.dlq, k)]]
          \/ call' = [call EXCEPT
                        ![c] = [p EXCEPT !.task[k] = "failed", !.err = k]]
      BY <1>1, <2>3 DEF Parse, CallState
    <3> QED
      BY <1>3, <2>3, <3>1, <3>2 DEF Parse
  <2>4. CASE Fault(c, k)
    BY <2>4 DEF Fault, Call
  <2>5. CASE Send(c, k)
    <3> DEFINE r == [p EXCEPT !.task[k] = "done", !.chan = Append(p.chan, k)]
    <3>1. r \in CallState
      BY <1>1, <2>1, Updates
    <3>2. call' = [call EXCEPT ![c] = r]
      BY <1>1, <2>5 DEF Send, CallState
    <3> HIDE DEF r
    <3> QED
      BY <1>3, <2>5, <3>1, <3>2 DEF Send
  <2> QED
    BY <1>7, <2>2, <2>3, <2>4, <2>5 DEF Work
<1>8. CASE OpenOutput(c) \/ WriteRow(c) \/ CloseOutput(c)
  <2>1. p.wpos \in Nat /\ file[Args(c).output] \in Seq(Block)
    BY <1>1 DEF CallState, Arguments
  <2>2. CASE OpenOutput(c)
    <3>1. [p EXCEPT !.writer = "recv"] \in CallState
      BY <1>1, Updates
    <3>2. <<>> \in Seq(Block)
      OBVIOUS
    <3>3. call' = [call EXCEPT ![c] = [p EXCEPT !.writer = "recv"]]
      BY <1>1, <2>2 DEF OpenOutput, CallState
    <3> QED
      BY <1>4, <2>2, <3>1, <3>2, <3>3 DEF OpenOutput
  <2>3. CASE WriteRow(c)
    <3> DEFINE r == [p EXCEPT !.chan = Tail(p.chan), !.wpos = p.wpos + 1]
               b == [by |-> c, what |-> "row", line |-> Head(p.chan)]
               n == PutAt(file[Args(c).output], p.wpos, b)
    <3>1. p.chan \in Seq(Nat) /\ p.chan # <<>>
      BY <1>1, <2>3 DEF WriteRow, CallState
    <3>2. r \in CallState
      BY <1>1, <3>1, Updates
    <3>3. n \in Seq(Block)
      <4>1. b \in Block
        BY <1>1, <3>1 DEF Block
      <4> HIDE DEF b
      <4> QED
        BY <2>1, <4>1, PutTyped
    <3>4. /\ call' = [call EXCEPT ![c] = r]
          /\ file' = [file EXCEPT ![Args(c).output] = n]
      BY <1>1, <2>3 DEF WriteRow, Put, CallState
    <3> HIDE DEF r, n, b
    <3> QED
      BY <1>4, <2>3, <3>2, <3>3, <3>4 DEF WriteRow
  <2>4. CASE CloseOutput(c)
    <3> DEFINE b == [by |-> c, what |-> "footer", line |-> 0]
               n == PutAt(file[Args(c).output], p.wpos, b)
    <3>1. [p EXCEPT !.writer = "ok"] \in CallState
      BY <1>1, Updates
    <3>2. n \in Seq(Block)
      <4>1. b \in Block
        BY <1>1 DEF Block
      <4> HIDE DEF b
      <4> QED
        BY <2>1, <4>1, PutTyped
    <3>3. /\ call' = [call EXCEPT ![c] = [p EXCEPT !.writer = "ok"]]
          /\ file' = [file EXCEPT ![Args(c).output] = n]
      BY <1>1, <2>4 DEF CloseOutput, Put, CallState
    <3> HIDE DEF n, b
    <3> QED
      BY <1>4, <2>4, <3>1, <3>2, <3>3 DEF CloseOutput
  <2> QED
    BY <1>8, <2>2, <2>3, <2>4
<1>9. CASE OpenDead(c) \/ WriteDead(c) \/ CloseDead(c)
  <2>1. CASE OpenDead(c)
    <3>1. [p EXCEPT !.dl = "recv"] \in CallState
      BY <1>1, Updates
    <3>2. <<>> \in Seq(Block)
      OBVIOUS
    <3>3. call' = [call EXCEPT ![c] = [p EXCEPT !.dl = "recv"]]
      BY <1>1, <2>1 DEF OpenDead, CallState
    <3> QED
      BY <1>4, <2>1, <3>1, <3>2, <3>3 DEF OpenDead
  <2>2. CASE WriteDead(c)
    <3> DEFINE r == [p EXCEPT !.dlq = Tail(p.dlq), !.dpos = p.dpos + 1]
               b == [by |-> c, what |-> "bad", line |-> Head(p.dlq)]
               n == PutAt(file[Args(c).dead], p.dpos, b)
    <3>1. p.dlq \in Seq(Nat) /\ p.dlq # <<>> /\ p.dpos \in Nat
      BY <1>1, <2>2 DEF WriteDead, CallState
    <3>2. r \in CallState
      BY <1>1, <3>1, Updates
    <3>3. call' = [call EXCEPT ![c] = r]
      BY <1>1, <2>2 DEF WriteDead, CallState
    <3>4. file' = [file EXCEPT ![Args(c).dead] = n]
      BY <2>2 DEF WriteDead, Put
    <3>5. CASE Args(c).dead \in Path
      <4>1. file[Args(c).dead] \in Seq(Block)
        BY <1>1, <3>5
      <4>2. b \in Block
        BY <1>1, <3>1 DEF Block
      <4> HIDE DEF b
      <4>3. n \in Seq(Block)
        BY <3>1, <4>1, <4>2, PutTyped
      <4> HIDE DEF r, n
      <4> QED
        BY <1>4, <2>2, <3>2, <3>3, <3>4, <4>3 DEF WriteDead
    <3>6. CASE Args(c).dead \notin Path
      <4> HIDE DEF r, n
      <4>1. file' = file
        BY <1>1, <3>4, <3>6
      <4> QED
        BY <1>3, <2>2, <3>2, <3>3, <4>1 DEF WriteDead
    <3> QED
      BY <3>5, <3>6
  <2>3. CASE CloseDead(c)
    <3>1. [p EXCEPT !.dl = "ok"] \in CallState
      BY <1>1, Updates
    <3>2. call' = [call EXCEPT ![c] = [p EXCEPT !.dl = "ok"]]
      BY <1>1, <2>3 DEF CloseDead, CallState
    <3> QED
      BY <1>3, <2>3, <3>1, <3>2 DEF CloseDead
  <2> QED
    BY <1>9, <2>1, <2>2, <2>3
<1>10. CASE Finish(c)
  <2> DEFINE n == Len(file[Args(c).output])
             r == [p EXCEPT !.pc = "returned", !.result = "err"]
             s == [p EXCEPT !.pc = "returned", !.result = "ok",
                            !.output_bytes = n]
  <2>1. n \in Nat
    BY <1>1 DEF Arguments
  <2> HIDE DEF n
  <2>2. r \in CallState /\ s \in CallState
    BY <1>1, <2>1 DEF CallState, Outcome
  <2>3. \/ call' = [call EXCEPT ![c] = r]
        \/ call' = [call EXCEPT ![c] = s]
    BY <1>1, <1>10 DEF Finish, Fail, Succeed, CallState, n
  <2>4. UNCHANGED <<program, file, pool, killed, alone>>
    BY <1>10 DEF Finish, Fail, Succeed
  <2> HIDE DEF r, s
  <2> QED
    BY <1>3, <2>2, <2>3, <2>4
<1> QED
  BY <1>5, <1>6, <1>7, <1>8, <1>9, <1>10
  DEF CallStep, Begin, Write, Quarantine

------------------------------------------------------------------------------
\* The fields of a call by who works on them: the caller, the writer with its
\* channel and the dead-letter thread with its own.
Caller(c) == <<call[c].pc, call[c].result, call[c].view, call[c].err,
               call[c].output_bytes>>
Rows(c) == <<call[c].chan, call[c].writer, call[c].wpos>>
Rejects(c) == <<call[c].dlq, call[c].dl, call[c].dpos>>

(***************************************************************************)
(* What the calling thread does to the fields of its call.                 *)
(***************************************************************************)
LEMMA CallerFields ==
  ASSUME Typed, NEW c \in Call
  PROVE  /\ Refuse(c) =>
              /\ call'[c].pc = "returned" /\ call'[c].result = "err"
              /\ UNCHANGED <<call[c].view, call[c].err, call[c].task, Rows(c),
                             Rejects(c)>>
         /\ Start(c) =>
              /\ call'[c].pc = "parsing" /\ call'[c].view = Source(c)
              /\ call'[c].task = [k \in DOMAIN Source(c) |-> "pending"]
              /\ call'[c].writer = "opening"
              /\ call'[c].dl = IF Args(c).dead = NoPath
                               THEN "none" ELSE "opening"
              /\ UNCHANGED <<call[c].result, call[c].err, call[c].chan,
                             call[c].wpos, call[c].dlq, call[c].dpos>>
         /\ Fail(c) =>
              /\ call'[c].pc = "returned" /\ call'[c].result = "err"
              /\ UNCHANGED <<call[c].view, call[c].err, call[c].task, Rows(c),
                             Rejects(c)>>
         /\ Succeed(c) =>
              /\ call'[c].pc = "returned" /\ call'[c].result = "ok"
              /\ call'[c].output_bytes = Len(file[Args(c).output])
              /\ UNCHANGED <<call[c].view, call[c].err, call[c].task, Rows(c),
                             Rejects(c)>>
<1>1. call \in [Call -> CallState] /\ call[c] \in CallState
  BY DEF Typed
<1> USE DEF Rows, Rejects
<1>2. CASE Refuse(c)
  BY <1>1, <1>2 DEF CallState, Refuse, Turn, Start, Fail, Succeed
<1>3. CASE Start(c)
  BY <1>1, <1>3 DEF CallState, Start, Turn, Refuse, Fail, Succeed, Source
<1>4. CASE Fail(c)
  BY <1>1, <1>4 DEF CallState, Fail, Refuse, Turn, Start, Succeed
<1>5. CASE Succeed(c)
  BY <1>1, <1>5 DEF CallState, Succeed, Refuse, Turn, Start, Fail
<1> QED
  BY <1>2, <1>3, <1>4, <1>5

(***************************************************************************)
(* What a worker does to the fields of the call whose chunk it has.        *)
(***************************************************************************)
LEMMA WorkFields ==
  ASSUME Typed, NEW c \in Call, NEW k \in Lines(c), Work(c, k)
  PROVE  /\ Skip(c, k) =>
              /\ call'[c].task = [call[c].task EXCEPT ![k] = "skipped"]
              /\ UNCHANGED <<Caller(c), Rows(c), Rejects(c)>>
         /\ Parse(c, k) =>
              /\ UNCHANGED <<call[c].pc, call[c].result, call[c].view,
                             call[c].output_bytes, Rows(c), call[c].dl,
                             call[c].dpos>>
              /\ \/ /\ IsJson(Mapped(c, k))
                    /\ call'[c].task = [call[c].task EXCEPT ![k] = "sending"]
                    /\ UNCHANGED <<call[c].err, call[c].dlq>>
                 \/ /\ ~IsJson(Mapped(c, k))
                    /\ call'[c].task = [call[c].task EXCEPT ![k] = "done"]
                    /\ call'[c].dlq = IF Args(c).dead = NoPath THEN call[c].dlq
                                      ELSE Append(call[c].dlq, k)
                    /\ UNCHANGED call[c].err
                 \/ /\ call'[c].task = [call[c].task EXCEPT ![k] = "failed"]
                    /\ call'[c].err = k
                    /\ UNCHANGED call[c].dlq
         /\ Fault(c, k) => UNCHANGED call
         /\ Send(c, k) =>
              /\ call'[c].task = [call[c].task EXCEPT ![k] = "done"]
              /\ call'[c].chan = Append(call[c].chan, k)
              /\ UNCHANGED <<Caller(c), call[c].writer, call[c].wpos,
                             Rejects(c)>>
<1>1. call \in [Call -> CallState] /\ call[c] \in CallState
  BY DEF Typed
<1> USE DEF Caller, Rows, Rejects
<1>2. Skip(c, k) =>
        /\ call'[c].task = [call[c].task EXCEPT ![k] = "skipped"]
        /\ UNCHANGED <<Caller(c), Rows(c), Rejects(c)>>
  BY <1>1 DEF CallState, Skip
<1>3. Parse(c, k) =>
        /\ UNCHANGED <<call[c].pc, call[c].result, call[c].view,
                       call[c].output_bytes, Rows(c), call[c].dl,
                       call[c].dpos>>
        /\ \/ /\ IsJson(Mapped(c, k))
              /\ call'[c].task = [call[c].task EXCEPT ![k] = "sending"]
              /\ UNCHANGED <<call[c].err, call[c].dlq>>
           \/ /\ ~IsJson(Mapped(c, k))
              /\ call'[c].task = [call[c].task EXCEPT ![k] = "done"]
              /\ call'[c].dlq = IF Args(c).dead = NoPath THEN call[c].dlq
                                ELSE Append(call[c].dlq, k)
              /\ UNCHANGED call[c].err
           \/ /\ call'[c].task = [call[c].task EXCEPT ![k] = "failed"]
              /\ call'[c].err = k
              /\ UNCHANGED call[c].dlq
  BY <1>1 DEF CallState, Parse
<1>4. Fault(c, k) => UNCHANGED call
  BY DEF Fault
<1>5. Send(c, k) =>
        /\ call'[c].task = [call[c].task EXCEPT ![k] = "done"]
        /\ call'[c].chan = Append(call[c].chan, k)
        /\ UNCHANGED <<Caller(c), call[c].writer, call[c].wpos, Rejects(c)>>
  BY <1>1 DEF CallState, Send
<1> QED
  BY <1>2, <1>3, <1>4, <1>5

(***************************************************************************)
(* What the two threads that write do to the fields of their call.         *)
(***************************************************************************)
LEMMA WriterFields ==
  ASSUME Typed, NEW c \in Call
  PROVE  /\ OpenOutput(c) =>
              /\ call'[c].writer = "recv"
              /\ UNCHANGED <<Caller(c), call[c].task, call[c].chan,
                             call[c].wpos, Rejects(c)>>
         /\ WriteRow(c) =>
              /\ call'[c].chan = Tail(call[c].chan)
              /\ call'[c].wpos = call[c].wpos + 1
              /\ UNCHANGED <<Caller(c), call[c].task, call[c].writer,
                             Rejects(c)>>
         /\ CloseOutput(c) =>
              /\ call'[c].writer = "ok"
              /\ UNCHANGED <<Caller(c), call[c].task, call[c].chan,
                             call[c].wpos, Rejects(c)>>
         /\ OpenDead(c) =>
              /\ call'[c].dl = "recv"
              /\ UNCHANGED <<Caller(c), call[c].task, Rows(c), call[c].dlq,
                             call[c].dpos>>
         /\ WriteDead(c) =>
              /\ call'[c].dlq = Tail(call[c].dlq)
              /\ call'[c].dpos = call[c].dpos + 1
              /\ UNCHANGED <<Caller(c), call[c].task, Rows(c), call[c].dl>>
         /\ CloseDead(c) =>
              /\ call'[c].dl = "ok"
              /\ UNCHANGED <<Caller(c), call[c].task, Rows(c), call[c].dlq,
                             call[c].dpos>>
<1>1. call \in [Call -> CallState] /\ call[c] \in CallState
  BY DEF Typed
<1> USE DEF Caller, Rows, Rejects
<1>2. OpenOutput(c) =>
        /\ call'[c].writer = "recv"
        /\ UNCHANGED <<Caller(c), call[c].task, call[c].chan, call[c].wpos,
                       Rejects(c)>>
  BY <1>1 DEF CallState, OpenOutput
<1>3. WriteRow(c) =>
        /\ call'[c].chan = Tail(call[c].chan)
        /\ call'[c].wpos = call[c].wpos + 1
        /\ UNCHANGED <<Caller(c), call[c].task, call[c].writer, Rejects(c)>>
  BY <1>1 DEF CallState, WriteRow
<1>4. CloseOutput(c) =>
        /\ call'[c].writer = "ok"
        /\ UNCHANGED <<Caller(c), call[c].task, call[c].chan, call[c].wpos,
                       Rejects(c)>>
  BY <1>1 DEF CallState, CloseOutput
<1>5. OpenDead(c) =>
        /\ call'[c].dl = "recv"
        /\ UNCHANGED <<Caller(c), call[c].task, Rows(c), call[c].dlq,
                       call[c].dpos>>
  BY <1>1 DEF CallState, OpenDead
<1>6. WriteDead(c) =>
        /\ call'[c].dlq = Tail(call[c].dlq)
        /\ call'[c].dpos = call[c].dpos + 1
        /\ UNCHANGED <<Caller(c), call[c].task, Rows(c), call[c].dl>>
  BY <1>1 DEF CallState, WriteDead
<1>7. CloseDead(c) =>
        /\ call'[c].dl = "ok"
        /\ UNCHANGED <<Caller(c), call[c].task, Rows(c), call[c].dlq,
                       call[c].dpos>>
  BY <1>1 DEF CallState, CloseDead
<1> QED
  BY <1>2, <1>3, <1>4, <1>5, <1>6, <1>7

(***************************************************************************)
(* A step of call d leaves the other calls alone, and of the files all but *)
(* those that d still has to write.                                        *)
(***************************************************************************)
LEMMA Elsewhere ==
  ASSUME Typed, NEW d \in Call, CallStep(d)
  PROVE  /\ UNCHANGED program
         /\ \A c \in Call \ {d} : call'[c] = call[c]
         /\ \A q : q \notin Written(d) /\ q \in Path => file'[q] = file[q]
         /\ ~Writing(d) => UNCHANGED file
         /\ call[d].pc # "idle" => UNCHANGED alone /\ call'[d].pc # "idle"
<1>1. /\ call \in [Call -> CallState] /\ file \in [Path -> Seq(Block)]
      /\ call[d] \in CallState /\ Args(d) \in Arguments /\ NoPath \notin Path
  BY CallTypes DEF Typed
<1>2. CASE Begin(d)
  BY <1>1, <1>2 DEF Begin, Refuse, Start, Turn, Args
<1>3. ASSUME NEW k \in Lines(d), Work(d, k)
      PROVE  /\ UNCHANGED <<program, file, alone>>
             /\ \A c \in Call \ {d} : call'[c] = call[c]
             /\ call'[d].pc = call[d].pc
  <2>1. UNCHANGED <<program, file, alone>>
    BY <1>3 DEF Work, Skip, Parse, Fault, Send
  <2>2. \A c \in Call \ {d} : call'[c] = call[c]
    BY <1>1, <1>3 DEF Work, Skip, Parse, Fault, Send
  <2>3. call'[d].pc = call[d].pc
    BY <1>3, WorkFields DEF Work, Caller
  <2> QED
    BY <2>1, <2>2, <2>3
<1>4. CASE Write(d)
  <2>1. UNCHANGED <<program, alone>> /\ \A c \in Call \ {d} : call'[c] = call[c]
    BY <1>1, <1>4 DEF Write, OpenOutput, WriteRow, CloseOutput
  <2>2. call'[d].pc = call[d].pc
    BY <1>4, WriterFields DEF Write, Caller
  <2>3. Writing(d)
    BY <1>4 DEF Write, OpenOutput, WriteRow, CloseOutput, Writing
  <2>4. ASSUME NEW q \in Path, q \notin Written(d) PROVE file'[q] = file[q]
    <3>1. q # Args(d).output
      BY <1>1, <2>4 DEF Written, Arguments
    <3> QED
      BY <1>1, <1>4, <2>4, <3>1
      DEF Write, OpenOutput, WriteRow, CloseOutput, Put
  <2> QED
    BY <2>1, <2>2, <2>3, <2>4
<1>5. CASE Quarantine(d)
  <2>1. UNCHANGED <<program, alone>> /\ \A c \in Call \ {d} : call'[c] = call[c]
    BY <1>1, <1>5 DEF Quarantine, OpenDead, WriteDead, CloseDead
  <2>2. call'[d].pc = call[d].pc
    BY <1>5, WriterFields DEF Quarantine, Caller
  <2>3. Writing(d)
    BY <1>5 DEF Quarantine, OpenDead, WriteDead, CloseDead, Writing
  <2>4. ASSUME NEW q \in Path, q \notin Written(d) PROVE file'[q] = file[q]
    <3>1. q # Args(d).dead
      BY <1>1, <2>4 DEF Written
    <3> QED
      BY <1>1, <1>5, <2>4, <3>1
      DEF Quarantine, OpenDead, WriteDead, CloseDead, Put
  <2> QED
    BY <2>1, <2>2, <2>3, <2>4
<1>6. CASE Finish(d)
  <2>1. /\ UNCHANGED <<program, file, alone>>
        /\ \A c \in Call \ {d} : call'[c] = call[c]
    BY <1>1, <1>6 DEF Finish, Fail, Succeed
  <2>2. call'[d].pc = "returned"
    BY <1>6, CallerFields DEF Finish
  <2> QED
    BY <2>1, <2>2
<1> QED
  BY <1>2, <1>3, <1>4, <1>5, <1>6 DEF CallStep

------------------------------------------------------------------------------
Done(c) == {k \in Lines(c) : call[c].task[k] = "done"}

\* No call has sent or written more rows than it has parsed.
Counted ==
  \A c \in Call : call[c].wpos + Len(call[c].chan) <= Cardinality(Done(c)) + 1

\* What the fields of a call say of one another, whoever has its files.
Shape(c) ==
  /\ call[c].pc = "idle" => call[c] = NewCall /\ ~alone[c]
  /\ DOMAIN call[c].task = DOMAIN call[c].view
  /\ \A k \in Lines(c) :
       call[c].task[k] \in {"skipped", "failed"} => call[c].err # 0
  /\ call[c].writer = "ok" => call[c].chan = <<>> /\ LoopOver(c)
  /\ call[c].dl = "ok" => call[c].dlq = <<>> /\ LoopOver(c)
  /\ call[c].dl = "none" => Args(c).dead = NoPath
  /\ call[c].result = "ok" =>
       /\ call[c].err = 0 /\ call[c].writer = "ok"
       /\ call[c].dl \in {"none", "ok"} /\ call[c].pc = "returned"

(***************************************************************************)
(* The lines that are done stay so, and sending ends with a line done.     *)
(***************************************************************************)
LEMMA StepCounted ==
  ASSUME Typed, Counted, NEW c \in Call, CallStep(c),
         call[c].pc = "idle" => call[c] = NewCall
  PROVE  Counted'
<1>1. /\ call \in [Call -> CallState] /\ call[c] \in CallState
      /\ call'[c] \in CallState
      /\ UNCHANGED program /\ \A d \in Call \ {c} : call'[d] = call[d]
  BY Elsewhere, StepTyped DEF Typed, Call
<1>2. \A d \in Call \ {c} : Done(d)' = Done(d)
  BY <1>1 DEF Done, Lines
<1>3. SUFFICES call'[c].wpos + Len(call'[c].chan) <= Cardinality(Done(c)') + 1
  BY <1>1, <1>2 DEF Counted, Call
<1>4. /\ call[c].wpos \in Nat /\ call[c].chan \in Seq(Nat)
      /\ call[c].wpos + Len(call[c].chan) <= Cardinality(Done(c)) + 1
      /\ Len(call[c].chan) \in Nat
  BY <1>1 DEF Counted, CallState
<1>5. /\ Lines(c) = 1 .. Len(call[c].task) /\ Len(call[c].task) \in Nat
      /\ IsFiniteSet(Done(c)) /\ Cardinality(Done(c)) \in Nat
  <2>1. Lines(c) = 1 .. Len(call[c].task) /\ Len(call[c].task) \in Nat
    BY <1>1 DEF CallState, Lines
  <2>2. IsFiniteSet(Lines(c)) /\ Done(c) \in SUBSET Lines(c)
    BY <2>1, FS_Interval DEF Done
  <2> QED
    BY <2>1, <2>2, FS_Subset, FS_CardinalityType
<1>6. ASSUME UNCHANGED <<call[c].task, call[c].wpos, call[c].chan>>
      PROVE  call'[c].wpos + Len(call'[c].chan) <= Cardinality(Done(c)') + 1
  BY <1>4, <1>6 DEF Done, Lines
<1>7. ASSUME NEW k \in Lines(c), Work(c, k)
      PROVE  call'[c].wpos + Len(call'[c].chan) <= Cardinality(Done(c)') + 1
  <2>1. ASSUME NEW t, call[c].task[k] # "done",
               call'[c].task = [call[c].task EXCEPT ![k] = t]
        PROVE  /\ t # "done" => Done(c)' = Done(c)
               /\ t = "done" =>
                    /\ Done(c)' = Done(c) \cup {k}
                    /\ Cardinality(Done(c)') = Cardinality(Done(c)) + 1
    <3>1. k \notin Done(c)
      BY <2>1 DEF Done
    <3>2. t # "done" => Done(c)' = Done(c)
      BY <1>5, <2>1 DEF Done, Lines
    <3>3. t = "done" => Done(c)' = Done(c) \cup {k}
      BY <1>5, <2>1 DEF Done, Lines
    <3>4. Cardinality(Done(c) \cup {k}) = Cardinality(Done(c)) + 1
      BY <1>5, <3>1, FS_AddElement
    <3> QED
      BY <3>2, <3>3, <3>4
  <2>2. CASE Skip(c, k)
    <3>1. /\ call[c].task[k] # "done" /\ UNCHANGED Rows(c)
          /\ call'[c].task = [call[c].task EXCEPT ![k] = "skipped"]
      BY <1>7, <2>2, WorkFields DEF Skip, Pending
    <3>2. Done(c)' = Done(c)
      BY <2>1, <3>1
    <3> QED
      BY <1>4, <3>1, <3>2 DEF Rows
  <2>3. CASE Parse(c, k)
    <3>1. call[c].task[k] # "done"
      BY <2>3 DEF Parse, Pending
    <3>2. UNCHANGED <<call[c].wpos, call[c].chan>>
      BY <1>7, <2>3, WorkFields DEF Rows
    <3>3. PICK t \in {"sending", "done", "failed"} :
                 call'[c].task = [call[c].task EXCEPT ![k] = t]
      <4>1. \/ call'[c].task = [call[c].task EXCEPT ![k] = "sending"]
            \/ call'[c].task = [call[c].task EXCEPT ![k] = "done"]
            \/ call'[c].task = [call[c].task EXCEPT ![k] = "failed"]
        BY <1>7, <2>3, WorkFields
      <4> QED
        BY <4>1
    <3>4. CASE t = "done"
      <4>1. Cardinality(Done(c)') = Cardinality(Done(c)) + 1
        BY <2>1, <3>1, <3>3, <3>4
      <4> QED
        BY <1>4, <1>5, <3>2, <4>1
    <3>5. CASE t # "done"
      <4>1. Done(c)' = Done(c)
        BY <2>1, <3>1, <3>3, <3>5
      <4> QED
        BY <1>4, <3>2, <4>1
    <3> QED
      BY <3>4, <3>5
  <2>4. CASE Send(c, k)
    <3>1. /\ call[c].task[k] # "done" /\ call'[c].wpos = call[c].wpos
          /\ call'[c].chan = Append(call[c].chan, k)
          /\ call'[c].task = [call[c].task EXCEPT ![k] = "done"]
      BY <1>7, <2>4, WorkFields DEF Send
    <3>2. Cardinality(Done(c)') = Cardinality(Done(c)) + 1
      BY <2>1, <3>1
    <3>3. Len(call'[c].chan) = Len(call[c].chan) + 1
      BY <1>4, <3>1
    <3> QED
      BY <1>4, <1>5, <3>1, <3>2, <3>3
  <2>5. CASE Fault(c, k)
    BY <1>6, <2>5 DEF Fault
  <2> QED
    BY <1>7, <2>2, <2>3, <2>4, <2>5 DEF Work
<1>8. CASE WriteRow(c)
  <2>1. /\ call'[c].wpos = call[c].wpos + 1 /\ UNCHANGED call[c].task
        /\ call'[c].chan = Tail(call[c].chan) /\ call[c].chan # <<>>
    BY <1>8, WriterFields DEF WriteRow
  <2>2. Done(c)' = Done(c)
    BY <2>1 DEF Done, Lines
  <2>3. Len(call'[c].chan) = Len(call[c].chan) - 1
    BY <1>4, <2>1
  <2> QED
    BY <1>4, <1>5, <2>1, <2>2, <2>3
<1>9. CASE OpenOutput(c) \/ CloseOutput(c) \/ Quarantine(c) \/ Finish(c)
  BY <1>6, <1>9, WriterFields, CallerFields DEF Quarantine, Finish, Rows
<1>10. CASE Refuse(c)
  BY <1>6, <1>10, CallerFields DEF Rows
<1>11. CASE Start(c)
  <2>1. call[c].wpos = 1 /\ call[c].chan = <<>>
    BY <1>11 DEF Start, Turn, NewCall
  <2>2. call'[c].wpos = 1 /\ call'[c].chan = <<>>
    BY <1>11, <2>1, CallerFields
  <2>3. Done(c)' = {}
    BY <1>11, CallerFields DEF Done, Lines
  <2> QED
    BY <2>2, <2>3, FS_EmptySet
<1> QED
  BY <1>7, <1>8, <1>9, <1>10, <1>11 DEF CallStep, Begin, Write

(***************************************************************************)
(* A call that has not begun has nothing but its beginning to do.          *)
(***************************************************************************)
LEMMA IdleBegins ==
  ASSUME NEW c \in Call, CallStep(c), call[c] = NewCall
  PROVE  Begin(c)
<1>1. /\ call[c].pc = "idle" /\ call[c].writer = "unborn"
      /\ call[c].dl = "unborn" /\ Lines(c) = {}
  BY DEF NewCall, Lines
<1> QED
  BY <1>1
  DEF CallStep, Write, OpenOutput, WriteRow, CloseOutput, Quarantine, OpenDead,
      WriteDead, CloseDead, Finish, Fail, Succeed

(***************************************************************************)
(* Another call that starts may end that c is alone, and nothing starts it.*)
(***************************************************************************)
LEMMA AloneEnds ==
  ASSUME Typed, NEW d \in Call, CallStep(d), Shape(d),
         NEW c \in Call \ {d}, alone'[c]
  PROVE  /\ alone[c]
         /\ call[d].pc = "idle" => Refuse(d) \/ ~Conflict(d, c)
<1>1. CASE call[d].pc # "idle"
  BY <1>1, Elsewhere
<1>2. CASE call[d].pc = "idle"
  BY <1>2, IdleBegins DEF Shape, Begin, Refuse, Start, Alone
<1> QED
  BY <1>1, <1>2

(***************************************************************************)
(* When all chunks of a call are settled no worker has anything to do.     *)
(***************************************************************************)
LEMMA NoWorkLeft ==
  ASSUME NEW c \in Call, LoopOver(c), NEW k \in Lines(c)
  PROVE  ~Work(c, k)
  BY DEF LoopOver, Settled, Work, Skip, Parse, Fault, Send, Pending

(***************************************************************************)
(* Every step keeps the fields of every call in their shape.               *)
(***************************************************************************)
LEMMA StepShape ==
  ASSUME Typed, NEW c \in Call, CallStep(c), \A d \in Call : Shape(d)
  PROVE  \A d \in Call' : Shape(d)'
<1>1. /\ UNCHANGED program /\ \A d \in Call \ {c} : call'[d] = call[d]
      /\ \A d \in Call \ {c} : alone'[d] => alone[d]
      /\ Call' = Call
  BY Elsewhere, AloneEnds DEF Call
<1>2. \A d \in Call \ {c} : Shape(d)'
  BY <1>1 DEF Shape, LoopOver, Lines, Args
<1> SUFFICES Shape(c)'
  BY <1>1, <1>2
<1>3. call[c] \in CallState /\ Typed' /\ Shape(c)
  BY StepTyped DEF Typed
<1>4. CASE call[c].pc = "idle"
  <2>1. call[c] = NewCall /\ Begin(c)
    BY <1>4, IdleBegins DEF Shape
  <2>2. CASE Refuse(c)
    <3>1. /\ call'[c].pc = "returned" /\ call'[c].result = "err"
          /\ call'[c].view = <<>> /\ call'[c].task = <<>>
          /\ call'[c].writer = "unborn" /\ call'[c].dl = "unborn"
      <4>1. /\ call[c].view = <<>> /\ call[c].task = <<>>
            /\ call[c].writer = "unborn" /\ call[c].dl = "unborn"
        BY <2>1 DEF NewCall
      <4> QED
        BY <2>2, <4>1, CallerFields DEF Rows, Rejects
    <3> QED
      BY <3>1 DEF Shape, Lines
  <2>3. CASE Start(c)
    <3>1. /\ call'[c].pc = "parsing" /\ call'[c].writer = "opening"
          /\ call'[c].result = "none" /\ call'[c].view = Source(c)
          /\ call'[c].task = [k \in DOMAIN Source(c) |-> "pending"]
          /\ call'[c].dl = IF Args(c).dead = NoPath THEN "none" ELSE "opening"
      BY <2>1, <2>3, CallerFields DEF NewCall
    <3> QED
      BY <1>1, <3>1 DEF Shape, Lines, Args
  <2> QED
    BY <2>1, <2>2, <2>3 DEF Begin
<1>5. CASE call[c].pc # "idle"
  <2>1. call'[c].pc # "idle"
    BY <1>5, Elsewhere
  <2>2. ASSUME UNCHANGED <<call[c].task, call[c].view, call[c].err>>
        PROVE  /\ DOMAIN call'[c].task = DOMAIN call'[c].view
               /\ \A k \in Lines(c)' : call'[c].task[k] \in {"skipped", "failed"}
                                         => call'[c].err # 0
               /\ LoopOver(c) => LoopOver(c)'
    BY <2>1, <2>2, <1>3 DEF Shape, Lines, LoopOver
  <2>3. ASSUME NEW k \in Lines(c), Work(c, k) PROVE Shape(c)'
    <3>1. call[c].writer # "ok" /\ call[c].dl # "ok" /\ call[c].result # "ok"
      BY <1>3, <2>3, NoWorkLeft DEF Shape
    <3>2. /\ call[c].task \in Seq({"pending", "sending"} \cup Settled)
          /\ k \in Nat \ {0}
      BY <1>3, <2>3 DEF CallState, Lines
    <3>3. /\ DOMAIN call'[c].task = DOMAIN call[c].task
          /\ UNCHANGED <<call[c].view, call[c].writer, call[c].dl,
                         call[c].result, call[c].pc>>
      BY <2>3, <3>2, WorkFields DEF Work, Caller, Rows, Rejects
    <3>4. \A j \in Lines(c)' :
            call'[c].task[j] \in {"skipped", "failed"} => call'[c].err # 0
      <4>1. CASE Skip(c, k)
        BY <1>3, <2>3, <3>2, <4>1, WorkFields DEF Skip, Shape, Lines, Caller
      <4>2. CASE Parse(c, k)
        <5>1. /\ \A j \in Lines(c) : call[c].task[j] \notin {"skipped", "failed"}
              /\ call[c].err = 0
          BY <1>3, <4>2 DEF Parse, Shape
        <5>2. \/ \E t \in {"sending", "done"} :
                   call'[c].task = [call[c].task EXCEPT ![k] = t]
              \/ /\ call'[c].task = [call[c].task EXCEPT ![k] = "failed"]
                 /\ call'[c].err # 0
          BY <2>3, <3>2, <4>2, WorkFields
        <5> QED
          BY <5>1, <5>2 DEF Lines
      <4>3. CASE Send(c, k)
        <5>1. /\ call'[c].task = [call[c].task EXCEPT ![k] = "done"]
              /\ UNCHANGED call[c].err
          BY <2>3, <4>3, WorkFields DEF Caller
        <5> QED
          BY <1>3, <5>1 DEF Shape, Lines
      <4>4. CASE Fault(c, k)
        BY <1>3, <4>4 DEF Fault, Shape, Lines
      <4> QED
        BY <2>3, <4>1, <4>2, <4>3, <4>4 DEF Work
    <3> QED
      BY <1>1, <1>3, <2>1, <3>1, <3>3, <3>4 DEF Shape, Lines, Args
  <2>4. CASE OpenOutput(c) \/ WriteRow(c)
    <3>1. /\ UNCHANGED <<call[c].task, call[c].view, call[c].err, call[c].dl,
                         call[c].dlq, call[c].pc, call[c].result>>
          /\ call[c].writer # "ok" /\ call'[c].writer = "recv"
      BY <2>4, WriterFields DEF Caller, Rejects, OpenOutput, WriteRow
    <3> QED
      BY <1>1, <1>3, <2>1, <2>2, <3>1 DEF Shape, Args
  <2>5. CASE CloseOutput(c)
    <3>1. /\ UNCHANGED <<call[c].task, call[c].view, call[c].err, call[c].dl,
                         call[c].dlq, call[c].pc, call[c].result>>
          /\ call'[c].writer = "ok" /\ call'[c].chan = <<>> /\ LoopOver(c)
          /\ call[c].writer # "ok"
      BY <2>5, WriterFields DEF Caller, Rejects, CloseOutput
    <3> QED
      BY <1>1, <1>3, <2>1, <2>2, <3>1 DEF Shape, Args
  <2>6. CASE OpenDead(c) \/ WriteDead(c)
    <3>1. /\ UNCHANGED <<call[c].task, call[c].view, call[c].err, Rows(c),
                         call[c].pc, call[c].result>>
          /\ call[c].dl \notin {"none", "ok"} /\ call'[c].dl = "recv"
      BY <2>6, WriterFields DEF Caller, OpenDead, WriteDead
    <3> QED
      BY <1>1, <1>3, <2>1, <2>2, <3>1 DEF Shape, Args, Rows
  <2>7. CASE CloseDead(c)
    <3>1. /\ UNCHANGED <<call[c].task, call[c].view, call[c].err, Rows(c),
                         call[c].pc, call[c].result>>
          /\ call'[c].dl = "ok" /\ call'[c].dlq = <<>> /\ LoopOver(c)
          /\ call[c].dl = "recv"
      BY <2>7, WriterFields DEF Caller, CloseDead
    <3> QED
      BY <1>1, <1>3, <2>1, <2>2, <3>1 DEF Shape, Args, Rows
  <2>8. CASE Finish(c)
    <3>1. /\ UNCHANGED <<call[c].task, call[c].view, call[c].err, Rows(c),
                         Rejects(c)>>
          /\ call'[c].pc = "returned"
          /\ \/ call'[c].result = "err"
             \/ /\ call[c].err = 0 /\ call[c].writer = "ok"
                /\ call[c].dl \in {"none", "ok"}
      BY <2>8, CallerFields DEF Finish, Succeed
    <3> QED
      BY <1>1, <1>3, <2>1, <2>2, <3>1 DEF Shape, Args, Rows, Rejects
  <2>9. ~Begin(c)
    BY <1>5 DEF Begin, Refuse, Start, Turn
  <2> QED
    BY <2>3, <2>4, <2>5, <2>6, <2>7, <2>8, <2>9
    DEF CallStep, Write, Quarantine
<1> QED
  BY <1>4, <1>5

------------------------------------------------------------------------------
(* Who has a file in use.                                                  *)

\* While c is alone its files are its own, and each has one use.
Apart(c) ==
  alone[c] =>
    /\ Args(c).input \notin Written(c) /\ Args(c).output # Args(c).dead
    /\ \A d \in Call \ {c} :
         call[d].pc # "idle" /\ ~Ended(d) => ~Conflict(c, d)

(***************************************************************************)
(* A conflict is one of both calls.                                        *)
(***************************************************************************)
LEMMA ConflictBothWays ==
  \A c, d : Conflict(c, d) <=> Conflict(d, c)
  BY DEF Conflict

(***************************************************************************)
(* A call that has ended writes nothing, and never has to again.           *)
(***************************************************************************)
LEMMA EndedStays ==
  ASSUME Typed, NEW c \in Call, CallStep(c), Shape(c), Ended(c)
  PROVE  ~Writing(c) /\ Ended(c)'
<1>1. /\ call[c].pc = "returned" /\ call[c].writer \in {"unborn", "ok"}
      /\ call[c].dl \in {"unborn", "none", "ok"}
  BY DEF Ended
<1>2. \E k \in Lines(c) : Work(c, k)
  BY <1>1
  DEF CallStep, Begin, Refuse, Start, Turn, Write, OpenOutput, WriteRow,
      CloseOutput, Quarantine, OpenDead, WriteDead, CloseDead, Finish, Fail,
      Succeed
<1>3. PICK k \in Lines(c) : Work(c, k)
  BY <1>2
<1>4. UNCHANGED <<call[c].pc, call[c].writer, call[c].dl>>
  BY <1>3, WorkFields DEF Work, Caller, Rows, Rejects
<1> QED
  BY <1>1, <1>4 DEF Ended, Writing

(***************************************************************************)
(* A call that writes has begun and has not ended.                         *)
(***************************************************************************)
LEMMA WritersHaveFiles ==
  ASSUME NEW c \in Call, Shape(c), Writing(c)
  PROVE  call[c].pc # "idle" /\ ~Ended(c)
  BY DEF Shape, NewCall, Writing, Ended

(***************************************************************************)
(* No other call gets at the files of a call that is alone.                *)
(***************************************************************************)
LEMMA StepApart ==
  ASSUME Typed, NEW c \in Call, CallStep(c),
         \A d \in Call : Shape(d) /\ Apart(d)
  PROVE  \A d \in Call' : Apart(d)'
<1>1. /\ UNCHANGED program /\ \A d \in Call \ {c} : call'[d] = call[d]
      /\ Call' = Call
      /\ call[c].pc # "idle" => UNCHANGED alone /\ call'[c].pc # "idle"
  BY Elsewhere DEF Call
<1>2. /\ \A d : Args(d)' = Args(d) /\ Written(d)' = Written(d)
      /\ \A d, e : Conflict(d, e)' = Conflict(d, e)
      /\ \A d \in Call \ {c} : Ended(d)' = Ended(d)
  BY <1>1 DEF Args, Written, Conflict, Ended
<1>3. ASSUME alone'[c] PROVE Apart(c)'
  <2>1. CASE call[c].pc = "idle"
    <3>1. Start(c)
      BY <1>3, <2>1, IdleBegins DEF Shape, Begin, Refuse
    <3>2. /\ Args(c).input \notin Written(c) /\ Args(c).output # Args(c).dead
          /\ \A d \in Call \ {c} :
               call[d].pc # "idle" /\ ~Ended(d) => ~Conflict(c, d)
      BY <1>3, <3>1 DEF Start, Alone
    <3> QED
      BY <1>1, <1>2, <3>2 DEF Apart
  <2>2. CASE call[c].pc # "idle"
    BY <1>1, <1>2, <1>3, <2>2 DEF Apart
  <2> QED
    BY <2>1, <2>2
<1>4. ASSUME NEW d \in Call \ {c}, alone'[d] PROVE Apart(d)'
  <2>1. alone[d] /\ Apart(d)
    BY <1>4, AloneEnds
  <2>2. ASSUME call'[c].pc # "idle", ~Ended(c)' PROVE ~Conflict(d, c)
    <3>1. CASE call[c].pc = "idle"
      <4>1. ~Refuse(c)
        <5>1. ASSUME Refuse(c) PROVE Ended(c)'
          <6>1. call[c] = NewCall
            BY <3>1 DEF Shape
          <6>2. call[c].writer = "unborn" /\ call[c].dl = "unborn"
            BY <6>1 DEF NewCall
          <6> QED
            BY <5>1, <6>2, CallerFields DEF Ended, Rows, Rejects
        <5> QED
          BY <2>2, <5>1
      <4> QED
        BY <1>4, <3>1, <4>1, AloneEnds, ConflictBothWays
    <3>2. CASE call[c].pc # "idle"
      <4>1. ~Ended(c)
        BY <2>2, EndedStays
      <4> QED
        BY <2>1, <3>2, <4>1 DEF Apart
    <3> QED
      BY <3>1, <3>2
  <2>3. ASSUME NEW e \in Call \ {d}, call'[e].pc # "idle", ~Ended(e)'
        PROVE  ~Conflict(d, e)
    <3>1. CASE e = c
      BY <2>2, <2>3, <3>1
    <3>2. CASE e # c
      BY <1>1, <1>2, <2>1, <2>3, <3>2 DEF Apart
    <3> QED
      BY <3>1, <3>2
  <2> QED
    BY <1>1, <1>2, <2>1, <2>3 DEF Apart
<1> QED
  BY <1>1, <1>3, <1>4 DEF Apart

(***************************************************************************)
(* So the steps of another call leave every file of c as it is, and those  *)
(* of c its input.                                                         *)
(***************************************************************************)
LEMMA FilesKept ==
  ASSUME Typed, NEW d \in Call, CallStep(d), Shape(d),
         NEW c \in Call, Apart(c), alone[c]
  PROVE  /\ file'[Args(c).input] = file[Args(c).input]
         /\ c # d =>
              /\ file'[Args(c).output] = file[Args(c).output]
              /\ Args(c).dead # NoPath => file'[Args(c).dead] = file[Args(c).dead]
<1>1. /\ Args(c).input \in Path /\ Args(c).output \in Path
      /\ Args(c).dead \in Path \cup {NoPath} /\ NoPath \notin Path
  BY CallTypes DEF Typed, Arguments
<1>2. CASE ~Writing(d)
  BY <1>2, Elsewhere
<1>3. CASE Writing(d) /\ c = d
  BY <1>1, <1>3, Elsewhere DEF Apart
<1>4. CASE Writing(d) /\ c # d
  <2>1. ~Conflict(c, d)
    BY <1>4, WritersHaveFiles DEF Apart
  <2>2. /\ Args(c).input \notin Written(d) /\ Args(c).output \notin Written(d)
        /\ Args(c).dead # NoPath => Args(c).dead \notin Written(d)
    BY <1>1, <2>1 DEF Conflict, Written
  <2> QED
    BY <1>1, <1>4, <2>2, Elsewhere
<1> QED
  BY <1>2, <1>3, <1>4

\* While c is alone its input is what was hashed.
Undisturbed(c) ==
  alone[c] =>
    /\ Source(c) = call[c].view
    /\ \A k \in Lines(c) :
         call[c].task[k] = "sending" => IsJson(call[c].view[k])

(***************************************************************************)
(* A call that is alone parses what was hashed.                            *)
(***************************************************************************)
LEMMA StepUndisturbed ==
  ASSUME Typed, NEW c \in Call, CallStep(c),
         \A d \in Call : Shape(d) /\ Apart(d) /\ Undisturbed(d)
  PROVE  \A d \in Call' : Undisturbed(d)'
<1>1. /\ UNCHANGED program /\ \A d \in Call \ {c} : call'[d] = call[d]
      /\ Call' = Call
      /\ call[c].pc # "idle" => UNCHANGED alone
  BY Elsewhere DEF Call
<1>2. ASSUME NEW d \in Call \ {c}, alone'[d] PROVE Undisturbed(d)'
  <2>1. alone[d]
    BY <1>2, AloneEnds
  <2>2. file'[Args(d).input] = file[Args(d).input] /\ Args(d)' = Args(d)
    BY <1>1, <2>1, FilesKept DEF Args
  <2> QED
    BY <1>1, <2>1, <2>2 DEF Undisturbed, Source, Lines
<1>3. ASSUME alone'[c] PROVE Undisturbed(c)'
  <2>1. CASE call[c].pc = "idle"
    <3>1. Start(c)
      BY <1>3, <2>1, IdleBegins DEF Shape, Begin, Refuse
    <3>2. /\ call'[c].view = Source(c) /\ Source(c)' = Source(c)
          /\ call'[c].task = [k \in DOMAIN Source(c) |-> "pending"]
      BY <1>1, <3>1, CallerFields DEF Start, Source, Args
    <3> QED
      BY <3>2 DEF Undisturbed, Lines
  <2>2. CASE call[c].pc # "idle"
    <3>1. alone[c] /\ Shape(c) /\ Source(c) = call[c].view
      BY <1>1, <1>3, <2>2 DEF Undisturbed
    <3>2. Source(c)' = Source(c)
      BY <1>1, <3>1, FilesKept DEF Source, Args
    <3>3. ~Begin(c)
      BY <2>2 DEF Begin, Refuse, Start, Turn
    <3>4. UNCHANGED call[c].view
      BY <3>3, CallerFields, WorkFields, WriterFields
      DEF CallStep, Finish, Work, Write, Quarantine, Caller
    <3>5. call[c].task \in Seq({"pending", "sending"} \cup Settled)
      BY DEF Typed, CallState
    <3>6. ASSUME NEW k \in Lines(c), Work(c, k), NEW j \in Lines(c)',
                 call'[c].task[j] = "sending"
          PROVE  IsJson(call[c].view[j])
      <4>1. CASE Parse(c, k) /\ j = k
        <5>1. k <= Len(Source(c))
          <6>1. k \in DOMAIN call[c].view /\ call[c].view \in Seq(Block)
            BY <3>1, <3>6 DEF Shape, Lines, Typed, CallState
          <6> QED
            BY <3>1, <6>1
        <5>2. Mapped(c, k) = call[c].view[k]
          BY <3>1, <5>1 DEF Mapped
        <5>3. \/ IsJson(Mapped(c, k))
              \/ call'[c].task = [call[c].task EXCEPT ![k] = "done"]
              \/ call'[c].task = [call[c].task EXCEPT ![k] = "failed"]
          BY <3>6, <4>1, WorkFields
        <5> QED
          BY <3>5, <3>6, <4>1, <5>2, <5>3 DEF Lines
      <4>2. CASE ~(Parse(c, k) /\ j = k)
        <5>1. \/ UNCHANGED call[c].task
              \/ \E t \in {"skipped", "done"} :
                   call'[c].task = [call[c].task EXCEPT ![k] = t]
              \/ j # k /\ \E t \in {"sending", "done", "failed"} :
                            call'[c].task = [call[c].task EXCEPT ![k] = t]
          BY <3>6, <4>2, WorkFields DEF Work
        <5>2. j \in Lines(c) /\ call[c].task[j] = "sending"
          BY <3>5, <3>6, <5>1 DEF Lines
        <5> QED
          BY <3>1, <5>2 DEF Undisturbed
      <4> QED
        BY <4>1, <4>2
    <3>7. CASE \E k \in Lines(c) : Work(c, k)
      BY <3>1, <3>2, <3>4, <3>6, <3>7 DEF Undisturbed
    <3>8. CASE Write(c) \/ Quarantine(c) \/ Finish(c)
      <4>1. UNCHANGED call[c].task
        BY <3>8, CallerFields, WriterFields DEF Finish, Write, Quarantine
      <4> QED
        BY <3>1, <3>2, <3>4, <4>1 DEF Undisturbed, Lines
    <3> QED
      BY <3>3, <3>7, <3>8 DEF CallStep
  <2> QED
    BY <2>1, <2>2
<1> QED
  BY <1>1, <1>2, <1>3 DEF Undisturbed

------------------------------------------------------------------------------
(* What is written of what was sent.                                       *)

\* The first n blocks of a file are some of the lines, each at most once; the
\* other lines wait in the queue.
Delivered(c, what, content, n, queue, lines) ==
  /\ \A i \in 1 .. n :
       \E k \in lines : content[i] = [by |-> c, what |-> what, line |-> k]
  /\ \A i, j \in 1 .. n : content[i] = content[j] => i = j
  /\ \A j \in DOMAIN queue : queue[j] \in lines
  /\ \A i, j \in DOMAIN queue : queue[i] = queue[j] => i = j
  /\ \A i \in 1 .. n, j \in DOMAIN queue : content[i].line # queue[j]
  /\ \A k \in lines : \/ \E i \in 1 .. n : content[i].line = k
                      \/ \E j \in DOMAIN queue : queue[j] = k

(***************************************************************************)
(* Nothing is delivered before anything is sent.                           *)
(***************************************************************************)
LEMMA DeliverNothing ==
  \A c, what, content : Delivered(c, what, content, 0, <<>>, {})
  BY DEF Delivered

(***************************************************************************)
(* Delivery is about the first n blocks only.                              *)
(***************************************************************************)
LEMMA DeliverKeeps ==
  ASSUME NEW c, NEW what, NEW content, NEW other, NEW n, NEW queue, NEW lines,
         Delivered(c, what, content, n, queue, lines),
         \A i \in 1 .. n : other[i] = content[i]
  PROVE  Delivered(c, what, other, n, queue, lines)
  BY DEF Delivered

(***************************************************************************)
(* A new line is sent.                                                     *)
(***************************************************************************)
LEMMA DeliverSend ==
  ASSUME NEW c, NEW what, NEW content, NEW n, NEW queue \in Seq(Nat),
         NEW lines, NEW k \in Nat, k \notin lines,
         Delivered(c, what, content, n, queue, lines)
  PROVE  Delivered(c, what, content, n, Append(queue, k), lines \cup {k})
<1> DEFINE q == Append(queue, k)
<1>1. /\ Len(queue) \in Nat /\ DOMAIN queue = 1 .. Len(queue)
      /\ DOMAIN q = 1 .. Len(queue) + 1
      /\ \A j \in 1 .. Len(queue) : q[j] = queue[j]
      /\ q[Len(queue) + 1] = k
  OBVIOUS
<1>2. \A j \in DOMAIN q : j \in DOMAIN queue \/ j = Len(queue) + 1
  BY <1>1
<1>3. ASSUME NEW i \in 1 .. n PROVE content[i].line \in lines
  <2>1. PICK l \in lines : content[i] = [by |-> c, what |-> what, line |-> l]
    BY DEF Delivered
  <2> QED
    BY <2>1
<1> HIDE DEF q
<1>4. \A j \in DOMAIN q : q[j] \in lines \cup {k}
  BY <1>1, <1>2 DEF Delivered
<1>5. \A i, j \in DOMAIN q : q[i] = q[j] => i = j
  BY <1>1, <1>2 DEF Delivered
<1>6. \A i \in 1 .. n, j \in DOMAIN q : content[i].line # q[j]
  BY <1>1, <1>2, <1>3 DEF Delivered
<1>7. \A l \in lines \cup {k} : \/ \E i \in 1 .. n : content[i].line = l
                                \/ \E j \in DOMAIN q : q[j] = l
  BY <1>1 DEF Delivered
<1>8. \A i \in 1 .. n :
        \E l \in lines \cup {k} :
          content[i] = [by |-> c, what |-> what, line |-> l]
  BY DEF Delivered
<1>9. \A i, j \in 1 .. n : content[i] = content[j] => i = j
  BY DEF Delivered
<1>10. Delivered(c, what, content, n, q, lines \cup {k})
  BY <1>4, <1>5, <1>6, <1>7, <1>8, <1>9 DEF Delivered
<1> QED
  BY <1>10 DEF q

(***************************************************************************)
(* The first line of the queue is written behind what was written before.  *)
(***************************************************************************)
LEMMA DeliverWrite ==
  ASSUME NEW c, NEW what, NEW content, NEW other, NEW n \in Nat,
         NEW queue \in Seq(Nat), NEW lines, queue # <<>>,
         Delivered(c, what, content, n, queue, lines),
         \A i \in 1 .. n : other[i] = content[i],
         other[n + 1] = [by |-> c, what |-> what, line |-> Head(queue)]
  PROVE  Delivered(c, what, other, n + 1, Tail(queue), lines)
<1> DEFINE q == Tail(queue)
           k == Head(queue)
<1>1. /\ DOMAIN queue = 1 .. Len(queue) /\ Len(queue) \in Nat \ {0}
      /\ DOMAIN q = 1 .. Len(queue) - 1 /\ k = queue[1]
      /\ \A j \in DOMAIN q : q[j] = queue[j + 1] /\ j + 1 \in DOMAIN queue
      /\ \A j \in DOMAIN queue : j # 1 => j - 1 \in DOMAIN q
  OBVIOUS
<1>2. other[n + 1].line = k
  OBVIOUS
<1>3. \A i \in 1 .. n + 1 : i \in 1 .. n \/ i = n + 1
  OBVIOUS
<1> HIDE DEF q, k
<1>4. k \in lines /\ \A i \in 1 .. n : content[i].line # k
  BY <1>1 DEF Delivered
<1>5. ASSUME NEW i \in 1 .. n + 1
      PROVE  \E l \in lines : other[i] = [by |-> c, what |-> what, line |-> l]
  <2>1. CASE i \in 1 .. n
    <3>1. PICK l \in lines : content[i] = [by |-> c, what |-> what, line |-> l]
      BY <2>1 DEF Delivered
    <3> QED
      BY <2>1, <3>1
  <2>2. CASE i = n + 1
    <3>1. other[i] = [by |-> c, what |-> what, line |-> k]
      BY <2>2 DEF k
    <3> QED
      BY <1>4, <3>1
  <2> QED
    BY <1>3, <2>1, <2>2
<1>6. \A i, j \in 1 .. n + 1 : other[i] = other[j] => i = j
  <2> SUFFICES ASSUME NEW i \in 1 .. n + 1, NEW j \in 1 .. n + 1,
                      other[i] = other[j]
               PROVE  i = j
    OBVIOUS
  <2>1. CASE i \in 1 .. n /\ j \in 1 .. n
    BY <2>1 DEF Delivered
  <2>2. CASE i = n + 1 \/ j = n + 1
    BY <1>2, <1>3, <1>4, <2>2
  <2> QED
    BY <1>3, <2>1, <2>2
<1>7. \A j \in DOMAIN q : q[j] \in lines
  BY <1>1 DEF Delivered
<1>8. \A i, j \in DOMAIN q : q[i] = q[j] => i = j
  <2> SUFFICES ASSUME NEW i \in DOMAIN q, NEW j \in DOMAIN q, q[i] = q[j]
               PROVE  i = j
    OBVIOUS
  <2>1. i + 1 = j + 1
    BY <1>1 DEF Delivered
  <2> QED
    BY <1>1, <2>1
<1>9. \A i \in 1 .. n + 1, j \in DOMAIN q : other[i].line # q[j]
  <2> SUFFICES ASSUME NEW i \in 1 .. n + 1, NEW j \in DOMAIN q
               PROVE  other[i].line # queue[j + 1]
    BY <1>1
  <2>1. CASE i \in 1 .. n
    BY <1>1, <2>1 DEF Delivered
  <2>2. CASE i = n + 1
    <3>1. j + 1 # 1 /\ 1 \in DOMAIN queue /\ j + 1 \in DOMAIN queue
      BY <1>1
    <3>2. queue[j + 1] # queue[1]
      BY <3>1 DEF Delivered
    <3> QED
      BY <1>1, <1>2, <2>2, <3>2
  <2> QED
    BY <1>3, <2>1, <2>2
<1>10. ASSUME NEW l \in lines
       PROVE  \/ \E i \in 1 .. n + 1 : other[i].line = l
              \/ \E j \in DOMAIN q : q[j] = l
  <2>1. CASE \E i \in 1 .. n : content[i].line = l
    BY <2>1
  <2>2. CASE \E j \in DOMAIN queue : queue[j] = l
    <3>1. PICK j \in DOMAIN queue : queue[j] = l
      BY <2>2
    <3>2. CASE j = 1
      BY <1>1, <1>2, <3>1, <3>2
    <3>3. CASE j # 1
      <4>1. j - 1 \in DOMAIN q /\ (j - 1) + 1 = j
        BY <1>1, <3>3
      <4> QED
        BY <1>1, <3>1, <4>1
    <3> QED
      BY <3>2, <3>3
  <2> QED
    BY <2>1, <2>2 DEF Delivered
<1> QED
  <2>1. Delivered(c, what, other, n + 1, q, lines)
    BY <1>5, <1>6, <1>7, <1>8, <1>9, <1>10 DEF Delivered
  <2> QED
    BY <2>1 DEF q

(***************************************************************************)
(* With nothing left in the queue, every line is written exactly once.     *)
(***************************************************************************)
LEMMA DeliverAll ==
  ASSUME NEW c, NEW what, NEW content, NEW n \in Nat, NEW lines,
         IsFiniteSet(lines), Delivered(c, what, content, n, <<>>, lines)
  PROVE  /\ {content[i] : i \in 1 .. n} =
              {[by |-> c, what |-> what, line |-> k] : k \in lines}
         /\ n = Cardinality(lines)
<1> DEFINE f == [i \in 1 .. n |-> content[i].line]
<1>1. \A i \in 1 .. n :
        \E k \in lines : content[i] = [by |-> c, what |-> what, line |-> k]
  BY DEF Delivered
<1>2. \A k \in lines : \E i \in 1 .. n : content[i].line = k
  BY DEF Delivered
<1>3. ASSUME NEW i \in 1 .. n
      PROVE  /\ content[i].line \in lines
             /\ content[i] = [by |-> c, what |-> what, line |-> content[i].line]
  <2>1. PICK l \in lines : content[i] = [by |-> c, what |-> what, line |-> l]
    BY <1>1
  <2> QED
    BY <2>1
<1>4. {content[i] : i \in 1 .. n} =
        {[by |-> c, what |-> what, line |-> k] : k \in lines}
  <2>1. ASSUME NEW i \in 1 .. n
        PROVE  content[i] \in
                 {[by |-> c, what |-> what, line |-> k] : k \in lines}
    BY <1>1
  <2>2. ASSUME NEW k \in lines
        PROVE  [by |-> c, what |-> what, line |-> k]
                 \in {content[i] : i \in 1 .. n}
    BY <1>2, <1>3
  <2> QED
    BY <2>1, <2>2
<1>5. f \in Bijection(1 .. n, lines)
  <2>1. f \in [1 .. n -> lines]
    BY <1>3
  <2>2. \A i, j \in 1 .. n : f[i] = f[j] => i = j
    <3> SUFFICES ASSUME NEW i \in 1 .. n, NEW j \in 1 .. n,
                        content[i].line = content[j].line
                 PROVE  i = j
      OBVIOUS
    <3>1. content[i] = content[j]
      BY <1>3
    <3> QED
      BY <3>1 DEF Delivered
  <2>3. \A k \in lines : \E i \in 1 .. n : f[i] = k
    BY <1>2
  <2> HIDE DEF f
  <2> QED
    BY <2>1, <2>2, <2>3 DEF Bijection, Injection, Surjection, IsInjective
<1>6. n = Cardinality(lines)
  <2>1. IsFiniteSet(1 .. n) /\ Cardinality(1 .. n) = n
    BY FS_Interval
  <2>2. f \in Surjection(1 .. n, lines) /\ f \in Injection(1 .. n, lines)
    BY <1>5 DEF Bijection
  <2> HIDE DEF f
  <2> QED
    BY <2>1, <2>2, FS_Surjection
<1> QED
  BY <1>4, <1>6

(***************************************************************************)
(* A write right behind the end of a file keeps what is in it.             *)
(***************************************************************************)
LEMMA PutAppends ==
  ASSUME NEW content \in Seq(Block), NEW pos \in Nat, NEW block,
         Len(content) = pos - 1
  PROVE  LET put == PutAt(content, pos, block)
         IN  /\ Len(put) = pos /\ put[pos] = block
             /\ \A i \in 1 .. pos - 1 : put[i] = content[i]
<1>1. PutAt(content, pos, block) =
        [i \in 1 .. pos |-> IF i = pos THEN block
                            ELSE IF i <= Len(content) THEN content[i] ELSE Hole]
  BY DEF PutAt
<1>2. pos \in 1 .. pos /\ \A i \in 1 .. pos - 1 : i \in 1 .. pos /\ i # pos
  OBVIOUS
<1> QED
  BY <1>1, <1>2

\* The lines of c that a worker is done with: those it sent, and the others.
DoneAs(c, json) == Done(c) \cap Due(c, json)

\* What a worker's step adds to the lines that are done, and to the channels.
SendsRow(c, k) ==
  /\ k \notin DoneAs(c, TRUE)
  /\ DoneAs(c, TRUE)' = DoneAs(c, TRUE) \cup {k}
  /\ call'[c].chan = Append(call[c].chan, k)
  /\ UNCHANGED <<DoneAs(c, FALSE), call[c].dlq>>

SendsReject(c, k) ==
  /\ k \notin DoneAs(c, FALSE)
  /\ DoneAs(c, FALSE)' = DoneAs(c, FALSE) \cup {k}
  /\ call'[c].dlq = IF Args(c).dead = NoPath THEN call[c].dlq
                    ELSE Append(call[c].dlq, k)
  /\ UNCHANGED <<DoneAs(c, TRUE), call[c].chan>>

SendsNothing(c) ==
  UNCHANGED <<DoneAs(c, TRUE), DoneAs(c, FALSE), call[c].chan, call[c].dlq>>

(***************************************************************************)
(* In a call that is alone, a worker sends a line with the step that is    *)
(* done with it, to the thread that is meant for it.                       *)
(***************************************************************************)
LEMMA WorkDelivers ==
  ASSUME Typed, NEW c \in Call, NEW k \in Lines(c), Work(c, k), Shape(c),
         Undisturbed(c), alone[c]
  PROVE  SendsRow(c, k) \/ SendsReject(c, k) \/ SendsNothing(c)
<1>1. /\ call[c].task \in Seq({"pending", "sending"} \cup Settled)
      /\ call[c].view \in Seq(Block) /\ Lines(c) = DOMAIN call[c].view
      /\ Source(c) = call[c].view /\ k \in 1 .. Len(call[c].view)
  BY DEF Typed, CallState, Shape, Undisturbed, Lines
<1>2. UNCHANGED <<call[c].view, Due(c, TRUE), Due(c, FALSE)>>
  <2>1. UNCHANGED call[c].view
    BY WorkFields DEF Work, Caller
  <2> QED
    BY <2>1 DEF Due
<1>3. ASSUME NEW t, call'[c].task = [call[c].task EXCEPT ![k] = t],
             call[c].task[k] # "done"
      PROVE  /\ k \notin Done(c)
             /\ t # "done" => Done(c)' = Done(c)
             /\ t = "done" => Done(c)' = Done(c) \cup {k}
  BY <1>1, <1>3 DEF Done, Lines
<1>4. CASE Skip(c, k)
  <2>1. /\ call'[c].task = [call[c].task EXCEPT ![k] = "skipped"]
        /\ call[c].task[k] # "done" /\ UNCHANGED <<Rows(c), Rejects(c)>>
    BY <1>4, WorkFields DEF Skip, Pending
  <2> QED
    BY <1>2, <1>3, <2>1 DEF SendsNothing, DoneAs, Rows, Rejects
<1>5. CASE Parse(c, k)
  <2>1. /\ call[c].task[k] # "done" /\ Mapped(c, k) = call[c].view[k]
        /\ UNCHANGED call[c].chan
    <3>1. k <= Len(Source(c))
      BY <1>1
    <3>2. Mapped(c, k) = call[c].view[k]
      BY <1>1, <3>1 DEF Mapped
    <3>3. call[c].task[k] # "done"
      BY <1>5 DEF Parse, Pending
    <3> QED
      BY <1>5, <3>2, <3>3, WorkFields DEF Rows
  <2>2. \/ /\ \E t \in {"sending", "failed"} :
                call'[c].task = [call[c].task EXCEPT ![k] = t]
           /\ UNCHANGED call[c].dlq
        \/ /\ ~IsJson(call[c].view[k])
           /\ call'[c].task = [call[c].task EXCEPT ![k] = "done"]
           /\ call'[c].dlq = IF Args(c).dead = NoPath THEN call[c].dlq
                             ELSE Append(call[c].dlq, k)
    <3>1. \/ /\ IsJson(Mapped(c, k))
             /\ call'[c].task = [call[c].task EXCEPT ![k] = "sending"]
             /\ UNCHANGED <<call[c].err, call[c].dlq>>
          \/ /\ ~IsJson(Mapped(c, k))
             /\ call'[c].task = [call[c].task EXCEPT ![k] = "done"]
             /\ call'[c].dlq = IF Args(c).dead = NoPath THEN call[c].dlq
                               ELSE Append(call[c].dlq, k)
             /\ UNCHANGED call[c].err
          \/ /\ call'[c].task = [call[c].task EXCEPT ![k] = "failed"]
             /\ call'[c].err = k
             /\ UNCHANGED call[c].dlq
      BY <1>5, WorkFields
    <3> QED
      BY <2>1, <3>1
  <2>3. CASE /\ \E t \in {"sending", "failed"} :
                  call'[c].task = [call[c].task EXCEPT ![k] = t]
             /\ UNCHANGED call[c].dlq
    <3>1. Done(c)' = Done(c)
      BY <1>3, <2>1, <2>3
    <3> QED
      BY <1>2, <2>1, <2>3, <3>1 DEF SendsNothing, DoneAs
  <2>4. CASE /\ ~IsJson(call[c].view[k])
             /\ call'[c].task = [call[c].task EXCEPT ![k] = "done"]
             /\ call'[c].dlq = IF Args(c).dead = NoPath THEN call[c].dlq
                               ELSE Append(call[c].dlq, k)
    <3>1. k \notin Done(c) /\ Done(c)' = Done(c) \cup {k}
      BY <1>3, <2>1, <2>4
    <3>2. k \in Due(c, FALSE) /\ k \notin Due(c, TRUE)
      BY <1>1, <2>4 DEF Due, IsJson
    <3>3. /\ k \notin DoneAs(c, FALSE)
          /\ DoneAs(c, FALSE)' = DoneAs(c, FALSE) \cup {k}
          /\ UNCHANGED DoneAs(c, TRUE)
      BY <1>2, <3>1, <3>2 DEF DoneAs
    <3> HIDE DEF DoneAs
    <3> QED
      BY <2>1, <2>4, <3>3 DEF SendsReject
  <2> QED
    BY <2>2, <2>3, <2>4
<1>6. CASE Send(c, k)
  <2>1. /\ call[c].task[k] = "sending" /\ UNCHANGED call[c].dlq
        /\ call'[c].task = [call[c].task EXCEPT ![k] = "done"]
        /\ call'[c].chan = Append(call[c].chan, k)
    BY <1>6, WorkFields DEF Send, Rejects
  <2>2. k \notin Done(c) /\ Done(c)' = Done(c) \cup {k}
    BY <1>3, <2>1
  <2>3. k \in Due(c, TRUE) /\ k \notin Due(c, FALSE)
    BY <1>1, <2>1 DEF Due, IsJson, Undisturbed
  <2> QED
    BY <1>2, <2>1, <2>2, <2>3 DEF SendsRow, DoneAs
<1>7. CASE Fault(c, k)
  BY <1>2, <1>7 DEF Fault, SendsNothing, DoneAs, Done, Lines, Due
<1> QED
  BY <1>4, <1>5, <1>6, <1>7 DEF Work

------------------------------------------------------------------------------
(* What a call that is alone finds in its files.                           *)

Footer(c) == [by |-> c, what |-> "footer", line |-> 0]

\* The output holds the rows the writer took from the channel, in the place
\* it took them to, and behind them the footer once the writer is done.
OutputOwn(c) ==
  alone[c] =>
    LET content == file[Args(c).output]
        pos == call[c].wpos
    IN  /\ call[c].writer = "opening" => pos = 1
        /\ call[c].writer = "recv" => Len(content) = pos - 1
        /\ call[c].writer = "ok" =>
             pos # 0 /\ Len(content) = pos /\ content[pos] = Footer(c)
        /\ Delivered(c, "row", content, pos - 1, call[c].chan, DoneAs(c, TRUE))
        /\ call[c].result = "ok" => call[c].output_bytes = Len(content)

\* So does the dead-letter file with the lines that were not JSON.
DeadOwn(c) ==
  alone[c] /\ Args(c).dead # NoPath =>
    LET content == file[Args(c).dead]
        pos == call[c].dpos
    IN  /\ call[c].dl = "opening" => pos = 1
        /\ call[c].dl \in {"recv", "ok"} => Len(content) = pos - 1
        /\ Delivered(c, "bad", content, pos - 1, call[c].dlq, DoneAs(c, FALSE))

(***************************************************************************)
(* No step gets at the output of a call that is alone, but for its own     *)
(* writer's, which writes what its workers sent.                           *)
(***************************************************************************)
LEMMA StepOutputOwn ==
  ASSUME Typed, NEW c \in Call, CallStep(c),
         \A d \in Call : Shape(d) /\ Apart(d) /\ Undisturbed(d) /\ OutputOwn(d)
  PROVE  \A d \in Call' : OutputOwn(d)'
<1>1. /\ UNCHANGED program /\ \A d \in Call \ {c} : call'[d] = call[d]
      /\ Call' = Call /\ \A d : Args(d)' = Args(d)
      /\ call[c].pc # "idle" => UNCHANGED alone
  BY Elsewhere DEF Call, Args
<1>2. ASSUME NEW d \in Call \ {c}, alone'[d] PROVE OutputOwn(d)'
  <2>1. alone[d] /\ OutputOwn(d)
    BY <1>2, AloneEnds
  <2>2. file'[Args(d).output] = file[Args(d).output] /\ call'[d] = call[d]
    BY <1>1, <2>1, FilesKept
  <2>3. DoneAs(d, TRUE)' = DoneAs(d, TRUE)
    BY <2>2 DEF DoneAs, Done, Due, Lines
  <2> QED
    BY <1>1, <2>1, <2>2, <2>3 DEF OutputOwn, Footer
<1>3. ASSUME alone'[c] PROVE OutputOwn(c)'
  <2> DEFINE content == file[Args(c).output]
             pos == call[c].wpos
             rows == DoneAs(c, TRUE)
  <2>1. /\ call[c] \in CallState /\ pos \in Nat /\ call[c].chan \in Seq(Nat)
        /\ Args(c).output \in Path /\ content \in Seq(Block) /\ c \in Nat
        /\ file \in [Path -> Seq(Block)]
    BY CallTypes DEF Typed, CallState, Arguments
  <2>2. CASE call[c].pc = "idle"
    <3>1. Start(c) /\ call[c] = NewCall
      BY <1>3, <2>2, IdleBegins DEF Shape, Begin, Refuse
    <3>2. /\ call'[c].writer = "opening" /\ call'[c].wpos = 1
          /\ call'[c].chan = <<>> /\ call'[c].result = "none"
      <4>1. /\ call[c].wpos = 1 /\ call[c].chan = <<>>
            /\ call[c].result = "none"
        BY <3>1 DEF NewCall
      <4> QED
        BY <3>1, <4>1, CallerFields
    <3>3. DoneAs(c, TRUE)' = {}
      BY <3>1, CallerFields DEF DoneAs, Done, Lines
    <3>4. Delivered(c, "row", content', 0, <<>>, {})
      BY DeliverNothing
    <3> HIDE DEF content
    <3>5. Delivered(c, "row", content', call'[c].wpos - 1, call'[c].chan,
                    DoneAs(c, TRUE)')
      <4>1. call'[c].wpos - 1 = 0
        BY <3>2
      <4> QED
        BY <3>2, <3>3, <3>4, <4>1
    <3> QED
      BY <1>1, <3>2, <3>5 DEF OutputOwn, content
  <2>3. CASE call[c].pc # "idle"
    <3>1. /\ alone[c] /\ Shape(c) /\ Undisturbed(c) /\ OutputOwn(c) /\ Apart(c)
      BY <1>1, <1>3, <2>3
    <3>2. /\ call[c].writer = "opening" => pos = 1
          /\ call[c].writer = "recv" => Len(content) = pos - 1
          /\ call[c].writer = "ok" =>
               pos # 0 /\ Len(content) = pos /\ content[pos] = Footer(c)
          /\ Delivered(c, "row", content, pos - 1, call[c].chan, rows)
          /\ call[c].result = "ok" => call[c].output_bytes = Len(content)
          /\ call[c].result = "ok" => call[c].writer = "ok"
      BY <3>1 DEF OutputOwn, Shape
    <3>3. ASSUME UNCHANGED <<call[c].task, call[c].view>> PROVE UNCHANGED rows
      BY <3>3 DEF DoneAs, Done, Due, Lines
    <3>4. SUFFICES
            /\ call'[c].writer = "opening" => pos' = 1
            /\ call'[c].writer = "recv" => Len(content') = pos' - 1
            /\ call'[c].writer = "ok" =>
                 /\ pos' # 0 /\ Len(content') = pos'
                 /\ content'[pos'] = Footer(c)
            /\ Delivered(c, "row", content', pos' - 1, call'[c].chan, rows')
            /\ call'[c].result = "ok" => call'[c].output_bytes = Len(content')
      BY <1>1 DEF OutputOwn, Footer
    <3>5. ASSUME NEW k \in Lines(c), Work(c, k)
          PROVE  /\ UNCHANGED <<call[c].writer, pos, call[c].result,
                                call[c].output_bytes, content>>
                 /\ Delivered(c, "row", content, pos - 1, call'[c].chan, rows')
      <4>1. UNCHANGED <<call[c].writer, pos, call[c].result,
                        call[c].output_bytes>>
        BY <3>5, WorkFields DEF Work, Caller, Rows
      <4>2. UNCHANGED content
        BY <1>1, <3>5 DEF Work, Skip, Parse, Fault, Send
      <4>3. CASE UNCHANGED <<rows, call[c].chan>>
        <5> HIDE DEF content, rows
        <5> QED
          BY <3>2, <4>1, <4>2, <4>3
      <4>4. CASE SendsRow(c, k)
        <5>1. k \in Nat
          BY <2>1, <3>5 DEF CallState, Lines
        <5>2. /\ k \notin rows /\ rows' = rows \cup {k}
              /\ call'[c].chan = Append(call[c].chan, k)
          BY <4>4 DEF SendsRow
        <5> HIDE DEF content, rows, pos
        <5>3. Delivered(c, "row", content, pos - 1, Append(call[c].chan, k),
                        rows \cup {k})
          BY <2>1, <3>2, <5>1, <5>2, DeliverSend
        <5> QED
          BY <4>1, <4>2, <5>2, <5>3 DEF pos
      <4>5. SendsRow(c, k) \/ UNCHANGED <<rows, call[c].chan>>
        BY <3>1, <3>5, WorkDelivers DEF SendsReject, SendsNothing
      <4> QED
        BY <4>1, <4>2, <4>3, <4>4, <4>5
    <3>6. CASE \E k \in Lines(c) : Work(c, k)
      BY <3>2, <3>5, <3>6
    <3>7. CASE OpenOutput(c)
      <4>1. /\ content' = <<>> /\ pos' = pos /\ UNCHANGED call[c].chan
            /\ UNCHANGED <<call[c].task, call[c].view, call[c].result>>
            /\ call'[c].writer = "recv" /\ call[c].writer = "opening"
        BY <1>1, <2>1, <3>7, WriterFields DEF OpenOutput, Caller
      <4>2. pos = 1 /\ UNCHANGED rows
        BY <3>2, <3>3, <4>1
      <4> HIDE DEF content, rows, pos
      <4>3. Delivered(c, "row", content', pos - 1, call[c].chan, rows)
        BY <3>2, <4>2, DeliverKeeps
      <4>4. Len(content') = 0 /\ pos' - 1 = pos - 1
        BY <4>1
      <4> QED
        BY <3>2, <4>1, <4>2, <4>3, <4>4
    <3>8. CASE WriteRow(c)
      <4> DEFINE block == [by |-> c, what |-> "row", line |-> Head(call[c].chan)]
      <4>1. /\ content' = PutAt(content, pos, block) /\ pos' = pos + 1
            /\ call'[c].chan = Tail(call[c].chan) /\ call[c].chan # <<>>
            /\ UNCHANGED <<call[c].task, call[c].view, call[c].result>>
            /\ call'[c].writer = "recv" /\ call[c].writer = "recv"
        BY <1>1, <2>1, <3>8, WriterFields DEF WriteRow, Put, Caller
      <4>2. UNCHANGED rows /\ Len(content) = pos - 1
        BY <3>2, <3>3, <4>1
      <4> HIDE DEF content, rows, pos
      <4>3. /\ Len(content') = pos /\ content'[pos] = block
            /\ \A i \in 1 .. pos - 1 : content'[i] = content[i]
        <5> HIDE DEF block
        <5> QED
          BY <2>1, <4>1, <4>2, PutAppends
      <4>4. pos - 1 \in Nat /\ (pos - 1) + 1 = pos /\ pos' - 1 = pos
        <5>1. Len(content) \in Nat
          BY <2>1
        <5> QED
          BY <2>1, <4>1, <4>2, <5>1
      <4> DEFINE n == pos - 1
      <4>5. /\ n \in Nat /\ n + 1 = pos
            /\ \A i \in 1 .. n : content'[i] = content[i]
            /\ content'[n + 1] = block
            /\ Delivered(c, "row", content, n, call[c].chan, rows)
        BY <3>2, <4>3, <4>4
      <4> HIDE DEF n
      <4>6. Delivered(c, "row", content', n + 1, Tail(call[c].chan), rows)
        BY <2>1, <4>1, <4>5, DeliverWrite
      <4> QED
        BY <3>2, <4>1, <4>2, <4>3, <4>4, <4>5, <4>6
    <3>9. CASE CloseOutput(c)
      <4>1. /\ content' = PutAt(content, pos, Footer(c)) /\ pos' = pos
            /\ UNCHANGED <<call[c].task, call[c].view, call[c].result,
                           call[c].chan>>
            /\ call'[c].writer = "ok" /\ call[c].writer = "recv"
        BY <1>1, <2>1, <3>9, WriterFields DEF CloseOutput, Put, Caller, Footer
      <4>2. UNCHANGED rows /\ Len(content) = pos - 1
        BY <3>2, <3>3, <4>1
      <4> HIDE DEF content, rows, pos
      <4>3. /\ Len(content') = pos /\ content'[pos] = Footer(c)
            /\ \A i \in 1 .. pos - 1 : content'[i] = content[i]
        <5> DEFINE block == Footer(c)
        <5>1. content' = PutAt(content, pos, block)
          BY <4>1
        <5> HIDE DEF block
        <5>2. /\ Len(content') = pos /\ content'[pos] = block
              /\ \A i \in 1 .. pos - 1 : content'[i] = content[i]
          BY <2>1, <4>2, <5>1, PutAppends
        <5> QED
          BY <5>2 DEF block
      <4>4. Delivered(c, "row", content', pos - 1, call[c].chan, rows)
        BY <3>2, <4>3, DeliverKeeps
      <4>5. pos # 0
        <5>1. Len(content) \in Nat
          BY <2>1
        <5> QED
          BY <4>2, <5>1
      <4> QED
        BY <3>2, <4>1, <4>2, <4>3, <4>4, <4>5
    <3>10. CASE Quarantine(c)
      <4>1. Args(c).output # Args(c).dead
        BY <3>1 DEF Apart
      <4>2. UNCHANGED content
        BY <1>1, <2>1, <3>10, <4>1
        DEF Quarantine, OpenDead, WriteDead, CloseDead, Put
      <4>3. UNCHANGED <<call[c].task, call[c].view, call[c].writer, pos,
                        call[c].chan, call[c].result, call[c].output_bytes>>
        BY <3>10, WriterFields DEF Quarantine, Caller, Rows
      <4>4. UNCHANGED rows
        BY <3>3, <4>3
      <4> HIDE DEF content, rows, pos
      <4> QED
        BY <3>2, <4>2, <4>3, <4>4
    <3>11. CASE Finish(c)
      <4>1. UNCHANGED content
        BY <1>1, <3>11 DEF Finish, Fail, Succeed
      <4>2. /\ UNCHANGED <<call[c].task, call[c].view, call[c].writer, pos,
                           call[c].chan>>
            /\ \/ call'[c].result = "err"
               \/ call'[c].output_bytes = Len(content)
        BY <3>11, CallerFields DEF Finish, Rows
      <4>3. UNCHANGED rows
        BY <3>3, <4>2
      <4> HIDE DEF content, rows, pos
      <4> QED
        BY <3>2, <4>1, <4>2, <4>3
    <3>12. ~Begin(c)
      BY <2>3 DEF Begin, Refuse, Start, Turn
    <3> QED
      BY <3>6, <3>7, <3>8, <3>9, <3>10, <3>11, <3>12 DEF CallStep, Write
  <2> QED
    BY <2>2, <2>3
<1> QED
  BY <1>1, <1>2, <1>3 DEF OutputOwn

(***************************************************************************)
(* Nor at its dead-letter file, but for its own dead-letter thread's.      *)
(***************************************************************************)
LEMMA StepDeadOwn ==
  ASSUME Typed, NEW c \in Call, CallStep(c),
         \A d \in Call : Shape(d) /\ Apart(d) /\ Undisturbed(d) /\ DeadOwn(d)
  PROVE  \A d \in Call' : DeadOwn(d)'
<1>1. /\ UNCHANGED program /\ \A d \in Call \ {c} : call'[d] = call[d]
      /\ Call' = Call /\ \A d : Args(d)' = Args(d)
      /\ call[c].pc # "idle" => UNCHANGED alone
  BY Elsewhere DEF Call, Args
<1>2. ASSUME NEW d \in Call \ {c}, alone'[d], Args(d).dead # NoPath
      PROVE  DeadOwn(d)'
  <2>1. alone[d] /\ DeadOwn(d)
    BY <1>2, AloneEnds
  <2>2. file'[Args(d).dead] = file[Args(d).dead] /\ call'[d] = call[d]
    BY <1>1, <1>2, <2>1, FilesKept
  <2>3. DoneAs(d, FALSE)' = DoneAs(d, FALSE)
    BY <2>2 DEF DoneAs, Done, Due, Lines
  <2> QED
    BY <1>1, <1>2, <2>1, <2>2, <2>3 DEF DeadOwn
<1>3. ASSUME alone'[c], Args(c).dead # NoPath PROVE DeadOwn(c)'
  <2> DEFINE content == file[Args(c).dead]
             pos == call[c].dpos
             bad == DoneAs(c, FALSE)
  <2>1. /\ call[c] \in CallState /\ pos \in Nat /\ call[c].dlq \in Seq(Nat)
        /\ Args(c).dead \in Path /\ content \in Seq(Block) /\ c \in Nat
        /\ file \in [Path -> Seq(Block)]
    BY <1>3, CallTypes DEF Typed, CallState, Arguments
  <2>2. CASE call[c].pc = "idle"
    <3>1. Start(c) /\ call[c] = NewCall
      BY <1>3, <2>2, IdleBegins DEF Shape, Begin, Refuse
    <3>2. /\ call'[c].dl = "opening" /\ call'[c].dpos = 1
          /\ call'[c].dlq = <<>>
      <4>1. call[c].dpos = 1 /\ call[c].dlq = <<>>
        BY <3>1 DEF NewCall
      <4> QED
        BY <1>3, <3>1, <4>1, CallerFields
    <3>3. DoneAs(c, FALSE)' = {}
      BY <3>1, CallerFields DEF DoneAs, Done, Lines
    <3>4. Delivered(c, "bad", content', 0, <<>>, {})
      BY DeliverNothing
    <3> HIDE DEF content
    <3>5. Delivered(c, "bad", content', call'[c].dpos - 1, call'[c].dlq,
                    DoneAs(c, FALSE)')
      <4>1. call'[c].dpos - 1 = 0
        BY <3>2
      <4> QED
        BY <3>2, <3>3, <3>4, <4>1
    <3> QED
      BY <1>1, <3>2, <3>5 DEF DeadOwn, content
  <2>3. CASE call[c].pc # "idle"
    <3>1. /\ alone[c] /\ Shape(c) /\ Undisturbed(c) /\ DeadOwn(c) /\ Apart(c)
      BY <1>1, <1>3, <2>3
    <3>2. /\ call[c].dl = "opening" => pos = 1
          /\ call[c].dl \in {"recv", "ok"} => Len(content) = pos - 1
          /\ Delivered(c, "bad", content, pos - 1, call[c].dlq, bad)
      BY <1>3, <3>1 DEF DeadOwn
    <3>3. ASSUME UNCHANGED <<call[c].task, call[c].view>> PROVE UNCHANGED bad
      BY <3>3 DEF DoneAs, Done, Due, Lines
    <3>4. SUFFICES
            /\ call'[c].dl = "opening" => pos' = 1
            /\ call'[c].dl \in {"recv", "ok"} => Len(content') = pos' - 1
            /\ Delivered(c, "bad", content', pos' - 1, call'[c].dlq, bad')
      BY <1>1 DEF DeadOwn
    <3>5. ASSUME NEW k \in Lines(c), Work(c, k)
          PROVE  /\ UNCHANGED <<call[c].dl, pos, content>>
                 /\ Delivered(c, "bad", content, pos - 1, call'[c].dlq, bad')
      <4>1. UNCHANGED <<call[c].dl, pos>>
        BY <3>5, WorkFields DEF Work, Rejects
      <4>2. UNCHANGED content
        BY <1>1, <3>5 DEF Work, Skip, Parse, Fault, Send
      <4>3. CASE UNCHANGED <<bad, call[c].dlq>>
        <5> HIDE DEF content, bad
        <5> QED
          BY <3>2, <4>1, <4>2, <4>3
      <4>4. CASE SendsReject(c, k)
        <5>1. k \in Nat
          BY <2>1, <3>5 DEF CallState, Lines
        <5>2. /\ k \notin bad /\ bad' = bad \cup {k}
              /\ call'[c].dlq = Append(call[c].dlq, k)
          BY <1>3, <4>4 DEF SendsReject
        <5> HIDE DEF content, bad, pos
        <5>3. Delivered(c, "bad", content, pos - 1, Append(call[c].dlq, k),
                        bad \cup {k})
          BY <2>1, <3>2, <5>1, <5>2, DeliverSend
        <5> QED
          BY <4>1, <4>2, <5>2, <5>3 DEF pos
      <4>5. SendsReject(c, k) \/ UNCHANGED <<bad, call[c].dlq>>
        BY <3>1, <3>5, WorkDelivers DEF SendsRow, SendsNothing
      <4> QED
        BY <4>1, <4>2, <4>3, <4>4, <4>5
    <3>6. CASE \E k \in Lines(c) : Work(c, k)
      BY <3>2, <3>5, <3>6
    <3>7. CASE OpenDead(c)
      <4>1. /\ content' = <<>> /\ pos' = pos /\ UNCHANGED call[c].dlq
            /\ UNCHANGED <<call[c].task, call[c].view>>
            /\ call'[c].dl = "recv" /\ call[c].dl = "opening"
        BY <1>1, <2>1, <3>7, WriterFields DEF OpenDead, Caller
      <4>2. pos = 1 /\ UNCHANGED bad
        BY <3>2, <3>3, <4>1
      <4> HIDE DEF content, bad, pos
      <4>3. Delivered(c, "bad", content', pos - 1, call[c].dlq, bad)
        BY <3>2, <4>2, DeliverKeeps
      <4>4. Len(content') = 0 /\ pos' - 1 = pos - 1
        BY <4>1
      <4> QED
        BY <3>2, <4>1, <4>2, <4>3, <4>4
    <3>8. CASE WriteDead(c)
      <4> DEFINE block == [by |-> c, what |-> "bad", line |-> Head(call[c].dlq)]
      <4>1. /\ content' = PutAt(content, pos, block) /\ pos' = pos + 1
            /\ call'[c].dlq = Tail(call[c].dlq) /\ call[c].dlq # <<>>
            /\ UNCHANGED <<call[c].task, call[c].view>>
            /\ call'[c].dl = "recv" /\ call[c].dl = "recv"
        BY <1>1, <2>1, <3>8, WriterFields DEF WriteDead, Put, Caller
      <4>2. UNCHANGED bad /\ Len(content) = pos - 1
        BY <3>2, <3>3, <4>1
      <4> HIDE DEF content, bad, pos
      <4>3. /\ Len(content') = pos /\ content'[pos] = block
            /\ \A i \in 1 .. pos - 1 : content'[i] = content[i]
        <5> HIDE DEF block
        <5> QED
          BY <2>1, <4>1, <4>2, PutAppends
      <4>4. pos - 1 \in Nat /\ (pos - 1) + 1 = pos /\ pos' - 1 = pos
        <5>1. Len(content) \in Nat
          BY <2>1
        <5> QED
          BY <2>1, <4>1, <4>2, <5>1
      <4> DEFINE n == pos - 1
      <4>5. /\ n \in Nat /\ n + 1 = pos
            /\ \A i \in 1 .. n : content'[i] = content[i]
            /\ content'[n + 1] = block
            /\ Delivered(c, "bad", content, n, call[c].dlq, bad)
        BY <3>2, <4>3, <4>4
      <4> HIDE DEF n
      <4>6. Delivered(c, "bad", content', n + 1, Tail(call[c].dlq), bad)
        BY <2>1, <4>1, <4>5, DeliverWrite
      <4> QED
        BY <3>2, <4>1, <4>2, <4>3, <4>4, <4>5, <4>6
    <3>9. CASE CloseDead(c)
      <4>1. /\ content' = content /\ pos' = pos
            /\ UNCHANGED <<call[c].task, call[c].view, call[c].dlq>>
            /\ call'[c].dl = "ok" /\ call[c].dl = "recv"
        BY <1>1, <3>9, WriterFields DEF CloseDead, Caller
      <4>2. UNCHANGED bad
        BY <3>3, <4>1
      <4> HIDE DEF content, bad, pos
      <4> QED
        BY <3>2, <4>1, <4>2
    <3>10. CASE Write(c)
      <4>1. Args(c).output # Args(c).dead
        BY <3>1 DEF Apart
      <4>2. UNCHANGED content
        BY <1>1, <2>1, <3>10, <4>1
        DEF Write, OpenOutput, WriteRow, CloseOutput, Put
      <4>3. UNCHANGED <<call[c].task, call[c].view, call[c].dl, pos,
                        call[c].dlq>>
        BY <3>10, WriterFields DEF Write, Caller, Rejects
      <4>4. UNCHANGED bad
        BY <3>3, <4>3
      <4> HIDE DEF content, bad, pos
      <4> QED
        BY <3>2, <4>2, <4>3, <4>4
    <3>11. CASE Finish(c)
      <4>1. UNCHANGED content
        BY <1>1, <3>11 DEF Finish, Fail, Succeed
      <4>2. UNCHANGED <<call[c].task, call[c].view, call[c].dl, pos,
                        call[c].dlq>>
        BY <3>11, CallerFields DEF Finish, Rejects
      <4>3. UNCHANGED bad
        BY <3>3, <4>2
      <4> HIDE DEF content, bad, pos
      <4> QED
        BY <3>2, <4>1, <4>2, <4>3
    <3>12. ~Begin(c)
      BY <2>3 DEF Begin, Refuse, Start, Turn
    <3> QED
      BY <3>6, <3>7, <3>8, <3>9, <3>10, <3>11, <3>12 DEF CallStep, Quarantine
  <2> QED
    BY <2>2, <2>3
<1> QED
  BY <1>1, <1>2, <1>3 DEF DeadOwn

------------------------------------------------------------------------------
\* Threads are of calls that have begun, and a call returns with no chunk left.
Threaded(c) ==
  /\ call[c].pc = "parsing" => Begun(c)
  /\ Writing(c) => Begun(c)
  /\ call[c].pc = "returned" => LoopOver(c)

\* Some call that has begun, be it c, has the input of c for a file to write.
Overwritten(c) ==
  \E d \in Call : Begun(d) /\ Args(c).input \in Written(d)

\* A map differs from its file only if the file is somebody's to write.
Rewritten(c) == Begun(c) => Source(c) = call[c].view \/ Overwritten(c)

(***************************************************************************)
(* What has begun stays begun; a step keeps Threaded of its own call, and  *)
(* leaves the map of it alone unless it takes it.                          *)
(***************************************************************************)
LEMMA StepThreaded ==
  ASSUME Typed, NEW c \in Call, CallStep(c), Shape(c), Threaded(c)
  PROVE  /\ Threaded(c)'
         /\ Begun(c) => Begun(c)'
         /\ \/ UNCHANGED call[c].view /\ (Begun(c)' => Begun(c))
            \/ call'[c].view = Source(c) /\ UNCHANGED file
<1>1. /\ call \in [Call -> CallState] /\ call[c] \in CallState
      /\ call'[c] \in CallState
  BY StepTyped, Elsewhere DEF Typed, Call
<1> USE DEF Begun, Writing, Threaded
<1>2. CASE Refuse(c)
  <2>1. /\ call'[c].pc = "returned"
        /\ UNCHANGED <<call[c].view, call[c].task, Rows(c), Rejects(c)>>
    BY <1>2, CallerFields
  <2>2. call[c] = NewCall
    BY <1>2 DEF Refuse, Turn, Shape
  <2>3. call'[c].task = <<>> /\ call'[c].writer = "unborn" /\ call'[c].dl = "unborn"
    BY <2>1, <2>2 DEF NewCall, Rows, Rejects
  <2>4. LoopOver(c)'
    BY <2>1, <2>3 DEF LoopOver, Lines
  <2> QED
    BY <2>1, <2>2, <2>3, <2>4 DEF NewCall
<1>3. CASE Start(c)
  <2>1. /\ call'[c].pc = "parsing" /\ call'[c].view = Source(c)
        /\ call'[c].writer = "opening"
    BY <1>3, CallerFields
  <2>2. UNCHANGED file
    BY <1>3 DEF Start
  <2> QED
    BY <2>1, <2>2
<1>4. ASSUME NEW k \in Lines(c), Work(c, k)
      PROVE  /\ Threaded(c)'
             /\ UNCHANGED <<call[c].writer, call[c].view>>
  <2>1. UNCHANGED <<call[c].pc, call[c].view, call[c].writer, call[c].dl>>
    BY <1>4, WorkFields DEF Work, Caller, Rows, Rejects
  <2>2. ~LoopOver(c)
    BY <1>4 DEF Work, Skip, Parse, Fault, Send, Pending, LoopOver, Settled
  <2> QED
    BY <2>1, <2>2
<1>5. CASE Write(c)
  <2>1. /\ UNCHANGED <<call[c].pc, call[c].view, call[c].task, call[c].dl>>
        /\ call[c].writer \in {"opening", "recv"}
        /\ call'[c].writer \in {"recv", "ok"}
    BY <1>5, WriterFields
    DEF Write, OpenOutput, WriteRow, CloseOutput, Caller, Rejects
  <2>2. UNCHANGED LoopOver(c)
    BY <2>1 DEF LoopOver, Lines
  <2> QED
    BY <2>1, <2>2
<1>6. CASE Quarantine(c)
  <2>1. /\ UNCHANGED <<call[c].pc, call[c].view, call[c].task, call[c].writer>>
        /\ call[c].dl \in {"opening", "recv"}
    BY <1>6, WriterFields
    DEF Quarantine, OpenDead, WriteDead, CloseDead, Caller, Rows
  <2>2. UNCHANGED LoopOver(c)
    BY <2>1 DEF LoopOver, Lines
  <2> QED
    BY <2>1, <2>2
<1>7. CASE Finish(c)
  <2>1. /\ call'[c].pc = "returned" /\ call[c].pc = "parsing" /\ LoopOver(c)
        /\ UNCHANGED <<call[c].view, call[c].task, call[c].writer, call[c].dl>>
    BY <1>7, CallerFields DEF Finish, Fail, Succeed, Rows, Rejects
  <2>2. LoopOver(c)'
    BY <2>1 DEF LoopOver, Lines
  <2> QED
    BY <2>1, <2>2
<1> QED
  BY <1>2, <1>3, <1>4, <1>5, <1>6, <1>7 DEF CallStep, Begin

(***************************************************************************)
(* A file changes under a map only by a call that has begun to write it.   *)
(***************************************************************************)
LEMMA StepRewritten ==
  ASSUME Typed, NEW c \in Call, CallStep(c),
         \A d \in Call : Shape(d) /\ Threaded(d) /\ Rewritten(d)
  PROVE  \A d \in Call' : Threaded(d)' /\ Rewritten(d)'
<1>1. /\ UNCHANGED <<program, Call>> /\ \A d \in Call : UNCHANGED Args(d)
      /\ \A d \in Call \ {c} : call'[d] = call[d]
  BY Elsewhere DEF Call, Args
<1>2. \A d \in Call : Args(d).input \in Path /\ UNCHANGED Written(d)
  BY <1>1, CallTypes DEF Typed, Arguments, Written
<1>3. \A d \in Call \ {c} : UNCHANGED <<Threaded(d), Begun(d), call[d].view>>
  BY <1>1 DEF Threaded, Begun, Writing, LoopOver, Lines
<1>4. /\ Threaded(c)'
      /\ Begun(c) => Begun(c)'
      /\ \/ UNCHANGED call[c].view /\ (Begun(c)' => Begun(c))
         \/ call'[c].view = Source(c) /\ UNCHANGED file
  BY StepThreaded
<1>5. ASSUME NEW d \in Call, Overwritten(d) PROVE Overwritten(d)'
  <2>1. PICK e \in Call : Begun(e) /\ Args(d).input \in Written(e)
    BY <1>5 DEF Overwritten
  <2>2. Begun(e)'
    BY <1>3, <1>4, <2>1
  <2>3. Args(d)'.input \in Written(e)' /\ e \in Call'
    BY <1>1, <1>2, <2>1
  <2> QED
    BY <2>2, <2>3 DEF Overwritten
<1>6. ASSUME NEW d \in Call PROVE Source(d)' = Source(d) \/ Overwritten(d)'
  <2>1. CASE Args(d).input \notin Written(c)
    BY <1>1, <1>2, <2>1, Elsewhere DEF Source
  <2>2. CASE ~Writing(c)
    BY <1>1, <2>2, Elsewhere DEF Source
  <2>3. CASE Writing(c) /\ Args(d).input \in Written(c)
    <3>1. Begun(c)
      <4>1. Threaded(c)
        OBVIOUS
      <4> QED
        BY <2>3, <4>1 DEF Threaded
    <3>2. Begun(c)'
      BY <1>4, <3>1
    <3> QED
      BY <1>1, <1>2, <2>3, <3>2 DEF Overwritten
  <2> QED
    BY <2>1, <2>2, <2>3
<1>7. ASSUME NEW d \in Call PROVE Rewritten(d)'
  <2>1. CASE d # c
    BY <1>3, <1>5, <1>6, <2>1 DEF Rewritten
  <2>2. CASE d = c /\ UNCHANGED call[c].view /\ (Begun(c)' => Begun(c))
    BY <1>5, <1>6, <2>2 DEF Rewritten
  <2>3. CASE d = c /\ call'[c].view = Source(c) /\ UNCHANGED file
    BY <1>1, <2>3 DEF Rewritten, Source
  <2> QED
    BY <1>4, <2>1, <2>2, <2>3
<1>8. ASSUME NEW d \in Call PROVE Threaded(d)'
  BY <1>3, <1>4
<1> QED
  BY <1>1, <1>7, <1>8

------------------------------------------------------------------------------
(* The inductive invariant and what follows from it.                       *)

IInv ==
  /\ Typed
  /\ Counted
  /\ \A c \in Call : /\ Shape(c) /\ Apart(c) /\ Undisturbed(c)
                     /\ OutputOwn(c) /\ DeadOwn(c)
                     /\ Threaded(c) /\ Rewritten(c)
  /\ DiesOnlyOnConflict

(***************************************************************************)
(* It holds before the first call.                                         *)
(***************************************************************************)
LEMMA InitIInv ==
  Init => IInv
<1> SUFFICES ASSUME Init PROVE IInv
  OBVIOUS
<1>1. /\ call = [c \in Call |-> NewCall] /\ alone = [c \in Call |-> FALSE]
      /\ program \in Programs /\ file = Disk /\ pool = 0 /\ killed = FALSE
  BY DEF Init
<1>2. Typed
  <2>1. NewCall \in CallState
    BY DEF NewCall, CallState, Outcome
  <2> QED
    BY <1>1, <2>1, SessionAssumption DEF Typed
<1>3. ASSUME NEW c \in Call PROVE call[c] = NewCall /\ ~alone[c]
  BY <1>1, <1>3
<1>4. Counted
  <2>1. ASSUME NEW c \in Call
        PROVE  call[c].wpos + Len(call[c].chan) <= Cardinality(Done(c)) + 1
    <3>1. /\ call[c].wpos = 1 /\ call[c].chan = <<>> /\ call[c].task = <<>>
      BY <1>3 DEF NewCall
    <3>2. Done(c) = {}
      BY <3>1 DEF Done, Lines
    <3>3. Cardinality(Done(c)) = 0 /\ Len(call[c].chan) = 0
      BY <3>1, <3>2, FS_EmptySet
    <3> QED
      BY <3>1, <3>3
  <2> QED
    BY <2>1 DEF Counted
<1>5. ASSUME NEW c \in Call
      PROVE  /\ Shape(c) /\ Apart(c) /\ Undisturbed(c)
             /\ OutputOwn(c) /\ DeadOwn(c) /\ Threaded(c) /\ Rewritten(c)
  <2>1. /\ call[c].result = "none" /\ call[c].task = <<>>
        /\ call[c].view = <<>> /\ call[c].writer = "unborn"
        /\ call[c].dl = "unborn" /\ call[c].pc = "idle"
    BY <1>3 DEF NewCall
  <2>2. Shape(c)
    BY <1>3, <2>1 DEF Shape, Lines
  <2>3. Apart(c) /\ Undisturbed(c)
    BY <1>3 DEF Apart, Undisturbed
  <2>4. OutputOwn(c)
    BY <1>3 DEF OutputOwn
  <2>5. DeadOwn(c)
    BY <1>3 DEF DeadOwn
  <2>6. Threaded(c) /\ Rewritten(c)
    BY <2>1 DEF Threaded, Rewritten, Begun, Writing
  <2> QED
    BY <2>2, <2>3, <2>4, <2>5, <2>6
<1> QED
  BY <1>1, <1>2, <1>4, <1>5 DEF IInv, DiesOnlyOnConflict

(***************************************************************************)
(* A worker of a call that is alone reads what is in its file; when it     *)
(* dies, the call is still parsing and its input is somebody's to write.   *)
(***************************************************************************)
LEMMA StepDies ==
  ASSUME IInv, ~killed, NEW c \in Call, CallStep(c)
  PROVE  DiesOnlyOnConflict'
<1> SUFFICES ASSUME killed' PROVE DiesOnlyOnConflict'
  BY DEF DiesOnlyOnConflict
<1>1. PICK k \in Lines(c) : Fault(c, k)
  <2>1. ~Begin(c) /\ ~Write(c) /\ ~Quarantine(c) /\ ~Finish(c)
    BY DEF Begin, Refuse, Start, Write, OpenOutput, WriteRow, CloseOutput,
           Quarantine, OpenDead, WriteDead, CloseDead, Finish, Fail, Succeed
  <2>2. \A k \in Lines(c) : Work(c, k) => Fault(c, k)
    BY DEF Work, Skip, Parse, Send
  <2> QED
    BY <2>1, <2>2 DEF CallStep
<1>2. ~alone[c]
  <2> SUFFICES ASSUME alone[c] PROVE FALSE
    OBVIOUS
  <2>1. /\ Source(c) = call[c].view /\ k \in DOMAIN call[c].view
        /\ call[c].view \in Seq(Block)
    BY DEF IInv, Undisturbed, Shape, Lines, Typed, CallState
  <2>2. k > Len(Source(c))
    BY <1>1 DEF Fault
  <2> QED
    BY <2>1, <2>2
<1>3. /\ call[c].pc = "parsing" /\ Begun(c)
  <2>1. /\ Shape(c) /\ Threaded(c) /\ ~LoopOver(c) /\ call[c] \in CallState
    BY <1>1 DEF IInv, Typed, Fault, Pending, LoopOver, Settled
  <2>2. call[c].pc # "idle"
    BY <1>1, <2>1 DEF Shape, NewCall, Lines
  <2> QED
    BY <2>1, <2>2 DEF Threaded, CallState
<1>4. PICK d \in Call : Begun(d) /\ Args(c).input \in Written(d)
  <2>1. Source(c) # call[c].view
    <3>1. /\ k \in DOMAIN call[c].view /\ call[c].view \in Seq(Block)
          /\ k > Len(Source(c))
      BY <1>1 DEF IInv, Shape, Lines, Typed, CallState, Fault
    <3> QED
      BY <3>1
  <2> QED
    BY <1>3, <2>1 DEF IInv, Rewritten, Overwritten
<1>5. UNCHANGED <<program, alone, call>>
  BY <1>1 DEF Fault
<1> QED
  BY <1>2, <1>3, <1>4, <1>5
  DEF DiesOnlyOnConflict, Call, Begun, Args, Written

(***************************************************************************)
(* Every step preserves it.                                                *)
(***************************************************************************)
LEMMA NextIInv ==
  IInv /\ [Next]_vars => IInv'
<1> SUFFICES ASSUME IInv, [Next]_vars PROVE IInv'
  OBVIOUS
<1>1. CASE UNCHANGED vars
  <2>1. /\ UNCHANGED <<program, file, pool, call, killed, alone, Call>>
        /\ \A c : UNCHANGED <<Args(c), Done(c), LoopOver(c), Lines(c), Ended(c),
                             Begun(c), Writing(c), Written(c), Source(c)>>
    BY <1>1 DEF vars, Call, Args, Done, Lines, LoopOver, Ended, Begun, Writing,
                Written, Source
  <2>2. \A c, d : Conflict(c, d)' = Conflict(c, d)
    BY <2>1 DEF Conflict, Written, Args
  <2>3. Typed' /\ Counted' /\ DiesOnlyOnConflict'
    BY <2>1 DEF IInv, Typed, Counted, DiesOnlyOnConflict
  <2>4. ASSUME NEW c \in Call PROVE Shape(c)' /\ Apart(c)' /\ Undisturbed(c)'
    <3>1. Shape(c)'
      BY <2>1 DEF IInv, Shape
    <3>2. Apart(c)'
      BY <2>1, <2>2 DEF IInv, Apart, Written
    <3>3. Undisturbed(c)'
      BY <2>1 DEF IInv, Undisturbed, Source
    <3> QED
      BY <3>1, <3>2, <3>3
  <2>5. ASSUME NEW c \in Call PROVE OutputOwn(c)' /\ DeadOwn(c)'
    <3>1. UNCHANGED <<DoneAs(c, TRUE), DoneAs(c, FALSE)>>
      BY <2>1 DEF DoneAs, Due
    <3>2. OutputOwn(c)'
      BY <2>1, <3>1 DEF IInv, OutputOwn, Footer
    <3>3. DeadOwn(c)'
      BY <2>1, <3>1 DEF IInv, DeadOwn
    <3> QED
      BY <3>2, <3>3
  <2>6. ASSUME NEW c \in Call PROVE Threaded(c)' /\ Rewritten(c)'
    BY <2>1 DEF IInv, Threaded, Rewritten, Overwritten
  <2> QED
    BY <2>1, <2>3, <2>4, <2>5, <2>6 DEF IInv
<1>2. ASSUME ~killed, NEW c \in Call, CallStep(c) PROVE IInv'
  <2>1. Typed' /\ DiesOnlyOnConflict'
    BY <1>2, StepTyped, StepDies DEF IInv
  <2>2. Counted'
    BY <1>2, StepCounted DEF IInv, Shape
  <2>3. \A d \in Call' : Shape(d)' /\ Apart(d)'
    BY <1>2, StepShape, StepApart DEF IInv
  <2>4. \A d \in Call' : Undisturbed(d)'
    BY <1>2, StepUndisturbed DEF IInv
  <2>5. \A d \in Call' : OutputOwn(d)' /\ DeadOwn(d)'
    BY <1>2, StepOutputOwn, StepDeadOwn DEF IInv
  <2>6. \A d \in Call' : Threaded(d)' /\ Rewritten(d)'
    BY <1>2, StepRewritten DEF IInv
  <2> QED
    BY <2>1, <2>2, <2>3, <2>4, <2>5, <2>6 DEF IInv
<1> QED
  BY <1>1, <1>2, NextIsCallStep

(***************************************************************************)
(* IInv holds throughout, whatever the host does.                          *)
(***************************************************************************)
THEOREM SessionInvariance ==
  Spec => []IInv
<1> QED
  BY InitIInv, NextIInv, PTL DEF Spec

(***************************************************************************)
(* A handle's position is never past the lines that were to be written.    *)
(***************************************************************************)
LEMMA TypedBound ==
  IInv => TypeOK
<1> SUFFICES ASSUME IInv, NEW c \in Call
             PROVE  call[c].wpos <= Len(call[c].view) + 1
  BY DEF IInv, Typed, TypeOK
<1>1. /\ call[c].wpos \in Nat /\ Len(call[c].chan) \in Nat
      /\ Len(call[c].view) \in Nat /\ Lines(c) = 1 .. Len(call[c].view)
  BY DEF IInv, Typed, CallState, Shape, Lines
<1>2. call[c].wpos + Len(call[c].chan) <= Cardinality(Done(c)) + 1
  BY DEF IInv, Counted
<1>3. /\ IsFiniteSet(Lines(c)) /\ Cardinality(Lines(c)) = Len(call[c].view)
  <2>1. \A n \in Nat : IsFiniteSet(1 .. n) /\ Cardinality(1 .. n) = n
    BY FS_Interval
  <2> QED
    BY <1>1, <2>1
<1>4. Done(c) \in SUBSET Lines(c)
  BY DEF Done
<1>5. /\ Cardinality(Done(c)) \in Nat
      /\ Cardinality(Done(c)) <= Len(call[c].view)
  <2>1. IsFiniteSet(Done(c)) /\ Cardinality(Done(c)) <= Cardinality(Lines(c))
    BY <1>3, <1>4, FS_Subset
  <2> QED
    BY <1>3, <2>1, FS_CardinalityType
<1> DEFINE w == call[c].wpos
           q == Len(call[c].chan)
           l == Len(call[c].view)
           d == Cardinality(Done(c))
<1>6. w \in Nat /\ q \in Nat /\ l \in Nat /\ d \in Nat /\ d <= l /\ w + q <= d + 1
  BY <1>1, <1>2, <1>5
<1> HIDE DEF w, q, l, d
<1>7. w <= l + 1
  BY <1>6
<1> QED
  BY <1>7 DEF w, l

(***************************************************************************)
(* TypeOK of Session holds for every program of the host.                  *)
(***************************************************************************)
THEOREM SessionTyped ==
  Spec => []TypeOK
<1> QED
  BY SessionInvariance, TypedBound, PTL

(***************************************************************************)
(* The process dies on its map only while a call is parsing that was not   *)
(* left alone, and its input is a file that a call that has begun writes.  *)
(***************************************************************************)
THEOREM MapIsSoundAlone ==
  Spec => []DiesOnlyOnConflict
<1>1. IInv => DiesOnlyOnConflict
  BY DEF IInv
<1> QED
  BY <1>1, SessionInvariance, PTL

(***************************************************************************)
(* After Ok nothing is left to parse, to send or to write.                 *)
(***************************************************************************)
LEMMA OkIsOver ==
  ASSUME IInv, NEW c \in Call, call[c].result = "ok"
  PROVE  /\ call[c].writer = "ok" /\ call[c].chan = <<>>
         /\ Args(c).dead # NoPath => call[c].dl = "ok" /\ call[c].dlq = <<>>
         /\ DoneAs(c, TRUE) = Due(c, TRUE)
         /\ DoneAs(c, FALSE) = Due(c, FALSE)
         /\ IsFiniteSet(Due(c, TRUE)) /\ IsFiniteSet(Due(c, FALSE))
<1>1. Shape(c)
  BY DEF IInv
<1>2. /\ call[c].writer = "ok" /\ call[c].chan = <<>> /\ LoopOver(c)
      /\ call[c].err = 0
      /\ Args(c).dead # NoPath => call[c].dl = "ok" /\ call[c].dlq = <<>>
  BY <1>1 DEF Shape
<1>3. Done(c) = DOMAIN call[c].view
  BY <1>1, <1>2 DEF Shape, LoopOver, Settled, Done, Lines
<1>4. Due(c, TRUE) \in SUBSET DOMAIN call[c].view
  BY DEF Due
<1>5. Due(c, FALSE) \in SUBSET DOMAIN call[c].view
  BY DEF Due
<1>6. IsFiniteSet(DOMAIN call[c].view)
  <2>1. /\ DOMAIN call[c].view = 1 .. Len(call[c].view)
        /\ Len(call[c].view) \in Nat
    BY DEF IInv, Typed, CallState
  <2> QED
    BY <2>1, FS_Interval
<1> QED
  BY <1>2, <1>3, <1>4, <1>5, <1>6, FS_Subset DEF DoneAs

(***************************************************************************)
(* So the output of a call that is alone has its rows and its footer.      *)
(***************************************************************************)
LEMMA OkHasRows ==
  ASSUME IInv, NEW c \in Call, call[c].result = "ok", alone[c]
  PROVE  HasRows(c)
<1> DEFINE content == file[Args(c).output]
           pos == call[c].wpos
           due == Due(c, TRUE)
           n == pos - 1
<1>1. /\ Len(content) = pos /\ content[pos] = Footer(c) /\ pos # 0
      /\ Delivered(c, "row", content, n, <<>>, due) /\ IsFiniteSet(due)
      /\ call[c].output_bytes = Len(content)
  <2>1. /\ OutputOwn(c) /\ call[c].writer = "ok" /\ call[c].chan = <<>>
        /\ DoneAs(c, TRUE) = due /\ IsFiniteSet(due)
    BY OkIsOver DEF IInv
  <2> QED
    BY <2>1 DEF OutputOwn
<1>2. n \in Nat /\ pos = n + 1
  <2>1. pos \in Nat
    BY DEF IInv, Typed, CallState
  <2> QED
    BY <1>1, <2>1
<1> HIDE DEF content, pos, due, n
<1>3. /\ {content[i] : i \in 1 .. n} =
           {[by |-> c, what |-> "row", line |-> k] : k \in due}
      /\ n = Cardinality(due)
  BY <1>1, <1>2, DeliverAll
<1>4. Len(content) - 1 = n /\ Len(content) = Cardinality(due) + 1
  BY <1>1, <1>2, <1>3
<1> QED
  BY <1>1, <1>3, <1>4 DEF HasRows, content, due, Footer

(***************************************************************************)
(* And its dead-letter file the other lines.                               *)
(***************************************************************************)
LEMMA OkHasRejects ==
  ASSUME IInv, NEW c \in Call, call[c].result = "ok", alone[c],
         Args(c).dead # NoPath
  PROVE  Holds(Args(c).dead, c, "bad", Due(c, FALSE))
<1> DEFINE content == file[Args(c).dead]
           due == Due(c, FALSE)
           n == call[c].dpos - 1
<1>1. /\ Len(content) = n /\ Delivered(c, "bad", content, n, <<>>, due)
      /\ IsFiniteSet(due)
  <2>1. /\ DeadOwn(c) /\ call[c].dl = "ok" /\ call[c].dlq = <<>>
        /\ DoneAs(c, FALSE) = due /\ IsFiniteSet(due)
    BY OkIsOver DEF IInv
  <2> QED
    BY <2>1 DEF DeadOwn
<1>2. DOMAIN content = 1 .. Len(content) /\ n \in Nat
  <2>1. content \in Seq(Block)
    BY CallTypes DEF IInv, Typed, Arguments
  <2> QED
    BY <1>1, <2>1
<1> HIDE DEF content, due, n
<1>3. /\ n \in Nat /\ IsFiniteSet(due)
      /\ Delivered(c, "bad", content, n, <<>>, due)
  BY <1>1, <1>2
<1>4. /\ {content[i] : i \in 1 .. n} =
           {[by |-> c, what |-> "bad", line |-> k] : k \in due}
      /\ n = Cardinality(due)
  BY <1>3, DeliverAll
<1> QED
  BY <1>1, <1>2, <1>4 DEF Holds, content, due

(***************************************************************************)
(* OkFilesIntact: whatever its other calls do, and whatever failed calls   *)
(* left running, a host that keeps to its side has after Ok every line in  *)
(* the one file it belongs in, and a true size.                            *)
(***************************************************************************)
THEOREM OkIsIntact ==
  Spec => []OkFilesIntact
<1>1. IInv => OkFilesIntact
  BY OkHasRows, OkHasRejects DEF OkFilesIntact
<1> QED
  BY <1>1, SessionInvariance, PTL

==============================================================================
