----------------------------- MODULE Conversion -----------------------------
(***************************************************************************)
(* What run_pipeline promises its caller, without threads or channels:     *)
(* rows reach the output file and rejected lines the dead-letter file, the *)
(* call returns once, and it may return Ok only when every owed row and    *)
(* every owed dead letter is in its file, which then never changes again.  *)
(* After a failure the files may still grow: run_pipeline returns an error *)
(* without waiting for the threads it started.                             *)
(***************************************************************************)
CONSTANTS
  DueRows,    \* the rows a successful conversion writes
  DueDead,    \* the lines a successful conversion quarantines
  Clean       \* no line of the input makes the conversion fail

VARIABLES
  status,     \* "running", "ok" or "failed": what the call returned
  rows,       \* rows in the output file
  dead        \* lines in the dead-letter file

vars == <<status, rows, dead>>

Init ==
  /\ status = "running"
  /\ rows = {}
  /\ dead = {}

Deliver ==
  /\ status # "ok"
  /\ rows' \in SUBSET DueRows
  /\ rows \subseteq rows'
  /\ UNCHANGED <<status, dead>>

Quarantine ==
  /\ status # "ok"
  /\ dead' \in SUBSET DueDead
  /\ dead \subseteq dead'
  /\ UNCHANGED <<status, rows>>

Succeed ==
  /\ status = "running"
  /\ Clean
  /\ rows = DueRows
  /\ dead = DueDead
  /\ status' = "ok"
  /\ UNCHANGED <<rows, dead>>

Fail ==
  /\ status = "running"
  /\ status' = "failed"
  /\ UNCHANGED <<rows, dead>>

Next ==
  \/ Deliver
  \/ Quarantine
  \/ Succeed
  \/ Fail

Spec == Init /\ [][Next]_vars /\ WF_vars(Succeed \/ Fail)
==============================================================================
