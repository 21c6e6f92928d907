------------------------------ MODULE Command ------------------------------
(***************************************************************************)
(* The parq command around one conversion: --infer-schema-only, which      *)
(* prints the inferred schema in the form --schema reads, and what main    *)
(* makes of an error: the JSON of --machine-telemetry or anyhow's text.    *)
(***************************************************************************)
EXTENDS SchemaInference

CONSTANT Options   \* how main may be called, and what it meets

VARIABLES
  args,    \* one of them, fixed for the run
  status,  \* "running", then the exit code
  stdout,  \* what is printed at the end, if anything
  stderr

command == <<args, status, stdout, stderr>>

\* `found`: the input, and the schema file if named, can be opened and read;
\* `writable`: so can the output and the dead-letter file be written.
Cli == [machine_telemetry : BOOLEAN, infer_schema_only : BOOLEAN,
        codec : BOOLEAN, found : BOOLEAN, writable : BOOLEAN]

ASSUME CommandAssumption == Options \subseteq Cli

Nothing == [kind |-> "nothing"]
Plain == [kind |-> "text"]
Telemetry(error_type, n) ==
  [kind |-> "json", error_type |-> error_type, line |-> n]

\* --infer-schema-only is looked at first and leaves the other options alone.
CommandInit ==
  /\ Init
  /\ args \in Options
  /\ args.infer_schema_only => ~config.schema_path
  /\ status = "running" /\ stdout = Nothing /\ stderr = Nothing

Exit(code, printed, reported) ==
  /\ status = "running"
  /\ status' = code /\ stdout' = printed /\ stderr' = reported
  /\ UNCHANGED <<vars, args>>

\* The arm of main that reports an error of run_pipeline.
Failure(error_type, n) ==
  IF args.machine_telemetry /\ ~args.infer_schema_only
  THEN Telemetry(error_type, n) ELSE Plain

\* parse_compression comes before the match: its error leaves main by `?`.
RefuseCodec ==
  /\ ~args.infer_schema_only /\ ~args.codec
  /\ Exit("1", Nothing, Plain)

CanRun == args.infer_schema_only \/ args.codec

OpenFails ==
  /\ CanRun /\ ~args.found
  /\ Exit("1", Nothing, Failure("Generic", 0))

\* infer_schema and, unless only that is asked for, parse_chunk.
Run ==
  /\ status = "running" /\ CanRun /\ args.found
  /\ args.infer_schema_only => phase = "schema"
  /\ Next
  /\ UNCHANGED command

\* Mutant of datatype_to_str: no arm for the floats.
datatype_to_str_short(type) ==
  IF type \in {"Null", "Timestamp", "Float64"} THEN "Utf8" ELSE type

datatype_to_str(type) == IF type \in {"Null", "Timestamp"} THEN "Utf8" ELSE type

str_to_datatype(name) == IF name \in DataType \ {"Null"} THEN name ELSE "Utf8"

schema_to_json_string(columns) ==
  [j \in DOMAIN columns |->
     [columns[j] EXCEPT !.type = datatype_to_str(@)]]

PrintSchema ==
  /\ args.infer_schema_only
  /\ phase = "parse"
  /\ Exit("0", [kind |-> "schema", columns |-> schema_to_json_string(schema)],
          Nothing)

\* Every chunk is parsed, but the writer or the dead-letter thread has failed:
\* the joins of run_pipeline return its error.
JoinFails ==
  /\ phase = "ok" /\ ~args.writable
  /\ Exit("1", Nothing, Failure("Generic", 0))

Succeed ==
  /\ phase = "ok" /\ args.writable
  /\ Exit("0", [kind |-> IF args.machine_telemetry THEN "json" ELSE "text"],
          Nothing)

\* Mutant of ErrorLine: inference reports the records it has accepted.
ErrorLineBehind ==
  IF phase = "schema_err" THEN rows_seen ELSE line - first + 1

\* Inference counts the records it has seen, parse_chunk the lines it has
\* read of its chunk.
ErrorLine ==
  IF phase = "schema_err" THEN rows_seen + 1 ELSE line - first + 1

\* The errors that are no ParqError, arrow's among them, are Generic.
ReportError ==
  /\ phase \in {"schema_err", "parse_err"}
  /\ Exit("1", Nothing,
          CASE error = "Arrow" -> Failure("Generic", 0)
            [] error = "InsufficientData" -> Failure(error, 0)
            [] OTHER -> Failure(error, ErrorLine))

CommandNext ==
  \/ RefuseCodec
  \/ OpenFails
  \/ Run
  \/ PrintSchema
  \/ JoinFails
  \/ Succeed
  \/ ReportError

CommandSpec == CommandInit /\ [][CommandNext]_<<vars, command>>

------------------------------------------------------------------------------
(***************************************************************************)
(* `parq --infer-schema-only > schema.json` and `--schema schema.json`     *)
(* (README.md:71): what was printed loads as the schema that was inferred, *)
(* though printing knows fewer types than loading and neither ever fails.  *)
(***************************************************************************)
PrintedSchemaLoads ==
  stdout.kind = "schema" =>
    [j \in DOMAIN stdout.columns |->
       [stdout.columns[j] EXCEPT !.type = str_to_datatype(@)]] = schema

BlankBefore(i) == Cardinality({j \in 1 .. i - 1 : data[j].kind = "blank"})

\* Line i is one that a JSON error given for line n may mean.
IsRejected(i, n) ==
  \/ /\ ~config.ignore_errors
     /\ KindAt(i) \in {"malformed", "scalar"}
     /\ \E s \in starts : i \in ChunkLines(s) /\ n = i - s + 1
  \/ /\ ~config.schema_path /\ i <= SampleSize
     /\ data[i].kind = "malformed"
     /\ n = i - BlankBefore(i)

\* Line i has a value, given as on line n, that a Boolean column refuses.
IsMismatched(i, n) ==
  /\ ~config.ignore_errors
  /\ KindAt(i) = "object"
  /\ \E s \in starts : i \in ChunkLines(s) /\ n = i - s + 1
  /\ \E j \in DOMAIN schema :
       /\ schema[j].type = "Boolean"
       /\ Flattened(i)[schema[j].name] \notin {"absent", "null", "bool"}

\* What arrow refuses a batch for: no column, a declared type that no builder
\* makes, or a row without a required value.
IsUnstorable ==
  \/ schema = <<>>
  \/ \E j \in DOMAIN schema :
       \/ ArrayType(Builder(schema[j].type)) # schema[j].type
       \/ /\ ~schema[j].nullable
          /\ \E i \in DOMAIN data :
               KindAt(i) = "object" /\ Stored(i, j) = "null"

(***************************************************************************)
(* An agent that acts on the telemetry acts on a fact.  A JSON error and a *)
(* type mismatch are on a line of the file that deserves them, if a reader *)
(* knows how the line is counted: in lines of its chunk if parsing found   *)
(* it, in records of the file, without the blank lines, if inference did.  *)
(* Too little data means a sample of blank lines; a Generic error, that a  *)
(* file could not be read or written, or rows the schema cannot store.     *)
(***************************************************************************)
TelemetryIsTrue ==
  stderr.kind = "json" =>
    CASE stderr.error_type = "JsonParse" ->
           \E i \in DOMAIN data : IsRejected(i, stderr.line)
      [] stderr.error_type = "TypeMismatch" ->
           \E i \in DOMAIN data : IsMismatched(i, stderr.line)
      [] stderr.error_type = "InsufficientData" ->
           \A i \in DOMAIN data : i <= SampleSize => data[i].kind = "blank"
      [] OTHER ->
           \/ ~args.found
           \/ ~args.writable
           \/ (\E i \in DOMAIN data : KindAt(i) = "object") /\ IsUnstorable

------------------------------------------------------------------------------
(* What the documentation says and the code does not do.                   *)

(***************************************************************************)
(* docs/telemetry.md:20: "On failure, a structured JSON error payload is   *)
(* printed to stderr with exit code 1", of --machine-telemetry.            *)
(***************************************************************************)
FailureIsStructured ==
  status = "1" /\ args.machine_telemetry => stderr.kind = "json"

==============================================================================
