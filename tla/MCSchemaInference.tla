------------------------- MODULE MCSchemaInference -------------------------
(* Files of two lines of any kind, in one chunk or two; of two fields, the  *)
(* second of which may also be a key joined from the first; and with a      *)
(* third line, past the sample, that parse_chunk may refuse.                *)
EXTENDS Command

NoSub == [f \in Field |-> [g \in Field |-> "absent"]]
Obj(v, w) == [kind |-> "object", obj |-> <<v, w>>, sub |-> NoSub]

\* The object nested under the first field leaves v at field f: at the second
\* by a joined key, at the first if both keys are empty.
Nested(v, f, w) == [kind |-> "object", obj |-> <<"object", w>>,
                    sub |-> [NoSub EXCEPT ![1][f] = v]]

Other == [kind : {"blank", "malformed", "scalar"},
          obj : {<<"absent", "absent">>}, sub : {NoSub}]

OneField == {Obj(v, "absent") : v \in Value} \cup Other
TwoFields == {Obj(v, w) : v \in {"absent", "int", "float"},
                          w \in {"absent", "null", "bool", "long", "text"}}
Joined == {Nested(v, f, w) : v \in {"text", "array", "int"}, f \in Field,
                             w \in {"absent", "null", "bool", "int"}}

Early == {Obj(v, "absent") : v \in {"absent", "bool", "int"}} \cup Other
Late == {Obj(v, "absent") : v \in {"bool", "text"}} \cup Other

OneChunk == {{1}}
EachLine == {{1, 2}}

Files(lines, splits, marks) ==
  [data : lines, starts : splits, bom : marks]

MCInputs ==
  {[data |-> <<>>, starts |-> {}, bom |-> FALSE]}
    \cup Files([1 .. 2 -> OneField], OneChunk, {FALSE})
    \cup Files([1 .. 2 -> Early], EachLine, BOOLEAN)
    \cup Files([1 .. 2 -> TwoFields \cup Joined], OneChunk, {FALSE})
    \cup Files({<<a, b, c>> : a, b \in Early, c \in Late}, {{1}, {1, 3}},
               {FALSE})

MCConfigs ==
  [schema_path : BOOLEAN, ignore_errors : BOOLEAN, flatten : BOOLEAN,
   limit : {NoLimit}]
    \cup [schema_path : {TRUE}, ignore_errors : {FALSE}, flatten : {FALSE},
          limit : {1}]

\* A call that works, one of each kind that fails, and inference alone.
Works == [machine_telemetry |-> TRUE, infer_schema_only |-> FALSE,
          codec |-> TRUE, found |-> TRUE, writable |-> TRUE]

MCOptions == {Works} \cup
  {[Works EXCEPT !.machine_telemetry = FALSE], [Works EXCEPT !.codec = FALSE],
   [Works EXCEPT !.found = FALSE], [Works EXCEPT !.writable = FALSE],
   [Works EXCEPT !.infer_schema_only = TRUE],
   [Works EXCEPT !.infer_schema_only = TRUE, !.found = FALSE]}

Col(f, t, n) == [name |-> f, type |-> t, nullable |-> n]

\* A required flag and a count.
MCSchemaFile == <<Col(1, "Boolean", FALSE), Col(2, "Int64", TRUE)>>

\* One of the types README.md:174 lists.
NarrowSchemaFile == <<Col(1, "Int32", TRUE)>>
==============================================================================
