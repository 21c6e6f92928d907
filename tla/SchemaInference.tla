-------------------------- MODULE SchemaInference --------------------------
(***************************************************************************)
(* Where the columns come from and what becomes of the values: run_pipeline*)
(* infers the schema from the first lines of the input, or loads it, and   *)
(* parse_chunk then reads the same lines from the start, chunk by chunk,   *)
(* with the builders of that schema.  The chunks are taken in any order,   *)
(* one at a time: they share nothing here but the error, which the first   *)
(* to fail sets.  Pipeline has their concurrency, ParseChunk the batching. *)
(***************************************************************************)
EXTENDS Columns, FiniteSetsExt

CONSTANTS
  NumFields,    \* keys an object may have, in the order of a Map
  SampleSize,   \* the lines infer_schema takes
  Inputs,       \* the files
  Configs,      \* the configurations
  SchemaFile,   \* the columns of the file --schema names
  NoLimit       \* --limit absent

Field == 1 .. NumFields

\* sub[f][g] is what the object nested under f leaves at the joined key g,
\* after flatten_rec has taken it apart.  A joined key extends f, so that f
\* sorts before it; the empty key, which sorts first, joins to its members.
LineType ==
  {l \in [kind : {"blank", "malformed", "scalar", "object"},
          obj : [Field -> Value],
          sub : [Field -> [Field -> Value \ {"object"}]]] :
     \A f, g \in Field :
       l.sub[f][g] # "absent" => l.obj[f] = "object" /\ (f < g \/ f = 1)}

\* A file: its lines, those that start a chunk, and whether a byte-order mark
\* comes first.
FileType ==
  [data : Seq(LineType), starts : SUBSET (Nat \ {0}), bom : BOOLEAN]

Column == [name : Field, type : DataType, nullable : BOOLEAN]

ConfigType == [schema_path : BOOLEAN, ignore_errors : BOOLEAN,
               flatten : BOOLEAN, limit : Nat \cup {NoLimit}]

ASSUME SchemaAssumption ==
  /\ NumFields \in Nat
  /\ SampleSize \in Nat
  /\ \A file \in Inputs :
       /\ file \in FileType
       /\ file.starts \subseteq DOMAIN file.data
       /\ file.data # <<>> => 1 \in file.starts
       /\ file.bom => file.data # <<>>
  /\ Configs \subseteq ConfigType
  /\ SchemaFile \in Seq(Column)

VARIABLES
  data,         \* the lines of the file
  starts,       \* those that start a chunk
  bom,          \* the file starts with a byte-order mark
  config,       \* the configuration
  phase,        \* "schema", "parse"; "ok", "schema_err", "parse_err" at the end
  line,         \* the last line read in this phase
  todo,         \* the starts of the chunks not taken yet
  first,        \* the start of the chunk in parse_chunk, 0 between chunks
  key,          \* the next key of the object infer_schema is in
  field_types,  \* the HashMap: no entry reads as Null
  field_order,
  rows_seen,
  schema,
  cells,        \* <<line, column, outcome>> for each value appended
  error         \* the error returned, or "none"

call == <<data, starts, bom, config>>   \* fixed for the call
inference == <<key, field_types, field_order, rows_seen>>
chunking == <<todo, first>>
vars == <<call, phase, line, inference, chunking, schema, cells, error>>

Init ==
  /\ \E file \in Inputs :
       data = file.data /\ starts = file.starts /\ bom = file.bom
  /\ config \in Configs
  /\ phase = "schema" /\ line = 0 /\ key = 1
  /\ todo = starts /\ first = 0
  /\ field_types = [f \in Field |-> "Null"]
  /\ field_order = <<>> /\ rows_seen = 0
  /\ schema = <<>> /\ cells = {} /\ error = "none"

Fail(at, kind) == phase' = at /\ error' = kind

\* The schema is there: the chunks are read from the first line again.
UseSchema(columns) ==
  /\ schema' = columns
  /\ phase' = "parse"
  /\ line' = 0

------------------------------------------------------------------------------
(* infer_schema and load_schema_from_file.                                 *)

LoadSchema ==
  /\ phase = "schema"
  /\ config.schema_path
  /\ UseSchema(SchemaFile)
  /\ UNCHANGED <<call, inference, chunking, cells, error>>

Sampling == phase = "schema" /\ ~config.schema_path

InSample == Sampling /\ line < Len(data) /\ line < SampleSize

\* strip_bom took the mark off the first line.
Sampled == data[line + 1]

SampleBlank ==
  /\ InSample
  /\ Sampled.kind = "blank"
  /\ line' = line + 1
  /\ UNCHANGED <<call, phase, inference, chunking, schema, cells, error>>

SampleMalformed ==
  /\ InSample
  /\ Sampled.kind = "malformed"
  /\ Fail("schema_err", "JsonParse")
  /\ UNCHANGED <<call, line, inference, chunking, schema, cells>>

\* A line of JSON that is not an object counts as a record all the same.
SampleScalar ==
  /\ InSample
  /\ Sampled.kind = "scalar"
  /\ line' = line + 1
  /\ rows_seen' = rows_seen + 1
  /\ UNCHANGED <<call, phase, key, field_types, field_order, chunking, schema,
                 cells, error>>

\* Mutant of Promote: the column takes the type of its latest value.
PromoteLatest(type, v) == value_type(v)

Promote(type, v) == merge(type, value_type(v))

\* Mutant of SampleKey: a field is listed whenever its type changes.
SampleKeyAgain ==
  /\ InSample
  /\ Sampled.kind = "object"
  /\ key \in Field
  /\ LET old == field_types[key]
         new == Promote(old, Sampled.obj[key])
     IN  /\ field_types' = [field_types EXCEPT ![key] = new]
         /\ field_order' = IF old # new
                           THEN Append(field_order, key) ELSE field_order
  /\ key' = key + 1
  /\ UNCHANGED <<call, phase, line, rows_seen, chunking, schema, cells, error>>

SampleKey ==
  /\ InSample
  /\ Sampled.kind = "object"
  /\ key \in Field
  /\ LET old == field_types[key]
         new == Promote(old, Sampled.obj[key])
     IN  /\ field_types' = [field_types EXCEPT ![key] = new]
         /\ field_order' = IF old = "Null" /\ new # "Null"
                           THEN Append(field_order, key) ELSE field_order
  /\ key' = key + 1
  /\ UNCHANGED <<call, phase, line, rows_seen, chunking, schema, cells, error>>

SampleObject ==
  /\ InSample
  /\ Sampled.kind = "object"
  /\ key \notin Field
  /\ key' = 1
  /\ line' = line + 1
  /\ rows_seen' = rows_seen + 1
  /\ UNCHANGED <<call, phase, field_types, field_order, chunking, schema, cells,
                 error>>

SampleOver == Sampling /\ ~InSample

NoRecords ==
  /\ SampleOver
  /\ rows_seen = 0
  /\ Fail("schema_err", "InsufficientData")
  /\ UNCHANGED <<call, line, inference, chunking, schema, cells>>

InferredColumn(i) ==
  [name |-> field_order[i], type |-> field_types[field_order[i]],
   nullable |-> TRUE]

InferSchema ==
  /\ SampleOver
  /\ rows_seen > 0
  /\ UseSchema([i \in DOMAIN field_order |-> InferredColumn(i)])
  /\ UNCHANGED <<call, inference, chunking, cells, error>>

------------------------------------------------------------------------------
(* parse_chunk with the builders of the schema, chunk after chunk.         *)

\* The first chunk starts with the mark: inference has stripped it, and
\* serde_json refuses it here.
KindAt(i) == IF bom /\ i = 1 THEN "malformed" ELSE data[i].kind

\* The lines of the chunk that starts at line s.
ChunkLines(s) ==
  {i \in DOMAIN data : s <= i /\ \A t \in starts : t <= s \/ i < t}

\* for_each_with hands a worker one of the chunks.
StartChunk ==
  /\ phase = "parse" /\ first = 0
  /\ \E s \in todo : first' = s /\ line' = s - 1 /\ todo' = todo \ {s}
  /\ UNCHANGED <<call, phase, inference, schema, cells, error>>

\* The rows of this chunk so far, and whether --limit stops it there.
Rows == {i \in first .. line : KindAt(i) = "object"}
AtLimit == config.limit # NoLimit /\ Cardinality(Rows) >= config.limit

InChunk == phase = "parse" /\ first # 0
InParse == InChunk /\ line + 1 \in ChunkLines(first) /\ ~AtLimit
ChunkOver == InChunk /\ (line + 1 \notin ChunkLines(first) \/ AtLimit)
Kind == KindAt(line + 1)

\* What flatten_rec inserts at g of line i when it comes to the key f.
Leaf(i, f, g) ==
  CASE data[i].obj[f] = "object" -> data[i].sub[f][g]
    [] f = g                     -> data[i].obj[f]
    [] OTHER                     -> "absent"

Inserters(i, g) == {f \in Field : Leaf(i, f, g) # "absent"}

AsText(v) == IF v = "array" THEN "text" ELSE v

\* Mutant of Flattened: the first leaf inserted for a key is kept.
FlattenedFirst(i) ==
  [g \in Field |->
     IF ~config.flatten THEN data[i].obj[g]
     ELSE IF Inserters(i, g) = {} THEN "absent"
     ELSE AsText(Leaf(i, Min(Inserters(i, g)), g))]

\* The object of line i as the builders see it.  With --flatten the last leaf
\* inserted for a key is kept (Flatten has the recursion).
Flattened(i) ==
  [g \in Field |->
     IF ~config.flatten THEN data[i].obj[g]
     ELSE IF Inserters(i, g) = {} THEN "absent"
     ELSE AsText(Leaf(i, Max(Inserters(i, g)), g))]

Stored(i, j) ==
  append(Builder(schema[j].type), Flattened(i)[schema[j].name],
         config.ignore_errors)

PassLine ==
  /\ InParse
  /\ \/ Kind = "blank"
     \/ Kind \in {"malformed", "scalar"} /\ config.ignore_errors
  /\ line' = line + 1
  /\ UNCHANGED <<call, phase, inference, chunking, schema, cells, error>>

AbortLine ==
  /\ InParse
  /\ Kind \in {"malformed", "scalar"}
  /\ ~config.ignore_errors
  /\ line' = line + 1
  /\ Fail("parse_err", "JsonParse")
  /\ UNCHANGED <<call, inference, chunking, schema, cells>>

Refuses(i) == \E j \in DOMAIN schema : Stored(i, j) = "refused"

\* The first value a builder refuses ends the chunk with its error.
RefuseRow ==
  /\ InParse
  /\ Kind = "object"
  /\ Refuses(line + 1)
  /\ line' = line + 1
  /\ Fail("parse_err", "TypeMismatch")
  /\ UNCHANGED <<call, inference, chunking, schema, cells>>

AppendRow ==
  /\ InParse
  /\ Kind = "object"
  /\ ~Refuses(line + 1)
  /\ line' = line + 1
  /\ cells' = cells \cup
       {<<line + 1, j, Stored(line + 1, j)>> : j \in DOMAIN schema}
  /\ UNCHANGED <<call, phase, inference, chunking, schema, error>>

\* RecordBatch::try_new: some column, arrays of the declared types, and no
\* null where the schema allows none.
BatchFits ==
  /\ schema # <<>>
  /\ \A j \in DOMAIN schema :
       /\ ArrayType(Builder(schema[j].type)) = schema[j].type
       /\ schema[j].nullable \/ \A i \in Rows : <<i, j, "null">> \notin cells

\* A flush fails, at the end of the chunk or after the row that completes a
\* batch: --batch-size, of any value, decides which.
RefuseBatch ==
  /\ ChunkOver \/ (InChunk /\ line \in Rows)
  /\ Rows # {}
  /\ ~BatchFits
  /\ Fail("parse_err", "Arrow")
  /\ UNCHANGED <<call, line, inference, chunking, schema, cells>>

EndChunk ==
  /\ ChunkOver
  /\ Rows = {} \/ BatchFits
  /\ first' = 0 /\ line' = 0
  /\ UNCHANGED <<call, phase, inference, todo, schema, cells, error>>

\* The parallel loop is over and has left no error.
AllParsed ==
  /\ phase = "parse" /\ first = 0 /\ todo = {}
  /\ phase' = "ok"
  /\ UNCHANGED <<call, line, inference, chunking, schema, cells, error>>

Next ==
  \/ LoadSchema
  \/ SampleBlank
  \/ SampleMalformed
  \/ SampleScalar
  \/ SampleKey
  \/ SampleObject
  \/ NoRecords
  \/ InferSchema
  \/ StartChunk
  \/ PassLine
  \/ AbortLine
  \/ RefuseRow
  \/ AppendRow
  \/ RefuseBatch
  \/ EndChunk
  \/ AllParsed

Spec == Init /\ [][Next]_vars

------------------------------------------------------------------------------
(***************************************************************************)
(* The type of every variable.                                             *)
(***************************************************************************)
TypeOK ==
  /\ [data |-> data, starts |-> starts, bom |-> bom] \in Inputs
  /\ config \in Configs
  /\ phase \in {"schema", "parse", "ok", "schema_err", "parse_err"}
  /\ line \in 0 .. Len(data)
  /\ todo \subseteq starts /\ first \in starts \cup {0}
  /\ key \in 1 .. NumFields + 1
  /\ field_types \in [Field -> Inferred]
  /\ field_order \in Seq(Field)
  /\ rows_seen \in Nat
  /\ schema \in Seq(Column)
  /\ \A c \in cells : c \in (1 .. Len(data)) \X Nat \X Outcome
  /\ error \in {"none", "JsonParse", "InsufficientData", "TypeMismatch",
                "Arrow"}

\* The values of field f that infer_schema has looked at.
Seen(f) ==
  {data[i].obj[f] : i \in {j \in 1 .. line : data[j].kind = "object"}}
    \cup IF InSample /\ Sampled.kind = "object" /\ f < key
         THEN {Sampled.obj[f]} ELSE {}

(***************************************************************************)
(* Whatever the order of the lines, the type promotion has given each      *)
(* field the least type of the hierarchy that holds all its values so far. *)
(***************************************************************************)
PromotionIsWidest ==
  Sampling => \A f \in Field :
    IsWidest(field_types[f], {value_type(v) : v \in Seen(f)})

(***************************************************************************)
(* The columns are the fields that had a value other than null, each once. *)
(***************************************************************************)
ColumnsOnce ==
  /\ \A f \in Field :
       field_types[f] # "Null" <=> \E i \in DOMAIN field_order : field_order[i] = f
  /\ \A i, j \in DOMAIN field_order : field_order[i] = field_order[j] => i = j

FromSample == ~config.schema_path /\ schema # <<>>

\* The value that a cell of the column store came from.
Source(c) == data[c[1]].obj[schema[c[2]].name]

\* A Boolean column that the object of line i gives a value only by a joined
\* key, and one that is no boolean.
JoinedIntoBoolean(i) ==
  \E j \in DOMAIN schema :
    /\ schema[j].type = "Boolean"
    /\ data[i].obj[schema[j].name] = "absent"
    /\ Flattened(i)[schema[j].name] \notin {"absent", "null", "bool"}

(***************************************************************************)
(* Why a conversion refuses a line it has inferred its schema from:        *)
(* parsing takes no scalar (inference does) and no marked first line, and  *)
(* with --flatten a joined key may put a value in a column it was not      *)
(* inferred from.  The other objects of the sample are taken, and arrow    *)
(* takes every batch unless the sample has no column at all.               *)
(***************************************************************************)
SampleRefusals ==
  phase = "parse_err" /\ ~config.schema_path =>
    /\ error = "JsonParse" =>
         line > SampleSize \/ data[line].kind = "scalar" \/ (bom /\ line = 1)
    /\ error = "TypeMismatch" =>
         line > SampleSize \/ (config.flatten /\ JoinedIntoBoolean(line))
    /\ error = "Arrow" => schema = <<>>

(***************************************************************************)
(* What of the sampled values does not survive: booleans of a field that   *)
(* was promoted to numbers, integers that no f64 equals in a field of      *)
(* floats, and, with --flatten, nested objects.  Every other value of a    *)
(* sampled object is kept, and no joined key takes its place.              *)
(***************************************************************************)
SampleSurvives ==
  FromSample =>
    \A c \in cells : c[1] <= SampleSize /\ c[3] \in {"null", "altered"} =>
      \/ Source(c) \in {"absent", "null"}
      \/ Source(c) = "bool" /\ schema[c[2]].type \in {"Int64", "Float64"}
      \/ Source(c) \in {"long", "big"} /\ schema[c[2]].type = "Float64"
      \/ Source(c) = "object" /\ config.flatten

------------------------------------------------------------------------------
(* What the documentation says and the code does not do.                   *)

(***************************************************************************)
(* README.md:174, "Supported types": a batch whose values are all kept and *)
(* none of them null is taken, whatever the declared types.                *)
(***************************************************************************)
DeclaredTypesWork ==
  config.schema_path /\ error = "Arrow" => \E c \in cells : c[3] # "kept"

(***************************************************************************)
(* README.md:157-158, --flatten: the members of a nested object become     *)
(* columns of the output, here of an object that the sample has seen.      *)
(***************************************************************************)
NestedSurvives ==
  phase = "ok" /\ config.flatten /\ ~config.schema_path =>
    \A i \in DOMAIN data, g \in Field :
      i <= SampleSize /\ KindAt(i) = "object"
        /\ Flattened(i)[g] \notin {"absent", "null"} =>
      \E j \in DOMAIN schema : schema[j].name = g

==============================================================================
