---------------------------- MODULE CommandProofs ----------------------------
(***************************************************************************)
(* Proofs about SchemaInference and Command, for every file, sample size   *)
(* and schema.  First infer_schema: the promotion of types does not depend *)
(* on the order of the values, each field with a value gets one column,    *)
(* and what becomes of the sample those columns were made from when it is  *)
(* parsed again.  Then the command: main adds nothing to what infer_schema        *)
(* establishes, a schema it prints loads as the one that was inferred, and *)
(* the error it reports is in the file.                                    *)
(***************************************************************************)
EXTENDS Command, FiniteSetTheorems, TLAPS

\* The groups of variables are expanded wherever they occur.
USE DEF call, inference, chunking

(***************************************************************************)
(* What the assumption on the inputs says of the file of a call.           *)
(***************************************************************************)
LEMMA FileFacts ==
  ASSUME [data |-> data, starts |-> starts, bom |-> bom] \in Inputs
  PROVE  /\ data \in Seq(LineType) /\ Len(data) \in Nat
         /\ DOMAIN data = 1 .. Len(data)
         /\ starts \subseteq 1 .. Len(data) /\ starts \subseteq Nat \ {0}
         /\ bom \in BOOLEAN
<1> DEFINE file == [data |-> data, starts |-> starts, bom |-> bom]
<1>1. /\ file \in FileType /\ file.starts \subseteq DOMAIN file.data
  BY SchemaAssumption
<1>2. /\ file.data = data /\ file.starts = starts /\ file.bom = bom
  OBVIOUS
<1>3. data \in Seq(LineType) /\ bom \in BOOLEAN
  BY <1>1, <1>2 DEF FileType
<1>4. Len(data) \in Nat /\ DOMAIN data = 1 .. Len(data)
  BY <1>3
<1> QED
  BY <1>1, <1>2, <1>3, <1>4

(***************************************************************************)
(* A call begins with one of the inputs.                                   *)
(***************************************************************************)
LEMMA InitFile ==
  Init => [data |-> data, starts |-> starts, bom |-> bom] \in Inputs
<1> SUFFICES ASSUME Init
             PROVE  [data |-> data, starts |-> starts, bom |-> bom] \in Inputs
  OBVIOUS
<1>1. PICK file \in Inputs :
             data = file.data /\ starts = file.starts /\ bom = file.bom
  BY DEF Init
<1>2. file \in FileType
  BY SchemaAssumption
<1>3. file = [data |-> data, starts |-> starts, bom |-> bom]
  BY <1>1, <1>2 DEF FileType
<1> QED
  BY <1>3

(***************************************************************************)
(* The place of each type in the hierarchy.                                *)
(***************************************************************************)
LEMMA Ranks ==
  /\ Inferred = {"Null", "Boolean", "Int64", "Float64", "Utf8"}
  /\ Rank("Null") = 1 /\ Rank("Boolean") = 2 /\ Rank("Int64") = 3
  /\ Rank("Float64") = 4 /\ Rank("Utf8") = 5
<1>1. /\ Hierarchy[1] = "Null" /\ Hierarchy[2] = "Boolean"
      /\ Hierarchy[3] = "Int64" /\ Hierarchy[4] = "Float64"
      /\ Hierarchy[5] = "Utf8"
  BY DEF Hierarchy
<1>2. 1 .. 5 = {1, 2, 3, 4, 5}
  OBVIOUS
<1>3. Inferred = {"Null", "Boolean", "Int64", "Float64", "Utf8"}
  BY <1>1, <1>2 DEF Inferred
<1>4. ASSUME NEW i \in 1 .. 5 PROVE Rank(Hierarchy[i]) = i
  <2>1. \A j \in 1 .. 5 : Hierarchy[j] = Hierarchy[i] => j = i
    BY <1>1, <1>2
  <2> QED
    BY <2>1 DEF Rank
<1> QED
  BY <1>1, <1>2, <1>3, <1>4

(***************************************************************************)
(* value_type yields a type of the hierarchy.                              *)
(***************************************************************************)
LEMMA ValueTypes == \A v : value_type(v) \in Inferred
  BY Ranks DEF value_type

(***************************************************************************)
(* merge is the wider of two types of the hierarchy.                       *)
(***************************************************************************)
LEMMA MergeWidens ==
  ASSUME NEW a \in Inferred, NEW b \in Inferred
  PROVE  /\ merge(a, b) \in {a, b}
         /\ Rank(a) <= Rank(merge(a, b)) /\ Rank(b) <= Rank(merge(a, b))
<1>1. CASE a = b \/ a = "Null" \/ b = "Null"
  <2>1. CASE a = b
    BY <2>1, Ranks DEF merge
  <2>2. CASE a = "Null" /\ b # "Null"
    BY <2>2, Ranks DEF merge
  <2>3. CASE b = "Null" /\ a # "Null"
    BY <2>3, Ranks DEF merge
  <2> QED
    BY <1>1, <2>1, <2>2, <2>3
<1>2. CASE a = "Utf8" \/ b = "Utf8"
  BY <1>2, Ranks DEF merge
<1>3. CASE a = "Boolean" /\ b \in {"Int64", "Float64"}
  BY <1>3, Ranks DEF merge
<1>4. CASE a = "Int64" /\ b \in {"Boolean", "Float64"}
  BY <1>4, Ranks DEF merge
<1>5. CASE a = "Float64" /\ b \in {"Boolean", "Int64"}
  BY <1>5, Ranks DEF merge
<1> QED
  BY <1>1, <1>2, <1>3, <1>4, <1>5, Ranks

(***************************************************************************)
(* So promoting by one more value keeps the type the widest of those seen. *)
(***************************************************************************)
LEMMA PromoteWidest ==
  ASSUME NEW t, NEW seen, IsWidest(t, {value_type(v) : v \in seen}), NEW w
  PROVE  IsWidest(Promote(t, w), {value_type(v) : v \in seen \cup {w}})
<1> DEFINE S == {value_type(v) : v \in seen}
           T == {value_type(v) : v \in seen \cup {w}}
           m == Promote(t, w)
<1>1. T = S \cup {value_type(w)} /\ S \subseteq Inferred
  BY ValueTypes
<1>2. t \in Inferred /\ value_type(w) \in Inferred
  BY <1>1, ValueTypes, Ranks DEF IsWidest
<1>3. /\ m \in {t, value_type(w)} /\ m \in Inferred
      /\ Rank(t) <= Rank(m) /\ Rank(value_type(w)) <= Rank(m)
  BY <1>2, MergeWidens DEF Promote
<1>4. \A s \in Inferred : Rank(s) \in Nat
  BY Ranks
<1>5. m \in T \cup {"Null"}
  BY <1>1, <1>3 DEF IsWidest
<1>6. \A s \in T : Rank(s) <= Rank(m)
  <2> SUFFICES ASSUME NEW s \in T PROVE Rank(s) <= Rank(m)
    OBVIOUS
  <2>1. CASE s \in S
    <3>1. Rank(s) <= Rank(t)
      BY <2>1 DEF IsWidest
    <3>2. Rank(s) \in Nat /\ Rank(t) \in Nat /\ Rank(m) \in Nat
      BY <1>1, <1>2, <1>3, <1>4, <2>1
    <3> QED
      BY <1>3, <3>1, <3>2
  <2>2. CASE s = value_type(w)
    BY <1>3, <2>2
  <2> QED
    BY <1>1, <2>1, <2>2
<1> QED
  BY <1>5, <1>6 DEF IsWidest

------------------------------------------------------------------------------
\* The part of the type invariant that inference rests on.
SampleType ==
  /\ data \in Seq(LineType)
  /\ line \in Nat /\ todo \subseteq Nat \ {0}
  /\ key \in 1 .. NumFields + 1
  /\ field_types \in [Field -> Inferred]
  /\ field_order \in Seq(Field)

\* infer_schema is past the first key only within an object.
KeyInObject ==
  Sampling /\ key # 1 => InSample /\ Sampled.kind = "object"

SInv == SampleType /\ KeyInObject /\ PromotionIsWidest /\ ColumnsOnce

(***************************************************************************)
(* Nothing has been seen at the start.                                     *)
(***************************************************************************)
LEMMA InitSInv == Init => SInv
<1> SUFFICES ASSUME Init PROVE SInv
  OBVIOUS
<1>1. NumFields \in Nat /\ data \in Seq(LineType) /\ starts \subseteq Nat \ {0}
  BY SchemaAssumption, InitFile, FileFacts
<1>2. SampleType
  BY <1>1, Ranks DEF Init, SampleType
<1>3. KeyInObject
  BY DEF Init, KeyInObject
<1>4. PromotionIsWidest
  <2> SUFFICES ASSUME NEW f \in Field
               PROVE  IsWidest(field_types[f], {value_type(v) : v \in Seen(f)})
    BY DEF PromotionIsWidest
  <2>1. ~(f < key)
    BY <1>1 DEF Init, Field
  <2>2. Seen(f) = {}
    BY <2>1 DEF Init, Seen
  <2> QED
    BY <2>2 DEF Init, IsWidest
<1>5. ColumnsOnce
  BY DEF Init, ColumnsOnce
<1> QED
  BY <1>2, <1>3, <1>4, <1>5 DEF SInv

(***************************************************************************)
(* One key of an object: its field is promoted and listed if it is new.    *)
(***************************************************************************)
LEMMA KeyKeepsSInv == SInv /\ SampleKey => SInv'
<1> SUFFICES ASSUME SInv, SampleKey PROVE SInv'
  OBVIOUS
<1> DEFINE w == Sampled.obj[key]
           new == Promote(field_types[key], w)
<1>1. /\ NumFields \in Nat /\ key \in Field /\ key' = key + 1 /\ InSample
      /\ Sampled.kind = "object" /\ SampleType /\ Sampling
      /\ UNCHANGED <<data, config, phase, line, todo>>
  BY SchemaAssumption DEF SampleKey, SInv, InSample
<1>2. /\ field_types' = [field_types EXCEPT ![key] = new]
      /\ field_order' = IF field_types[key] = "Null" /\ new # "Null"
                        THEN Append(field_order, key) ELSE field_order
  BY DEF SampleKey
<1>3. IsWidest(field_types[key], {value_type(v) : v \in Seen(key)})
  BY <1>1 DEF SInv, PromotionIsWidest
<1>4. IsWidest(new, {value_type(v) : v \in Seen(key) \cup {w}})
  BY <1>3, PromoteWidest
<1>5. new \in Inferred /\ (field_types[key] # "Null" => new # "Null")
  <2>1. field_types[key] \in Inferred /\ value_type(w) \in Inferred
    BY <1>1, ValueTypes DEF SampleType
  <2>2. /\ new \in {field_types[key], value_type(w)}
        /\ Rank(field_types[key]) <= Rank(new)
    BY <2>1, MergeWidens DEF Promote
  <2> HIDE DEF new
  <2> QED
    BY <2>1, <2>2, Ranks
<1>6. SampleType'
  <2> HIDE DEF new
  <2>1. field_types' \in [Field -> Inferred]
    BY <1>1, <1>2, <1>5 DEF SampleType
  <2>2. field_order' \in Seq(Field)
    <3>1. field_order \in Seq(Field) /\ Append(field_order, key) \in Seq(Field)
      BY <1>1 DEF SampleType
    <3>2. field_order' = field_order \/ field_order' = Append(field_order, key)
      BY <1>2
    <3> QED
      BY <3>1, <3>2, Zenon
  <2>3. key' \in 1 .. NumFields + 1
    BY <1>1 DEF Field
  <2> QED
    BY <1>1, <2>1, <2>2, <2>3 DEF SampleType
<1>7. KeyInObject'
  BY <1>1 DEF KeyInObject, InSample, Sampling, Sampled
<1>8. PromotionIsWidest'
  <2> SUFFICES ASSUME NEW f \in Field
               PROVE  IsWidest(field_types'[f],
                               {value_type(v) : v \in Seen(f)'})
    BY DEF PromotionIsWidest
  <2>1. InSample' /\ Sampled' = Sampled
    BY <1>1 DEF InSample, Sampling, Sampled
  <2>2. CASE f = key
    <3>1. ~(f < key) /\ f < key'
      BY <1>1, <2>2 DEF Field
    <3>2. Seen(f)' = Seen(key) \cup {w}
      BY <1>1, <2>1, <2>2, <3>1 DEF Seen
    <3>3. field_types'[f] = new
      BY <1>1, <1>2, <2>2 DEF SampleType
    <3> QED
      BY <1>4, <3>2, <3>3
  <2>3. CASE f # key
    <3>1. f < key' <=> f < key
      BY <1>1, <2>3 DEF Field
    <3>2. Seen(f)' = Seen(f)
      BY <1>1, <2>1, <3>1 DEF Seen
    <3>3. field_types'[f] = field_types[f]
      BY <1>1, <1>2, <2>3 DEF SampleType
    <3> QED
      BY <1>1, <3>2, <3>3 DEF SInv, PromotionIsWidest
  <2> QED
    BY <2>2, <2>3
<1>9. ColumnsOnce'
  <2> HIDE DEF new
  <2>1. /\ ColumnsOnce /\ field_order \in Seq(Field)
        /\ field_types \in [Field -> Inferred]
    BY <1>1 DEF SInv, SampleType
  <2>2. CASE field_types[key] = "Null" /\ new # "Null"
    <3> DEFINE n == Len(field_order)
    <3>1. /\ n \in Nat /\ DOMAIN field_order = 1 .. n
          /\ DOMAIN field_order' = 1 .. n + 1
          /\ field_order'[n + 1] = key
          /\ \A i \in 1 .. n : field_order'[i] = field_order[i]
      BY <1>1, <1>2, <2>1, <2>2
    <3>2. \A i \in 1 .. n : field_order[i] # key
      BY <1>1, <2>1, <2>2, <3>1 DEF ColumnsOnce
    <3>3. \A f \in Field :
            field_types'[f] # "Null" <=> f = key \/ field_types[f] # "Null"
      BY <1>2, <2>1, <2>2
    <3>4. \A i \in DOMAIN field_order' : i \in 1 .. n \/ i = n + 1
      BY <3>1
    <3>5. \A f \in Field :
            field_types'[f] # "Null"
              <=> \E i \in DOMAIN field_order' : field_order'[i] = f
      <4> SUFFICES ASSUME NEW f \in Field
                   PROVE  field_types'[f] # "Null"
                            <=> \E i \in 1 .. n + 1 : field_order'[i] = f
        BY <3>1
      <4>1. CASE f = key
        BY <3>1, <3>3, <4>1
      <4>2. CASE f # key
        BY <2>1, <3>1, <3>3, <3>4, <4>2 DEF ColumnsOnce
      <4> QED
        BY <4>1, <4>2
    <3>6. ASSUME NEW i \in DOMAIN field_order', NEW j \in DOMAIN field_order',
                 field_order'[i] = field_order'[j]
          PROVE  i = j
      BY <2>1, <3>1, <3>2, <3>4, <3>6 DEF ColumnsOnce
    <3> QED
      BY <3>5, <3>6 DEF ColumnsOnce
  <2>3. CASE ~(field_types[key] = "Null" /\ new # "Null")
    <3>1. field_order' = field_order
      BY <1>2, <2>3
    <3>2. \A f \in Field :
            field_types'[f] # "Null" <=> field_types[f] # "Null"
      BY <1>2, <1>5, <2>1, <2>3
    <3> QED
      BY <2>1, <3>1, <3>2 DEF ColumnsOnce
  <2> QED
    BY <2>2, <2>3
<1> QED
  BY <1>6, <1>7, <1>8, <1>9 DEF SInv

(***************************************************************************)
(* A line done with: what was seen of it is part of what was read.         *)
(***************************************************************************)
LEMMA LineKeepsSInv ==
  ASSUME SInv, SampleBlank \/ SampleScalar \/ SampleObject
  PROVE  SInv'
<1>1. /\ NumFields \in Nat /\ InSample /\ Sampling /\ SampleType
      /\ line' = line + 1 /\ key' = 1
      /\ UNCHANGED <<data, config, phase, field_types, field_order, todo>>
  <2>1. KeyInObject /\ SampleType /\ NumFields \in Nat
    BY SchemaAssumption DEF SInv
  <2>2. InSample /\ Sampling
    BY DEF SampleBlank, SampleScalar, SampleObject, InSample
  <2> QED
    BY <2>1, <2>2
    DEF SampleBlank, SampleScalar, SampleObject, KeyInObject
<1>2. SampleType' /\ KeyInObject' /\ ColumnsOnce'
  BY <1>1 DEF SInv, SampleType, KeyInObject, ColumnsOnce
<1>3. PromotionIsWidest'
  <2> SUFFICES ASSUME NEW f \in Field
               PROVE  IsWidest(field_types[f],
                               {value_type(v) : v \in Seen(f)'})
    BY <1>1 DEF PromotionIsWidest
  <2>1. ~(f < key') /\ f < NumFields + 1
    BY <1>1 DEF Field
  <2>2. line \in Nat /\ 1 .. line + 1 = (1 .. line) \cup {line + 1}
    BY <1>1 DEF SampleType
  <2>3. Seen(f)' = {data[i].obj[f] :
                      i \in {j \in 1 .. line + 1 : data[j].kind = "object"}}
    BY <1>1, <2>1 DEF Seen
  <2>4. CASE Sampled.kind = "object"
    <3>1. key = NumFields + 1
      BY <1>1, <2>4 DEF SampleBlank, SampleScalar, SampleObject, SampleType,
                        Field
    <3>2. Seen(f) = {data[i].obj[f] :
                       i \in {j \in 1 .. line : data[j].kind = "object"}}
                      \cup {data[line + 1].obj[f]}
      BY <1>1, <2>1, <2>4, <3>1 DEF Seen, Sampled
    <3>3. {j \in 1 .. line + 1 : data[j].kind = "object"}
            = {j \in 1 .. line : data[j].kind = "object"} \cup {line + 1}
      BY <2>2, <2>4 DEF Sampled
    <3>4. Seen(f)' = Seen(f)
      BY <2>3, <3>2, <3>3
    <3> QED
      BY <1>1, <3>4 DEF SInv, PromotionIsWidest
  <2>5. CASE Sampled.kind # "object"
    <3>1. Seen(f) = {data[i].obj[f] :
                       i \in {j \in 1 .. line : data[j].kind = "object"}}
      BY <2>5 DEF Seen
    <3>2. {j \in 1 .. line + 1 : data[j].kind = "object"}
            = {j \in 1 .. line : data[j].kind = "object"}
      BY <2>2, <2>5 DEF Sampled
    <3>3. Seen(f)' = Seen(f)
      BY <2>3, <3>1, <3>2
    <3> QED
      BY <1>1, <3>3 DEF SInv, PromotionIsWidest
  <2> QED
    BY <2>4, <2>5
<1> QED
  BY <1>2, <1>3 DEF SInv

(***************************************************************************)
(* Every other step leaves inference behind or happens after it.           *)
(***************************************************************************)
LEMMA NextSInv == SInv /\ [Next]_vars => SInv'
<1> SUFFICES ASSUME SInv, [Next]_vars PROVE SInv'
  OBVIOUS
<1>1. CASE SampleKey
  BY <1>1, KeyKeepsSInv
<1>2. CASE SampleBlank \/ SampleScalar \/ SampleObject
  BY <1>2, LineKeepsSInv
<1>3. ASSUME UNCHANGED <<data, key, field_types, field_order>>,
             line' \in Nat, todo' \subseteq todo, ~Sampling'
      PROVE  SInv'
  BY <1>3 DEF SInv, SampleType, KeyInObject, PromotionIsWidest, ColumnsOnce
<1>4. CASE UNCHANGED vars
  BY <1>4 DEF vars, SInv, SampleType, KeyInObject, PromotionIsWidest,
              ColumnsOnce, Sampling, InSample, Sampled, Seen
<1>5. CASE \/ LoadSchema \/ SampleMalformed \/ NoRecords \/ InferSchema
           \/ PassLine \/ AbortLine \/ RefuseRow \/ AppendRow
           \/ RefuseBatch \/ EndChunk \/ AllParsed
  <2>1. line \in Nat
    BY DEF SInv, SampleType
  <2>2. UNCHANGED <<data, key, field_types, field_order, todo>> /\ line' \in Nat
    BY <1>5, <2>1
    DEF LoadSchema, SampleMalformed, NoRecords, InferSchema, UseSchema,
        PassLine, AbortLine, RefuseRow, AppendRow, RefuseBatch, EndChunk,
        AllParsed
  <2>3. ~Sampling'
    BY <1>5
    DEF LoadSchema, SampleMalformed, NoRecords, InferSchema, UseSchema, Fail,
        PassLine, AbortLine, RefuseRow, AppendRow, RefuseBatch, EndChunk,
        AllParsed, Sampling, InParse, ChunkOver, InChunk
  <2> QED
    BY <1>3, <2>2, <2>3
<1>6. CASE StartChunk
  <2>1. PICK s \in todo : line' = s - 1 /\ todo' = todo \ {s}
    BY <1>6 DEF StartChunk
  <2>2. line' \in Nat /\ todo' \subseteq todo
    BY <2>1 DEF SInv, SampleType
  <2>3. UNCHANGED <<data, key, field_types, field_order>> /\ ~Sampling'
    BY <1>6 DEF StartChunk, Sampling
  <2> QED
    BY <1>3, <2>2, <2>3
<1> QED
  BY <1>1, <1>2, <1>4, <1>5, <1>6 DEF Next

(***************************************************************************)
(* infer_schema gives each field the least type that holds every value of  *)
(* the sample, in whatever order the lines come.                           *)
(***************************************************************************)
THEOREM OrderDoesNotMatter == Spec => []PromotionIsWidest
<1>1. SInv => PromotionIsWidest
  BY DEF SInv
<1> QED
  BY <1>1, InitSInv, NextSInv, PTL DEF Spec

(***************************************************************************)
(* The inferred schema has one column for each field with a value.         *)
(***************************************************************************)
THEOREM OneColumnEach == Spec => []ColumnsOnce
<1>1. SInv => ColumnsOnce
  BY DEF SInv
<1> QED
  BY <1>1, InitSInv, NextSInv, PTL DEF Spec

------------------------------------------------------------------------------
\* Inference counts every line that is not blank.
RecordsCounted ==
  phase \in {"schema", "schema_err"} =>
    rows_seen = line - Cardinality({i \in 1 .. line : data[i].kind = "blank"})

\* The inferred columns are wide enough for every object of the sample.
SchemaFits ==
  ~config.schema_path =>
    \A j \in DOMAIN schema :
      /\ schema[j].name \in Field /\ schema[j].nullable
      /\ schema[j].type \in Inferred \ {"Null"}
      /\ \A i \in DOMAIN data :
           i <= SampleSize /\ data[i].kind = "object" =>
             Rank(value_type(data[i].obj[schema[j].name]))
               <= Rank(schema[j].type)

\* Inference has not failed: no line of the sample that it read is malformed.
SampleHolds ==
  ~config.schema_path /\ phase # "schema_err" =>
    \A i \in DOMAIN data :
      i <= SampleSize /\ (phase = "schema" => i <= line) =>
        data[i].kind # "malformed"

\* A cell holds what its builder made of the value on its line.
CellsStored ==
  /\ phase = "schema" => schema = <<>> /\ cells = {}
  /\ \A c \in cells :
       \E i \in DOMAIN data, j \in DOMAIN schema :
         /\ c = <<i, j, Stored(i, j)>> /\ Stored(i, j) # "refused"
         /\ KindAt(i) = "object"

\* The error is about the last line that was read of a chunk.
InItsChunk == first \in starts /\ line \in ChunkLines(first)

\* What each way to fail says of the file and the schema.
EndsForReason ==
  /\ error = "none" => phase \notin {"schema_err", "parse_err"}
  /\ error = "JsonParse" =>
       \/ /\ phase = "schema_err" /\ line < Len(data) /\ line < SampleSize
          /\ ~config.schema_path /\ Sampled.kind = "malformed"
       \/ /\ phase = "parse_err" /\ InItsChunk /\ ~config.ignore_errors
          /\ KindAt(line) \in {"malformed", "scalar"}
  /\ error = "InsufficientData" =>
       /\ phase = "schema_err"
       /\ \A i \in DOMAIN data : i <= SampleSize => data[i].kind = "blank"
  /\ error = "TypeMismatch" =>
       /\ phase = "parse_err" /\ InItsChunk
       /\ KindAt(line) = "object" /\ Refuses(line)
  /\ error = "Arrow" =>
       /\ phase = "parse_err" /\ IsUnstorable
       /\ \E i \in DOMAIN data : KindAt(i) = "object"

FInv ==
  SInv /\ TypeOK /\ RecordsCounted /\ SchemaFits /\ SampleHolds
    /\ CellsStored /\ EndsForReason

(***************************************************************************)
(* append ends in one of the outcomes.                                     *)
(***************************************************************************)
LEMMA AppendOutcome ==
  \A b, v, ignore_errors : append(b, v, ignore_errors) \in Outcome
  BY DEF append, Outcome

(***************************************************************************)
(* The builder of an inferred type makes arrays of that type.              *)
(***************************************************************************)
LEMMA BuildersMatch ==
  \A t \in Inferred \ {"Null"} : ArrayType(Builder(t)) = t
  BY Ranks DEF ArrayType, Builder

(***************************************************************************)
(* Every step keeps every variable in its type.                            *)
(***************************************************************************)
LEMMA NextTypeOK == SInv' /\ TypeOK /\ [Next]_vars => TypeOK'
<1> SUFFICES ASSUME SInv', TypeOK, [Next]_vars PROVE TypeOK'
  OBVIOUS
<1>1. /\ key' \in 1 .. NumFields + 1 /\ field_types' \in [Field -> Inferred]
      /\ field_order' \in Seq(Field)
      /\ line \in 0 .. Len(data) /\ todo \subseteq starts
      /\ first \in starts \cup {0}
      /\ SchemaFile \in Seq(Column) /\ NumFields \in Nat
  BY SchemaAssumption DEF SInv, SampleType, TypeOK
<1>f. /\ data \in Seq(LineType) /\ Len(data) \in Nat
      /\ DOMAIN data = 1 .. Len(data) /\ starts \subseteq 1 .. Len(data)
  BY FileFacts DEF TypeOK
<1>2. CASE UNCHANGED vars
  BY <1>2 DEF vars, TypeOK
<1>3. ASSUME UNCHANGED <<call, schema, cells>>,
             line' \in 0 .. Len(data), rows_seen' \in Nat,
             todo' \subseteq todo, first' \in starts \cup {0},
             phase' = phase \/ phase' \in {"ok", "schema_err", "parse_err"},
             error' = error \/ error' \in {"JsonParse", "InsufficientData",
                                           "TypeMismatch", "Arrow"}
      PROVE  TypeOK'
  BY <1>1, <1>3 DEF TypeOK
<1>4. CASE \/ SampleBlank \/ SampleMalformed \/ SampleScalar \/ SampleKey
           \/ SampleObject \/ NoRecords
  <2>1. line' \in 0 .. Len(data)
    BY <1>1, <1>f, <1>4
    DEF SampleBlank, SampleMalformed, SampleScalar, SampleKey, SampleObject,
        NoRecords, InSample
  <2>2. rows_seen' \in Nat
    BY <1>4
    DEF SampleBlank, SampleMalformed, SampleScalar, SampleKey, SampleObject,
        NoRecords, TypeOK
  <2> QED
    BY <1>1, <1>3, <1>4, <2>1, <2>2
    DEF SampleBlank, SampleMalformed, SampleScalar, SampleKey, SampleObject,
        NoRecords, Fail
<1>5. CASE \/ PassLine \/ AbortLine \/ RefuseRow \/ RefuseBatch \/ EndChunk
           \/ AllParsed
  <2>1. line' \in 0 .. Len(data)
    BY <1>1, <1>f, <1>5
    DEF PassLine, AbortLine, RefuseRow, RefuseBatch, EndChunk, AllParsed,
        InParse, ChunkLines
  <2>2. /\ UNCHANGED <<call, schema, cells, rows_seen, todo>>
        /\ first' \in starts \cup {0}
    BY <1>1, <1>5
    DEF PassLine, AbortLine, RefuseRow, RefuseBatch, EndChunk, AllParsed
  <2> QED
    BY <1>3, <1>5, <2>1, <2>2
    DEF PassLine, AbortLine, RefuseRow, RefuseBatch, EndChunk, AllParsed,
        Fail, TypeOK
<1>6. ASSUME NEW columns \in Seq(Column), UseSchema(columns),
             UNCHANGED <<call, rows_seen, chunking, cells, error>>
      PROVE  TypeOK'
  BY <1>1, <1>f, <1>6 DEF TypeOK, UseSchema
<1>7. CASE LoadSchema
  BY <1>1, <1>6, <1>7 DEF LoadSchema
<1>8. CASE InferSchema
  <2> DEFINE columns == [i \in DOMAIN field_order |-> InferredColumn(i)]
  <2>1. /\ field_order \in Seq(Field) /\ field_types \in [Field -> Inferred]
        /\ Inferred \subseteq DataType
    BY <1>1 DEF TypeOK, DataType
  <2>2. ASSUME NEW i \in DOMAIN field_order PROVE InferredColumn(i) \in Column
    <3>1. field_order[i] \in Field
      BY <2>1
    <3>2. field_types[field_order[i]] \in Inferred
      BY <2>1, <3>1
    <3> QED
      BY <2>1, <3>1, <3>2 DEF InferredColumn, Column
  <2>3. columns \in Seq(Column)
    BY <2>1, <2>2
  <2> HIDE DEF columns
  <2> QED
    BY <1>6, <1>8, <2>3 DEF InferSchema, columns
<1>9. CASE AppendRow
  <2>1. line' = line + 1 /\ line + 1 \in 1 .. Len(data)
    BY <1>1, <1>f, <1>9 DEF AppendRow, InParse, ChunkLines
  <2>2. \A c \in cells' : c \in (1 .. Len(data)) \X Nat \X Outcome
    <3> SUFFICES ASSUME NEW c \in cells', c \notin cells
                 PROVE  c \in (1 .. Len(data)) \X Nat \X Outcome
      BY DEF TypeOK
    <3>1. PICK j \in DOMAIN schema : c = <<line + 1, j, Stored(line + 1, j)>>
      BY <1>9 DEF AppendRow
    <3>2. j \in Nat
      BY <3>1 DEF TypeOK
    <3>3. Stored(line + 1, j) \in Outcome
      BY AppendOutcome DEF Stored
    <3> QED
      BY <2>1, <3>1, <3>2, <3>3
  <2> QED
    BY <1>1, <1>9, <2>1, <2>2 DEF AppendRow, TypeOK
<1>10. CASE StartChunk
  <2>1. PICK s \in todo : /\ first' = s /\ line' = s - 1 /\ todo' = todo \ {s}
                          /\ UNCHANGED <<call, phase, rows_seen, schema, cells,
                                         error>>
    BY <1>10 DEF StartChunk
  <2>2. s \in starts /\ s \in 1 .. Len(data)
    BY <1>1, <1>f
  <2>3. line' \in 0 .. Len(data) /\ rows_seen \in Nat
    BY <1>f, <2>1, <2>2 DEF TypeOK
  <2> QED
    BY <1>3, <2>1, <2>2, <2>3
<1> QED
  BY <1>2, <1>4, <1>5, <1>7, <1>8, <1>9, <1>10 DEF Next

(***************************************************************************)
(* A blank line adds to the one count, any other line to the other.        *)
(***************************************************************************)
LEMMA NextCounted ==
  ASSUME TypeOK, RecordsCounted, [Next]_vars
  PROVE  RecordsCounted'
<1> DEFINE Blank(n) == {i \in 1 .. n : data[i].kind = "blank"}
<1>1. /\ line \in Nat /\ rows_seen \in Nat /\ Len(data) \in Nat
  BY FileFacts DEF TypeOK
<1>2. IsFiniteSet(Blank(line)) /\ Cardinality(Blank(line)) \in Nat
  <2>1. IsFiniteSet(1 .. line)
    BY <1>1, FS_Interval
  <2> QED
    BY <2>1, FS_Subset, FS_CardinalityType
<1>3. 1 .. line + 1 = (1 .. line) \cup {line + 1} /\ line + 1 \notin 1 .. line
  BY <1>1
<1>4. CASE SampleBlank
  <2>1. /\ Blank(line + 1) = Blank(line) \cup {line + 1}
        /\ line + 1 \notin Blank(line)
    BY <1>3, <1>4 DEF SampleBlank, Sampled
  <2>2. Cardinality(Blank(line + 1)) = Cardinality(Blank(line)) + 1
    BY <1>2, <2>1, FS_AddElement
  <2>3. rows_seen = line - Cardinality(Blank(line))
    BY <1>4 DEF SampleBlank, InSample, Sampling, RecordsCounted
  <2>4. line' = line + 1 /\ UNCHANGED <<data, rows_seen>>
    BY <1>4 DEF SampleBlank
  <2>5. rows_seen = (line + 1) - Cardinality(Blank(line + 1))
    BY <1>1, <1>2, <2>2, <2>3
  <2> QED
    BY <2>4, <2>5 DEF RecordsCounted
<1>5. CASE SampleScalar \/ SampleObject
  <2>1. Blank(line + 1) = Blank(line)
    BY <1>3, <1>5 DEF SampleScalar, SampleObject, Sampled
  <2>2. rows_seen = line - Cardinality(Blank(line))
    BY <1>5
    DEF SampleScalar, SampleObject, InSample, Sampling, RecordsCounted
  <2>3. line' = line + 1 /\ rows_seen' = rows_seen + 1 /\ UNCHANGED data
    BY <1>5 DEF SampleScalar, SampleObject
  <2>4. rows_seen + 1 = (line + 1) - Cardinality(Blank(line + 1))
    <3>1. Cardinality(Blank(line + 1)) = Cardinality(Blank(line))
      BY <2>1
    <3> HIDE DEF Blank
    <3> QED
      BY <1>1, <1>2, <2>2, <3>1
  <2> QED
    BY <2>3, <2>4 DEF RecordsCounted
<1>6. CASE SampleMalformed \/ SampleKey \/ NoRecords \/ UNCHANGED vars
  <2>1. UNCHANGED <<data, line, rows_seen>>
    BY <1>6 DEF SampleMalformed, SampleKey, NoRecords, vars
  <2>2. phase' \in {"schema", "schema_err"} => phase \in {"schema", "schema_err"}
    BY <1>6
    DEF SampleMalformed, SampleKey, NoRecords, InSample, SampleOver, Sampling,
        vars
  <2> QED
    BY <2>1, <2>2 DEF RecordsCounted
<1>7. CASE \/ LoadSchema \/ InferSchema \/ StartChunk \/ PassLine \/ AbortLine
           \/ RefuseRow \/ AppendRow \/ RefuseBatch \/ EndChunk \/ AllParsed
  <2>1. phase' \in {"parse", "ok", "parse_err"}
    BY <1>7
    DEF LoadSchema, InferSchema, UseSchema, StartChunk, PassLine, AbortLine,
        RefuseRow, AppendRow, RefuseBatch, EndChunk, AllParsed, InParse,
        ChunkOver, InChunk, Fail
  <2> QED
    BY <2>1 DEF RecordsCounted
<1> QED
  BY <1>4, <1>5, <1>6, <1>7 DEF Next

(***************************************************************************)
(* infer_schema ends when it has seen every object of the sample.          *)
(***************************************************************************)
LEMMA NextFits ==
  ASSUME SInv, TypeOK, SchemaFits, [Next]_vars
  PROVE  SchemaFits'
<1>1. CASE InferSchema /\ ~config.schema_path
  <2>1. /\ schema' = [k \in DOMAIN field_order |-> InferredColumn(k)]
        /\ UNCHANGED <<data, config>> /\ Sampling /\ ~InSample
    BY <1>1 DEF InferSchema, UseSchema, SampleOver
  <2>2. /\ field_order \in Seq(Field) /\ field_types \in [Field -> Inferred]
        /\ ColumnsOnce /\ PromotionIsWidest
    BY DEF SInv, SampleType
  <2>3. ASSUME NEW i \in DOMAIN data, i <= SampleSize PROVE i \in 1 .. line
    BY <2>1, <2>3, FileFacts, SchemaAssumption DEF InSample, TypeOK
  <2>4. ASSUME NEW j \in DOMAIN schema'
        PROVE  /\ schema'[j].name \in Field /\ schema'[j].nullable
               /\ schema'[j].type \in Inferred \ {"Null"}
               /\ \A i \in DOMAIN data :
                    i <= SampleSize /\ data[i].kind = "object" =>
                      Rank(value_type(data[i].obj[schema'[j].name]))
                        <= Rank(schema'[j].type)
    <3> DEFINE f == field_order[j]
    <3>1. j \in DOMAIN field_order /\ f \in Field
      BY <2>1, <2>2, <2>4
    <3>2. schema'[j] = [name |-> f, type |-> field_types[f], nullable |-> TRUE]
      BY <2>1, <3>1 DEF InferredColumn
    <3>3. field_types[f] \in Inferred \ {"Null"}
      BY <2>2, <3>1 DEF ColumnsOnce
    <3>4. IsWidest(field_types[f], {value_type(v) : v \in Seen(f)})
      BY <2>1, <2>2, <3>1 DEF PromotionIsWidest
    <3>5. ASSUME NEW i \in DOMAIN data, i <= SampleSize,
                 data[i].kind = "object"
          PROVE  Rank(value_type(data[i].obj[f])) <= Rank(field_types[f])
      <4>1. data[i].obj[f] \in Seen(f)
        BY <2>3, <3>5 DEF Seen
      <4> QED
        BY <3>4, <4>1 DEF IsWidest
    <3> HIDE DEF f
    <3> QED
      BY <3>1, <3>2, <3>3, <3>5
  <2> QED
    BY <2>1, <2>4 DEF SchemaFits
<1>2. CASE LoadSchema
  BY <1>2 DEF LoadSchema, SchemaFits
<1>3. CASE InferSchema /\ config.schema_path
  BY <1>3 DEF InferSchema, SampleOver, Sampling
<1>4. CASE \/ SampleBlank \/ SampleMalformed \/ SampleScalar \/ SampleKey
           \/ SampleObject \/ NoRecords \/ StartChunk \/ PassLine
           \/ AbortLine \/ RefuseRow \/ AppendRow \/ RefuseBatch \/ EndChunk
           \/ AllParsed \/ UNCHANGED vars
  <2>1. UNCHANGED <<data, config, schema>>
    BY <1>4
    DEF SampleBlank, SampleMalformed, SampleScalar, SampleKey, SampleObject,
        NoRecords, StartChunk, PassLine, AbortLine, RefuseRow, AppendRow,
        RefuseBatch, EndChunk, AllParsed, vars
  <2> QED
    BY <2>1 DEF SchemaFits
<1> QED
  BY <1>1, <1>2, <1>3, <1>4 DEF Next

(***************************************************************************)
(* A malformed line ends inference where it is read.                       *)
(***************************************************************************)
LEMMA NextHolds ==
  ASSUME TypeOK, SampleHolds, [Next]_vars
  PROVE  SampleHolds'
<1>1. /\ line \in Nat /\ DOMAIN data = 1 .. Len(data) /\ Len(data) \in Nat
      /\ SampleSize \in Nat /\ line \in 0 .. Len(data)
  BY FileFacts, SchemaAssumption DEF TypeOK
<1>2. CASE SampleBlank \/ SampleScalar \/ SampleObject
  <2>1. /\ Sampled.kind # "malformed" /\ line' = line + 1 /\ Sampling
        /\ UNCHANGED <<data, config, phase>>
    BY <1>2 DEF SampleBlank, SampleScalar, SampleObject, InSample
  <2>2. \A i \in DOMAIN data : i <= line' => i <= line \/ i = line + 1
    BY <1>1, <2>1
  <2> QED
    BY <2>1, <2>2 DEF SampleHolds, Sampled, Sampling
<1>3. CASE InferSchema
  <2>1. /\ Sampling /\ ~InSample /\ phase' = "parse" /\ UNCHANGED <<data, config>>
    BY <1>3 DEF InferSchema, UseSchema, SampleOver
  <2>2. \A i \in DOMAIN data : i <= SampleSize => i <= line
    BY <1>1, <2>1 DEF InSample
  <2> QED
    BY <2>1, <2>2 DEF SampleHolds, Sampling
<1>4. CASE SampleMalformed \/ NoRecords
  BY <1>4 DEF SampleMalformed, NoRecords, Fail, SampleHolds
<1>5. CASE LoadSchema
  BY <1>5 DEF LoadSchema, SampleHolds
<1>6. CASE SampleKey \/ UNCHANGED vars
  <2>1. UNCHANGED <<data, config, phase, line>>
    BY <1>6 DEF SampleKey, vars
  <2> QED
    BY <2>1 DEF SampleHolds
<1>7. CASE \/ StartChunk \/ PassLine \/ AbortLine \/ RefuseRow \/ AppendRow
           \/ RefuseBatch \/ EndChunk \/ AllParsed
  <2>1. /\ phase = "parse" /\ phase' \in {"parse", "ok", "parse_err"}
        /\ UNCHANGED <<data, config>>
    BY <1>7
    DEF StartChunk, PassLine, AbortLine, RefuseRow, AppendRow, RefuseBatch,
        EndChunk, AllParsed, InParse, ChunkOver, InChunk, Fail
  <2> QED
    BY <2>1 DEF SampleHolds
<1> QED
  BY <1>2, <1>3, <1>4, <1>5, <1>6, <1>7 DEF Next

(***************************************************************************)
(* Only AppendRow makes cells, and none of the columns changes after it.   *)
(***************************************************************************)
LEMMA NextStored ==
  ASSUME TypeOK, CellsStored, [Next]_vars
  PROVE  CellsStored'
<1>1. ASSUME UNCHANGED <<call, schema, cells>>,
             phase' = "schema" => phase = "schema"
      PROVE  CellsStored'
  <2>1. \A i, j : Stored(i, j)' = Stored(i, j)
    BY <1>1 DEF Stored, Flattened, Inserters, Leaf
  <2>2. \A i : KindAt(i)' = KindAt(i)
    BY <1>1 DEF KindAt
  <2> QED
    BY <1>1, <2>1, <2>2 DEF CellsStored
<1>2. CASE LoadSchema \/ InferSchema
  <2>1. cells' = {} /\ phase' = "parse"
    BY <1>2
    DEF LoadSchema, InferSchema, UseSchema, SampleOver, Sampling, CellsStored
  <2> QED
    BY <2>1 DEF CellsStored
<1>3. CASE AppendRow
  <2>1. /\ KindAt(line + 1) = "object" /\ line + 1 \in DOMAIN data
        /\ ~Refuses(line + 1) /\ phase' = "parse" /\ UNCHANGED <<call, schema>>
    BY <1>3 DEF AppendRow, InParse, InChunk, Kind, ChunkLines
  <2>2. \A i, j : Stored(i, j)' = Stored(i, j)
    BY <2>1 DEF Stored, Flattened, Inserters, Leaf
  <2>3. \A i : KindAt(i)' = KindAt(i)
    BY <2>1 DEF KindAt
  <2>4. ASSUME NEW c \in cells'
        PROVE  \E i \in DOMAIN data, j \in DOMAIN schema :
                 /\ c = <<i, j, Stored(i, j)>> /\ Stored(i, j) # "refused"
                 /\ KindAt(i) = "object"
    <3>1. CASE c \in cells
      BY <3>1 DEF CellsStored
    <3>2. CASE c \notin cells
      <4>1. PICK j \in DOMAIN schema : c = <<line + 1, j, Stored(line + 1, j)>>
        BY <1>3, <2>4, <3>2 DEF AppendRow
      <4>2. Stored(line + 1, j) # "refused"
        BY <2>1 DEF Refuses
      <4> QED
        BY <2>1, <4>1, <4>2
    <3> QED
      BY <3>1, <3>2
  <2> QED
    BY <2>1, <2>2, <2>3, <2>4 DEF CellsStored
<1>4. CASE \/ SampleBlank \/ SampleMalformed \/ SampleScalar \/ SampleKey
           \/ SampleObject \/ NoRecords \/ StartChunk \/ PassLine
           \/ AbortLine \/ RefuseRow \/ RefuseBatch \/ EndChunk \/ AllParsed
           \/ UNCHANGED vars
  <2>1. UNCHANGED <<call, schema, cells>>
    BY <1>4
    DEF SampleBlank, SampleMalformed, SampleScalar, SampleKey, SampleObject,
        NoRecords, StartChunk, PassLine, AbortLine, RefuseRow, RefuseBatch,
        EndChunk, AllParsed, vars
  <2>2. phase' = "schema" => phase = "schema"
    BY <1>4
    DEF SampleBlank, SampleMalformed, SampleScalar, SampleKey, SampleObject,
        NoRecords, StartChunk, PassLine, AbortLine, RefuseRow, RefuseBatch,
        EndChunk, AllParsed, Fail, vars
  <2> QED
    BY <1>1, <2>1, <2>2
<1> QED
  BY <1>2, <1>3, <1>4 DEF Next

(***************************************************************************)
(* A batch that arrow does not take has rows of the file and a column that *)
(* cannot hold them.                                                       *)
(***************************************************************************)
LEMMA RefusedForReason ==
  ASSUME TypeOK, CellsStored, InChunk, Rows # {}, ~BatchFits
  PROVE  IsUnstorable /\ \E i \in DOMAIN data : KindAt(i) = "object"
<1>1. Rows \subseteq {i \in DOMAIN data : KindAt(i) = "object"}
  <2>1. /\ first \in 1 .. Len(data) /\ line \in 0 .. Len(data)
        /\ DOMAIN data = 1 .. Len(data) /\ Len(data) \in Nat
    BY FileFacts DEF TypeOK, InChunk
  <2>2. first .. line \subseteq DOMAIN data
    BY <2>1
  <2> QED
    BY <2>2 DEF Rows
<1>2. IsUnstorable
  <2>1. CASE schema = <<>>
    BY <2>1 DEF IsUnstorable
  <2>2. CASE schema # <<>>
    <3>1. PICK j \in DOMAIN schema :
                 \/ ArrayType(Builder(schema[j].type)) # schema[j].type
                 \/ /\ ~schema[j].nullable
                    /\ \E i \in Rows : <<i, j, "null">> \in cells
      BY <2>2 DEF BatchFits
    <3>2. ASSUME NEW i \in Rows, <<i, j, "null">> \in cells
          PROVE  i \in DOMAIN data /\ KindAt(i) = "object" /\ Stored(i, j) = "null"
      <4>1. PICK h \in DOMAIN data, k \in DOMAIN schema :
                   <<i, j, "null">> = <<h, k, Stored(h, k)>>
        BY <3>2 DEF CellsStored
      <4> QED
        BY <1>1, <3>2, <4>1
    <3> QED
      BY <3>1, <3>2 DEF IsUnstorable
  <2> QED
    BY <2>1, <2>2
<1> QED
  BY <1>1, <1>2

(***************************************************************************)
(* A call ends for a reason that is in the file, and stays ended.          *)
(***************************************************************************)
LEMMA NextEnds ==
  ASSUME TypeOK, RecordsCounted, CellsStored, EndsForReason, [Next]_vars
  PROVE  EndsForReason'
<1>1. line \in Nat /\ Len(data) \in Nat /\ DOMAIN data = 1 .. Len(data)
  BY FileFacts DEF TypeOK
<1>u. ASSUME UNCHANGED <<call, schema>>
      PROVE  /\ \A i : KindAt(i)' = KindAt(i)
             /\ \A i : Refuses(i)' = Refuses(i)
             /\ \A s : ChunkLines(s)' = ChunkLines(s)
             /\ IsUnstorable' = IsUnstorable
  <2>1. \A i : KindAt(i)' = KindAt(i)
    BY <1>u DEF KindAt
  <2>2. \A i, j : Stored(i, j)' = Stored(i, j)
    BY <1>u DEF Stored, Flattened, Inserters, Leaf
  <2>3. \A i : Refuses(i)' = Refuses(i)
    BY <1>u, <2>2 DEF Refuses
  <2>4. \A s : ChunkLines(s)' = ChunkLines(s)
    BY <1>u DEF ChunkLines
  <2>5. IsUnstorable' = IsUnstorable
    BY <1>u, <2>1, <2>2 DEF IsUnstorable
  <2> QED
    BY <2>1, <2>3, <2>4, <2>5
<1>2. CASE UNCHANGED vars
  <2>1. /\ phase' = phase /\ error' = error /\ line' = line /\ first' = first
        /\ UNCHANGED <<call, schema>>
    BY <1>2 DEF vars
  <2>2. Sampled' = Sampled
    BY <2>1 DEF Sampled
  <2>3. InItsChunk' = InItsChunk
    BY <1>u, <2>1 DEF InItsChunk
  <2>4. KindAt(line)' = KindAt(line) /\ Refuses(line)' = Refuses(line)
    BY <1>u, <2>1
  <2> QED
    BY <1>u, <2>1, <2>2, <2>3, <2>4 DEF EndsForReason
<1>3. phase \in {"schema", "parse"} => error = "none"
  BY DEF EndsForReason, TypeOK
<1>4. CASE \/ LoadSchema \/ SampleBlank \/ SampleScalar \/ SampleKey
           \/ SampleObject \/ InferSchema \/ StartChunk \/ PassLine
           \/ AppendRow \/ EndChunk \/ AllParsed
  <2>1. phase' \in {"schema", "parse", "ok"} /\ error' = "none"
    BY <1>3, <1>4
    DEF LoadSchema, SampleBlank, SampleScalar, SampleKey, SampleObject,
        InferSchema, UseSchema, StartChunk, PassLine, AppendRow, EndChunk,
        AllParsed, InSample, SampleOver, Sampling, InParse, ChunkOver, InChunk
  <2> QED
    BY <2>1 DEF EndsForReason
<1>5. CASE SampleMalformed
  BY <1>1, <1>5
  DEF SampleMalformed, InSample, Sampling, Fail, EndsForReason, Sampled
<1>6. CASE NoRecords
  <2> DEFINE Blank == {i \in 1 .. line : data[i].kind = "blank"}
  <2>1. /\ rows_seen = 0 /\ ~InSample /\ phase' = "schema_err"
        /\ error' = "InsufficientData" /\ UNCHANGED data /\ Sampling
    BY <1>6 DEF NoRecords, SampleOver, Fail
  <2>2. line = Cardinality(Blank)
    <3>1. 0 = line - Cardinality(Blank)
      BY <2>1 DEF RecordsCounted, Sampling
    <3>2. IsFiniteSet(1 .. line) /\ Blank \in SUBSET (1 .. line)
      BY <1>1, FS_Interval
    <3> HIDE DEF Blank
    <3>3. IsFiniteSet(Blank)
      BY <3>2, FS_Subset
    <3>4. Cardinality(Blank) \in Nat
      BY <3>3, FS_CardinalityType
    <3> QED
      BY <1>1, <3>1, <3>4
  <2>3. Blank = 1 .. line
    <3>1. /\ IsFiniteSet(1 .. line) /\ Cardinality(1 .. line) = line
          /\ Blank \in SUBSET (1 .. line)
      BY <1>1, FS_Interval
    <3> HIDE DEF Blank
    <3>2. Cardinality(Blank) = Cardinality(1 .. line) => Blank = 1 .. line
      BY <3>1, FS_Subset
    <3> QED
      BY <2>2, <3>1, <3>2
  <2>4. \A i \in DOMAIN data : i <= SampleSize => i \in 1 .. line
    BY <1>1, <2>1, SchemaAssumption DEF InSample, TypeOK
  <2>5. \A i \in DOMAIN data : i <= SampleSize => data[i].kind = "blank"
    BY <2>3, <2>4
  <2> QED
    BY <2>1, <2>5 DEF EndsForReason
<1>7. CASE AbortLine \/ RefuseRow
  <2>1. /\ line' = line + 1 /\ line + 1 \in ChunkLines(first)
        /\ first' = first /\ first # 0 /\ UNCHANGED <<call, schema>>
        /\ phase' = "parse_err"
    BY <1>7 DEF AbortLine, RefuseRow, InParse, InChunk, Fail
  <2>2. InItsChunk'
    BY <1>u, <2>1 DEF InItsChunk, TypeOK
  <2>3. KindAt(line)' = Kind /\ Refuses(line)' = Refuses(line + 1)
    BY <1>u, <2>1 DEF Kind
  <2>4. CASE AbortLine
    BY <2>1, <2>2, <2>3, <2>4 DEF AbortLine, Fail, EndsForReason
  <2>5. CASE RefuseRow
    BY <2>1, <2>2, <2>3, <2>5 DEF RefuseRow, Fail, EndsForReason
  <2> QED
    BY <1>7, <2>4, <2>5
<1>8. CASE RefuseBatch
  <2>1. /\ phase' = "parse_err" /\ error' = "Arrow" /\ UNCHANGED <<call, schema>>
        /\ InChunk /\ Rows # {} /\ ~BatchFits
    BY <1>8 DEF RefuseBatch, ChunkOver, Fail
  <2> QED
    BY <1>u, <2>1, RefusedForReason DEF EndsForReason
<1> QED
  BY <1>2, <1>4, <1>5, <1>6, <1>7, <1>8 DEF Next

(***************************************************************************)
(* A call starts with nothing read and nothing built.                      *)
(***************************************************************************)
LEMMA InitFInv == Init => FInv
<1> SUFFICES ASSUME Init PROVE FInv
  OBVIOUS
<1>1. SInv
  BY InitSInv
<1>2. Len(data) \in Nat /\ NumFields \in Nat
  BY SchemaAssumption, InitFile, FileFacts
<1>3. TypeOK
  BY <1>2, InitFile, Ranks DEF Init, TypeOK
<1>4. RecordsCounted
  <2>1. line = 0 /\ rows_seen = 0
    BY DEF Init
  <2>2. {i \in 1 .. line : data[i].kind = "blank"} = {}
    BY <2>1
  <2> QED
    BY <2>1, <2>2, FS_EmptySet DEF RecordsCounted
<1>5. SchemaFits /\ CellsStored /\ EndsForReason
  BY DEF Init, SchemaFits, CellsStored, EndsForReason
<1>6. SampleHolds
  BY <1>2, InitFile, FileFacts DEF Init, SampleHolds
<1> QED
  BY <1>1, <1>3, <1>4, <1>5, <1>6 DEF FInv

(***************************************************************************)
(* Every step of a conversion keeps its invariant.                         *)
(***************************************************************************)
LEMMA NextFInv == FInv /\ [Next]_vars => FInv'
  BY NextSInv, NextTypeOK, NextCounted, NextFits, NextHolds, NextStored, NextEnds
  DEF FInv

(***************************************************************************)
(* The inductive invariant of a conversion.                                *)
(***************************************************************************)
THEOREM SchemaInvariance == Spec => []FInv
  BY InitFInv, NextFInv, PTL DEF Spec

(***************************************************************************)
(* Every variable of infer_schema and of the parsing keeps its type.       *)
(***************************************************************************)
THEOREM SchemaTyped == Spec => []TypeOK
<1>1. FInv => TypeOK
  BY DEF FInv
<1> QED
  BY <1>1, SchemaInvariance, PTL

------------------------------------------------------------------------------
(***************************************************************************)
(* What append does with a value v under a column that is wide enough for  *)
(* it, and with the w that --flatten makes of it: w is refused only if it  *)
(* is a joined value, and what is not kept is one of four.                 *)
(***************************************************************************)
LEMMA WideEnough ==
  ASSUME NEW v \in Value, NEW t \in Inferred \ {"Null"},
         Rank(value_type(v)) <= Rank(t), NEW flatten \in BOOLEAN,
         NEW ignore_errors \in BOOLEAN, NEW w,
         w \in {v, AsText(v)} \/ (flatten /\ v \in {"absent", "object"})
  PROVE  /\ append(Builder(t), w, ignore_errors) = "refused" =>
              /\ flatten /\ v = "absent" /\ t = "Boolean"
              /\ w \notin {"absent", "null", "bool"}
         /\ append(Builder(t), w, ignore_errors) \in {"null", "altered"} =>
              \/ v \in {"absent", "null"}
              \/ v = "bool" /\ t \in {"Int64", "Float64"}
              \/ v \in {"long", "big"} /\ t = "Float64"
              \/ v = "object" /\ flatten
<1>1. CASE t = "Boolean"
  <2>1. value_type(v) \in {"Null", "Boolean"}
    BY <1>1, Ranks, ValueTypes
  <2>2. v \in {"absent", "null", "bool"}
    BY <2>1 DEF value_type, Value
  <2>3. w = v \/ (flatten /\ v = "absent")
    BY <2>2 DEF AsText
  <2>4. Builder(t) = "Bool"
    BY <1>1 DEF Builder
  <2>5. append("Bool", w, ignore_errors) = "refused" =>
          w \notin {"absent", "null", "bool"}
    BY DEF append, Kept, Altered, Refused
  <2>6. append("Bool", "bool", ignore_errors) = "kept"
    BY DEF append, Kept, Altered, Refused
  <2> QED
    BY <1>1, <2>2, <2>3, <2>4, <2>5, <2>6
<1>2. CASE t = "Int64"
  <2>1. value_type(v) \in {"Null", "Boolean", "Int64"}
    BY <1>2, Ranks, ValueTypes
  <2>2. v \in {"absent", "null", "bool", "int", "long"}
    BY <2>1 DEF value_type, Value
  <2>3. w = v \/ v = "absent"
    BY <2>2 DEF AsText
  <2> QED
    BY <1>2, <2>2, <2>3 DEF append, Kept, Altered, Refused, Builder
<1>3. CASE t = "Float64"
  <2>1. value_type(v) \in {"Null", "Boolean", "Int64", "Float64"}
    BY <1>3, Ranks, ValueTypes
  <2>2. v \in {"absent", "null", "bool", "int", "long", "big", "float"}
    BY <2>1 DEF value_type, Value
  <2>3. w = v \/ v = "absent"
    BY <2>2 DEF AsText
  <2> QED
    BY <1>3, <2>2, <2>3 DEF append, Kept, Altered, Refused, Builder
<1>4. CASE t = "Utf8"
  <2>1. Builder(t) = "Str"
    BY <1>4 DEF Builder
  <2>2. append("Str", w, ignore_errors) # "refused"
    BY DEF append, Refused
  <2>3. CASE v \in {"absent", "null"} \/ (flatten /\ v = "object")
    BY <2>1, <2>2, <2>3
  <2>4. CASE v \notin {"absent", "null"} /\ ~(flatten /\ v = "object")
    <3>1. w \in Value \ {"absent", "null"}
      BY <2>4 DEF AsText, Value
    <3>2. append("Str", w, ignore_errors) = "kept"
      BY <3>1 DEF append, Kept, Altered, Refused
    <3> QED
      BY <2>1, <3>2
  <2> QED
    BY <2>3, <2>4
<1> QED
  BY <1>1, <1>2, <1>3, <1>4, Ranks

(***************************************************************************)
(* --flatten leaves the value of a top-level key alone, but for an object: *)
(* a joined key extends the key of the object it comes from, which is thus *)
(* visited earlier, and the last value that is inserted stays.             *)
(***************************************************************************)
LEMMA TopLevelWins ==
  ASSUME TypeOK, NEW i \in DOMAIN data, NEW g \in Field,
         data[i].obj[g] \notin {"absent", "object"}, config.flatten
  PROVE  Flattened(i)[g] = AsText(data[i].obj[g])
<1> DEFINE S == Inserters(i, g)
<1>1. data[i] \in LineType
  BY FileFacts DEF TypeOK
<1>2. Leaf(i, g, g) = data[i].obj[g]
  BY DEF Leaf
<1>3. g \in S
  BY <1>2 DEF Inserters
<1>4. ASSUME NEW f \in S PROVE f \in Int /\ f <= g
  <2>1. f \in Field /\ g \in Nat /\ g >= 1 /\ f \in Nat
    BY SchemaAssumption DEF Inserters, Field
  <2>2. CASE f = g
    BY <2>1, <2>2
  <2>3. CASE f # g
    <3>1. data[i].sub[f][g] # "absent"
      BY <2>3 DEF Inserters, Leaf
    <3>2. f < g \/ f = 1
      BY <1>1, <2>1, <3>1 DEF LineType
    <3> QED
      BY <2>1, <3>2
  <2> QED
    BY <2>2, <2>3
<1>5. Max(S) = g
  <2>1. g \in Int
    BY <1>3, <1>4
  <2>2. \A y \in S : g >= y
    BY <1>4, <2>1
  <2>3. ASSUME NEW x \in S, \A y \in S : x >= y PROVE x = g
    <3>1. x >= g /\ x <= g /\ x \in Int
      BY <1>3, <1>4, <2>3
    <3> QED
      BY <2>1, <3>1
  <2> HIDE DEF S
  <2> QED
    BY <1>3, <2>2, <2>3 DEF Max
<1> QED
  BY <1>2, <1>3, <1>5 DEF Flattened

(***************************************************************************)
(* The same for a value of the sample and its column of the schema.        *)
(***************************************************************************)
LEMMA SampledStored ==
  ASSUME TypeOK, SchemaFits, ~config.schema_path,
         NEW i \in DOMAIN data, i <= SampleSize, data[i].kind = "object",
         NEW j \in DOMAIN schema
  PROVE  LET v == data[i].obj[schema[j].name] IN
         /\ Stored(i, j) = "refused" =>
              /\ config.flatten /\ v = "absent" /\ schema[j].type = "Boolean"
              /\ Flattened(i)[schema[j].name] \notin {"absent", "null", "bool"}
         /\ Stored(i, j) \in {"null", "altered"} =>
              \/ v \in {"absent", "null"}
              \/ v = "bool" /\ schema[j].type \in {"Int64", "Float64"}
              \/ v \in {"long", "big"} /\ schema[j].type = "Float64"
              \/ v = "object" /\ config.flatten
<1> DEFINE f == schema[j].name
           t == schema[j].type
           v == data[i].obj[f]
           w == Flattened(i)[f]
<1>1. /\ f \in Field /\ t \in Inferred \ {"Null"}
      /\ Rank(value_type(v)) <= Rank(t)
  BY DEF SchemaFits
<1>2. v \in Value
  <2>1. data[i] \in LineType
    BY FileFacts DEF TypeOK
  <2> QED
    BY <1>1, <2>1 DEF LineType
<1>3. config.flatten \in BOOLEAN /\ config.ignore_errors \in BOOLEAN
  BY SchemaAssumption DEF TypeOK, ConfigType
<1>4. w \in {v, AsText(v)} \/ (config.flatten /\ v \in {"absent", "object"})
  <2>1. CASE ~config.flatten
    BY <1>1, <2>1 DEF Flattened
  <2>2. CASE config.flatten /\ v \notin {"absent", "object"}
    BY <1>1, <2>2, TopLevelWins
  <2> QED
    BY <2>1, <2>2
<1>5. Stored(i, j) = append(Builder(t), w, config.ignore_errors)
  BY DEF Stored
<1> HIDE DEF f, t, v, w
<1> QED
  BY <1>1, <1>2, <1>3, <1>4, <1>5, WideEnough DEF f, t, v, w

(***************************************************************************)
(* A value that its column's type holds is not refused, and the arrays of  *)
(* inferred columns are of the declared types.                             *)
(***************************************************************************)
LEMMA AcceptsSample == FInv => SampleRefusals
<1> SUFFICES ASSUME FInv, phase = "parse_err", ~config.schema_path
             PROVE  /\ error = "JsonParse" =>
                         \/ line > SampleSize \/ data[line].kind = "scalar"
                         \/ bom /\ line = 1
                    /\ error = "TypeMismatch" =>
                         \/ line > SampleSize
                         \/ config.flatten /\ JoinedIntoBoolean(line)
                    /\ error = "Arrow" => schema = <<>>
  BY DEF SampleRefusals
<1> USE DEF FInv
<1>1. /\ SampleSize \in Nat /\ DOMAIN data = 1 .. Len(data) /\ Len(data) \in Nat
      /\ line \in 0 .. Len(data)
  BY SchemaAssumption, FileFacts DEF TypeOK
<1>2. ASSUME error = "JsonParse", line <= SampleSize, ~(bom /\ line = 1)
      PROVE  data[line].kind = "scalar"
  <2>1. /\ line \in DOMAIN data /\ data[line].kind \in {"malformed", "scalar"}
    BY <1>2 DEF EndsForReason, InItsChunk, ChunkLines, KindAt
  <2> QED
    BY <1>1, <1>2, <2>1 DEF SampleHolds
<1>3. ASSUME error = "TypeMismatch", line <= SampleSize
      PROVE  config.flatten /\ JoinedIntoBoolean(line)
  <2>1. line \in DOMAIN data /\ KindAt(line) = "object" /\ Refuses(line)
    BY <1>3 DEF EndsForReason, InItsChunk, ChunkLines
  <2>2. data[line].kind = "object"
    BY <2>1 DEF KindAt
  <2>3. PICK j \in DOMAIN schema : Stored(line, j) = "refused"
    BY <2>1 DEF Refuses
  <2> QED
    BY <1>3, <2>1, <2>2, <2>3, SampledStored DEF JoinedIntoBoolean
<1>4. ASSUME error = "Arrow" PROVE schema = <<>>
  BY <1>4, BuildersMatch DEF EndsForReason, IsUnstorable, SchemaFits
<1> QED
  BY <1>1, <1>2, <1>3, <1>4

(***************************************************************************)
(* Each cell comes from a value, and from a sampled one as WideEnough says.*)
(***************************************************************************)
LEMMA KeepsSample == FInv => SampleSurvives
<1> SUFFICES ASSUME FInv, FromSample, NEW c \in cells, c[1] <= SampleSize,
                    c[3] \in {"null", "altered"}
             PROVE  \/ Source(c) \in {"absent", "null"}
                    \/ /\ Source(c) = "bool"
                       /\ schema[c[2]].type \in {"Int64", "Float64"}
                    \/ /\ Source(c) \in {"long", "big"}
                       /\ schema[c[2]].type = "Float64"
                    \/ Source(c) = "object" /\ config.flatten
  BY DEF SampleSurvives
<1>1. PICK i \in DOMAIN data, j \in DOMAIN schema :
             c = <<i, j, Stored(i, j)>> /\ KindAt(i) = "object"
  BY DEF FInv, CellsStored
<1>2. data[i].kind = "object"
  BY <1>1 DEF KindAt
<1>3. c[1] = i /\ c[2] = j /\ c[3] = Stored(i, j)
  BY <1>1
<1> QED
  BY <1>2, <1>3, SampledStored DEF FInv, FromSample, Source

(***************************************************************************)
(* A line that the schema was inferred from is refused only if it is no    *)
(* object, begins with the mark, or joins a key of --flatten into a        *)
(* Boolean column; arrow refuses a batch only for want of any column.      *)
(***************************************************************************)
THEOREM SampleRefusedForReason == Spec => []SampleRefusals
  BY AcceptsSample, SchemaInvariance, PTL

(***************************************************************************)
(* Every value of a sampled object is kept, under --flatten too, but for   *)
(* booleans promoted to numbers, integers that a column of floats rounds,  *)
(* and objects that --flatten takes apart.                                 *)
(***************************************************************************)
THEOREM SampleIsKept == Spec => []SampleSurvives
  BY KeepsSample, SchemaInvariance, PTL

------------------------------------------------------------------------------
(* The command.                                                            *)

\* The columns of a schema that infer_schema made.
InferredSchema ==
  ~config.schema_path =>
    /\ schema = [j \in DOMAIN schema |-> schema[j]]
    /\ \A j \in DOMAIN schema :
         schema[j] \in Column /\ schema[j].type \in Inferred \ {"Null"}

\* --infer-schema-only has no schema file, and nothing is printed before
\* the end of the run.
Printing ==
  /\ args.infer_schema_only => ~config.schema_path
  /\ status = "running" => stdout = Nothing /\ stderr = Nothing

CInv ==
  FInv /\ InferredSchema /\ Printing /\ PrintedSchemaLoads /\ TelemetryIsTrue

------------------------------------------------------------------------------
(***************************************************************************)
(* The two tables of type names agree on the types infer_schema gives.     *)
(***************************************************************************)
LEMMA NamesAgree ==
  \A t \in Inferred \ {"Null"} :
    /\ datatype_to_str(t) \in DataType
    /\ str_to_datatype(datatype_to_str(t)) = t
  BY Ranks DEF str_to_datatype, datatype_to_str, DataType

(***************************************************************************)
(* A column that is given another type and then its own again.             *)
(***************************************************************************)
LEMMA Retyped ==
  ASSUME NEW c \in Column, NEW u \in DataType, NEW v, v = c.type
  PROVE  [[c EXCEPT !.type = u] EXCEPT !.type = v] = c
  BY DEF Column

(***************************************************************************)
(* Columns of the types that infer_schema gives come back from their names.*)
(***************************************************************************)
LEMMA SchemaComesBack ==
  ASSUME InferredSchema, ~config.schema_path
  PROVE  [j \in DOMAIN schema |->
            [schema_to_json_string(schema)[j] EXCEPT
               !.type = str_to_datatype(@)]] = schema
<1> DEFINE printed == schema_to_json_string(schema)
<1>1. ASSUME NEW j \in DOMAIN schema
      PROVE  [printed[j] EXCEPT !.type = str_to_datatype(@)] = schema[j]
  <2> DEFINE c == schema[j]
             u == datatype_to_str(c.type)
  <2>1. c \in Column /\ c.type \in Inferred \ {"Null"}
    BY <1>1 DEF InferredSchema
  <2>2. str_to_datatype(u) = c.type /\ u \in DataType
    BY <2>1, NamesAgree
  <2>3. printed[j] = [c EXCEPT !.type = u]
    BY <1>1 DEF schema_to_json_string
  <2>4. [c EXCEPT !.type = u].type = u
    BY <2>1 DEF Column
  <2> HIDE DEF c, u, printed
  <2>5. [printed[j] EXCEPT !.type = str_to_datatype(printed[j].type)]
          = [[c EXCEPT !.type = u] EXCEPT !.type = str_to_datatype(u)]
    BY <2>3, <2>4, Zenon
  <2> QED
    BY <2>1, <2>2, <2>5, Retyped DEF c
<1> HIDE DEF printed
<1>2. [j \in DOMAIN schema |->
         [printed[j] EXCEPT !.type = str_to_datatype(@)]]
        = [j \in DOMAIN schema |-> schema[j]]
  BY <1>1, Zenon
<1> QED
  BY <1>2 DEF InferredSchema, printed

(***************************************************************************)
(* A run starts with nothing inferred and nothing printed.                 *)
(***************************************************************************)
LEMMA InitCInv == CommandInit => CInv
<1> SUFFICES ASSUME CommandInit PROVE CInv
  OBVIOUS
<1>1. FInv
  BY InitFInv DEF CommandInit
<1>2. InferredSchema
  BY DEF CommandInit, Init, InferredSchema
<1>3. Printing /\ PrintedSchemaLoads /\ TelemetryIsTrue
  BY DEF CommandInit, Printing, PrintedSchemaLoads, TelemetryIsTrue, Nothing
<1> QED
  BY <1>1, <1>2, <1>3 DEF CInv

(***************************************************************************)
(* infer_schema lists only fields whose type is no longer Null.            *)
(***************************************************************************)
LEMMA NextInfers ==
  ASSUME SInv, InferredSchema, Next
  PROVE  InferredSchema' /\ UNCHANGED config
<1>1. CASE InferSchema
  <2>1. /\ schema' = [i \in DOMAIN field_order |-> InferredColumn(i)]
        /\ UNCHANGED config
    BY <1>1 DEF InferSchema, UseSchema
  <2>2. /\ field_order \in Seq(Field) /\ field_types \in [Field -> Inferred]
        /\ ColumnsOnce
    BY DEF SInv, SampleType
  <2>3. ASSUME NEW i \in DOMAIN field_order
        PROVE  field_order[i] \in Field /\ field_types[field_order[i]] # "Null"
    BY <2>2, <2>3 DEF ColumnsOnce
  <2>4. ASSUME NEW j \in DOMAIN schema'
        PROVE  schema'[j] \in Column /\ schema'[j].type \in Inferred \ {"Null"}
    <3>1. j \in DOMAIN field_order
      BY <2>1, <2>4
    <3>2. /\ field_order[j] \in Field
          /\ field_types[field_order[j]] \in Inferred \ {"Null"}
      BY <2>2, <2>3, <3>1
    <3>3. schema'[j] = [name |-> field_order[j],
                        type |-> field_types[field_order[j]],
                        nullable |-> TRUE]
      BY <2>1, <3>1 DEF InferredColumn
    <3>4. Inferred \subseteq DataType
      BY DEF DataType
    <3> QED
      BY <3>2, <3>3, <3>4 DEF Column
  <2>5. schema' = [j \in DOMAIN schema' |-> schema'[j]]
    BY <2>1
  <2> QED
    BY <2>1, <2>4, <2>5 DEF InferredSchema
<1>2. CASE LoadSchema
  BY <1>2 DEF LoadSchema, InferredSchema
<1>3. CASE \/ SampleBlank \/ SampleMalformed \/ SampleScalar \/ SampleKey
           \/ SampleObject \/ NoRecords \/ StartChunk \/ PassLine
           \/ AbortLine \/ RefuseRow \/ AppendRow \/ RefuseBatch \/ EndChunk
           \/ AllParsed
  <2>1. UNCHANGED <<schema, config>>
    BY <1>3
    DEF SampleBlank, SampleMalformed, SampleScalar, SampleKey, SampleObject,
        NoRecords, StartChunk, PassLine, AbortLine, RefuseRow, AppendRow,
        RefuseBatch, EndChunk, AllParsed
  <2> QED
    BY <2>1 DEF InferredSchema
<1> QED
  BY <1>1, <1>2, <1>3 DEF Next

\* What the telemetry is about is the same after the step.
SameFacts ==
  /\ \A i, n : IsRejected(i, n)' = IsRejected(i, n)
  /\ \A i, n : IsMismatched(i, n)' = IsMismatched(i, n)
  /\ \A i : KindAt(i)' = KindAt(i)
  /\ IsUnstorable' = IsUnstorable

(***************************************************************************)
(* It depends on the file, the configuration and the schema only.          *)
(***************************************************************************)
LEMMA FactsStay ==
  ASSUME UNCHANGED <<call, schema>>
  PROVE  SameFacts
<1>1. \A i : KindAt(i)' = KindAt(i) /\ BlankBefore(i)' = BlankBefore(i)
  BY DEF KindAt, BlankBefore
<1>2. \A i : Flattened(i)' = Flattened(i)
  BY DEF Flattened, Inserters, Leaf
<1>3. \A i, j : Stored(i, j)' = Stored(i, j)
  BY <1>2 DEF Stored
<1>4. \A s : ChunkLines(s)' = ChunkLines(s)
  BY DEF ChunkLines
<1>5. \A i, n : IsRejected(i, n)' = IsRejected(i, n)
  BY <1>1, <1>4 DEF IsRejected
<1>6. \A i, n : IsMismatched(i, n)' = IsMismatched(i, n)
  BY <1>1, <1>2, <1>4 DEF IsMismatched
<1>7. IsUnstorable' = IsUnstorable
  BY <1>1, <1>3 DEF IsUnstorable
<1> QED
  BY <1>1, <1>5, <1>6, <1>7 DEF SameFacts

(***************************************************************************)
(* The error a conversion ends with is about something in the file.        *)
(***************************************************************************)
LEMMA ReportIsTrue == FInv /\ ReportError => TelemetryIsTrue'
<1> SUFFICES ASSUME FInv, ReportError, stderr'.kind = "json"
             PROVE  TelemetryIsTrue'
  BY DEF TelemetryIsTrue
<1> USE DEF FInv
<1>1. line \in Nat /\ rows_seen \in Nat /\ DOMAIN data = 1 .. Len(data)
      /\ Len(data) \in Nat
  BY FileFacts DEF TypeOK
<1>2. /\ error \in {"JsonParse", "InsufficientData", "TypeMismatch", "Arrow"}
      /\ phase \in {"schema_err", "parse_err"}
      /\ stderr' = CASE error = "Arrow" -> Failure("Generic", 0)
                     [] error = "InsufficientData" -> Failure(error, 0)
                     [] OTHER -> Failure(error, ErrorLine)
  BY DEF ReportError, Exit, EndsForReason, TypeOK
<1>3. ASSUME NEW kind, NEW n, stderr' = Failure(kind, n)
      PROVE  stderr'.error_type = kind /\ stderr'.line = n
  BY <1>3 DEF Failure, Telemetry, Plain
<1>4. UNCHANGED <<call, schema, args>>
  BY DEF ReportError, Exit, vars
<1>5. SameFacts
  BY <1>4, FactsStay
<1>6. CASE error = "JsonParse"
  <2>1. stderr' = Failure(error, ErrorLine)
    BY <1>2, <1>6
  <2>2. stderr'.error_type = "JsonParse" /\ stderr'.line = ErrorLine
    BY <1>3, <1>6, <2>1
  <2>3. CASE phase = "schema_err"
    <3>1. /\ line + 1 \in DOMAIN data /\ data[line + 1].kind = "malformed"
          /\ line + 1 <= SampleSize /\ ~config.schema_path
      BY <1>1, <1>6, <2>3, SchemaAssumption DEF EndsForReason, Sampled
    <3>2. rows_seen = line - BlankBefore(line + 1)
      <4>1. (line + 1) - 1 = line
        BY <1>1
      <4> QED
        BY <2>3, <4>1 DEF RecordsCounted, BlankBefore
    <3>3. BlankBefore(line + 1) \in Nat
      <4> DEFINE Blank == {j \in 1 .. (line + 1) - 1 : data[j].kind = "blank"}
      <4>1. IsFiniteSet(1 .. (line + 1) - 1)
        BY <1>1, FS_Interval
      <4>2. IsFiniteSet(Blank)
        BY <4>1, FS_Subset
      <4> QED
        BY <4>2, FS_CardinalityType DEF BlankBefore
    <3>4. rows_seen + 1 = (line + 1) - BlankBefore(line + 1)
      BY <1>1, <3>2, <3>3
    <3>5. ErrorLine = rows_seen + 1
      BY <2>3 DEF ErrorLine
    <3>6. IsRejected(line + 1, stderr'.line)
      BY <2>2, <3>1, <3>4, <3>5 DEF IsRejected
    <3> QED
      BY <1>4, <1>5, <2>2, <3>1, <3>6 DEF TelemetryIsTrue, SameFacts
  <2>4. CASE phase = "parse_err"
    <3>1. /\ InItsChunk /\ ~config.ignore_errors
          /\ KindAt(line) \in {"malformed", "scalar"}
      BY <1>6, <2>4 DEF EndsForReason
    <3>2. ErrorLine = line - first + 1
      BY <2>4 DEF ErrorLine
    <3>3. line \in DOMAIN data /\ IsRejected(line, stderr'.line)
      BY <2>2, <3>1, <3>2 DEF IsRejected, InItsChunk, ChunkLines
    <3> QED
      BY <1>4, <1>5, <2>2, <3>3 DEF TelemetryIsTrue, SameFacts
  <2> QED
    BY <1>2, <2>3, <2>4
<1>7. CASE error = "TypeMismatch"
  <2>1. phase = "parse_err" /\ InItsChunk /\ Refuses(line) /\ KindAt(line) = "object"
    BY <1>7 DEF EndsForReason
  <2>2. stderr' = Failure(error, line - first + 1)
    BY <1>2, <1>7, <2>1 DEF ErrorLine
  <2>3. stderr'.error_type = "TypeMismatch" /\ stderr'.line = line - first + 1
    BY <1>3, <1>7, <2>2
  <2>4. PICK j \in DOMAIN schema :
               append(Builder(schema[j].type), Flattened(line)[schema[j].name],
                      config.ignore_errors) = "refused"
    BY <2>1 DEF Refuses, Stored
  <2>5. /\ Refused(Builder(schema[j].type), Flattened(line)[schema[j].name])
        /\ ~config.ignore_errors
    BY <2>4 DEF append
  <2>6. /\ schema[j].type = "Boolean"
        /\ Flattened(line)[schema[j].name] \notin {"absent", "null", "bool"}
    BY <2>5 DEF Refused, Builder
  <2>7. line \in DOMAIN data /\ IsMismatched(line, stderr'.line)
    BY <2>1, <2>3, <2>5, <2>6 DEF IsMismatched, InItsChunk, ChunkLines
  <2> QED
    BY <1>4, <1>5, <2>3, <2>7 DEF TelemetryIsTrue, SameFacts
<1>8. CASE error = "InsufficientData"
  <2>1. stderr' = Failure(error, 0)
    BY <1>2, <1>8
  <2>2. stderr'.error_type = "InsufficientData"
    BY <1>3, <1>8, <2>1
  <2> QED
    BY <1>8, <1>4, <2>2 DEF EndsForReason, TelemetryIsTrue
<1>9. CASE error = "Arrow"
  <2>1. stderr' = Failure("Generic", 0)
    BY <1>2, <1>9
  <2>2. stderr'.error_type = "Generic"
    BY <1>3, <2>1
  <2>3. IsUnstorable /\ \E i \in DOMAIN data : KindAt(i) = "object"
    BY <1>9 DEF EndsForReason
  <2> QED
    BY <1>4, <1>5, <2>2, <2>3 DEF TelemetryIsTrue, SameFacts
<1> QED
  BY <1>2, <1>6, <1>7, <1>8, <1>9

(***************************************************************************)
(* The command prints at its end, and a schema only if it was inferred.    *)
(***************************************************************************)
LEMMA NextCInv == CInv /\ [CommandNext]_<<vars, command>> => CInv'
<1> SUFFICES ASSUME CInv, [CommandNext]_<<vars, command>> PROVE CInv'
  OBVIOUS
<1> USE DEF CInv
<1>1. CASE Run
  <2>1. FInv'
    BY <1>1, NextFInv DEF Run
  <2>2. /\ InferredSchema' /\ Next /\ status = "running"
        /\ UNCHANGED <<config, command>>
    BY <1>1, NextInfers DEF Run, FInv
  <2>3. Printing' /\ PrintedSchemaLoads' /\ TelemetryIsTrue'
    BY <2>2
    DEF Printing, PrintedSchemaLoads, TelemetryIsTrue, command, Nothing
  <2> QED
    BY <2>1, <2>2, <2>3
<1>2. ASSUME UNCHANGED vars PROVE FInv' /\ InferredSchema'
  BY <1>2, NextFInv DEF vars, InferredSchema
<1>3. ASSUME NEW code \in {"0", "1"}, NEW printed, NEW reported,
             Exit(code, printed, reported),
             printed.kind # "schema" \/ PrintSchema,
             reported.kind # "json" \/ OpenFails \/ JoinFails \/ ReportError
      PROVE  CInv'
  <2>1. /\ status' = code /\ stdout' = printed /\ stderr' = reported
        /\ UNCHANGED vars /\ UNCHANGED args
    BY <1>3 DEF Exit
  <2>2. Printing'
    BY <2>1 DEF Printing, vars
  <2>3. PrintedSchemaLoads'
    <3>1. CASE printed.kind # "schema"
      BY <2>1, <3>1 DEF PrintedSchemaLoads
    <3>2. CASE PrintSchema
      <4>1. /\ stdout'.columns = schema_to_json_string(schema)
            /\ ~config.schema_path /\ UNCHANGED schema
        BY <2>1, <3>2 DEF PrintSchema, Exit, Printing, vars
      <4>2. DOMAIN schema_to_json_string(schema) = DOMAIN schema
        BY DEF schema_to_json_string
      <4> QED
        BY <4>1, <4>2, SchemaComesBack DEF PrintedSchemaLoads
    <3> QED
      BY <1>3, <3>1, <3>2
  <2>4. TelemetryIsTrue'
    <3>1. CASE reported.kind # "json"
      BY <2>1, <3>1 DEF TelemetryIsTrue
    <3>2. CASE OpenFails \/ JoinFails
      BY <3>2
      DEF OpenFails, JoinFails, Exit, Failure, Telemetry, Plain,
          TelemetryIsTrue
    <3> QED
      BY <1>3, <3>1, <3>2, ReportIsTrue
  <2> QED
    BY <1>2, <2>1, <2>2, <2>3, <2>4
<1>4. CASE RefuseCodec \/ OpenFails \/ JoinFails \/ ReportError
  BY <1>3, <1>4
  DEF RefuseCodec, OpenFails, JoinFails, ReportError, Nothing, Plain
<1>5. CASE Succeed
  <2> DEFINE out == [kind |-> IF args.machine_telemetry THEN "json" ELSE "text"]
  <2>1. Exit("0", out, Nothing) /\ out.kind # "schema"
    BY <1>5 DEF Succeed
  <2> HIDE DEF out
  <2> QED
    BY <1>3, <2>1 DEF Nothing
<1>6. CASE PrintSchema
  BY <1>3, <1>6 DEF PrintSchema, Nothing
<1>7. CASE UNCHANGED <<vars, command>>
  <2>1. FInv' /\ InferredSchema'
    BY <1>2, <1>7
  <2>2. Printing' /\ PrintedSchemaLoads'
    BY <1>7 DEF command, Printing, PrintedSchemaLoads, vars
  <2>3. TelemetryIsTrue'
    <3>1. /\ UNCHANGED <<call, schema>> /\ args' = args /\ stderr' = stderr
      BY <1>7 DEF command, vars
    <3>2. TelemetryIsTrue /\ SameFacts
      BY <3>1, FactsStay
    <3> HIDE DEF CInv
    <3> QED
      BY <3>1, <3>2 DEF TelemetryIsTrue, SameFacts
  <2> QED
    BY <2>1, <2>2, <2>3
<1> QED
  BY <1>1, <1>4, <1>5, <1>6, <1>7 DEF CommandNext

------------------------------------------------------------------------------
(***************************************************************************)
(* The inductive invariant of a run of the command.                        *)
(***************************************************************************)
THEOREM CommandInvariance == CommandSpec => []CInv
  BY InitCInv, NextCInv, PTL DEF CommandSpec

(***************************************************************************)
(* What --infer-schema-only prints loads by --schema as the schema that    *)
(* was inferred, for every file and sample.                                *)
(***************************************************************************)
THEOREM PrintedLoads == CommandSpec => []PrintedSchemaLoads
<1>1. CInv => PrintedSchemaLoads
  BY DEF CInv
<1> QED
  BY <1>1, CommandInvariance, PTL

(***************************************************************************)
(* The telemetry is about something that is so: whichever options the run  *)
(* has, and wherever it fails, in inference, in a chunk or at the joins.   *)
(***************************************************************************)
THEOREM TelemetrySound == CommandSpec => []TelemetryIsTrue
<1>1. CInv => TelemetryIsTrue
  BY DEF CInv
<1> QED
  BY <1>1, CommandInvariance, PTL

(***************************************************************************)
(* Under every option of the command, with and without --infer-schema-only,*)
(* main leaves what holds of a conversion as it is.                        *)
(***************************************************************************)
THEOREM ConversionUndisturbed ==
  CommandSpec => [](/\ TypeOK /\ PromotionIsWidest /\ ColumnsOnce
                    /\ SampleRefusals /\ SampleSurvives)
<1>1. CInv => /\ TypeOK /\ PromotionIsWidest /\ ColumnsOnce
              /\ SampleRefusals /\ SampleSurvives
  BY AcceptsSample, KeepsSample DEF CInv, FInv, SInv
<1> QED
  BY <1>1, CommandInvariance, PTL
==============================================================================
