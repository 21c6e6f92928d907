------------------------------ MODULE Columns ------------------------------
(***************************************************************************)
(* parq-schema and parq-parser on one value: the type inference gives it,  *)
(* how types merge, which builder a column type gets, what the builder     *)
(* keeps of a value, and whether arrow takes the finished columns.         *)
(*                                                                         *)
(* A value is its kind.  Of the integers, an f64 holds every "int"; "long" *)
(* fits an i64 but is rounded by an f64, and "big" fits a u64 only; "float"*)
(* has a fraction.  Strings that parse as numbers are "intstr" and         *)
(* "longstr", such as "42" and "9007199254740993", and "floatstr", such as *)
(* "0.5"; "text" is any other.                                             *)
(***************************************************************************)
EXTENDS Naturals, Sequences, FiniteSets

Value == {"absent", "null", "bool", "int", "long", "big", "float", "intstr",
          "longstr", "floatstr", "text", "array", "object"}

\* The types of inference, from the narrowest to the widest.
Hierarchy == <<"Null", "Boolean", "Int64", "Float64", "Utf8">>

Inferred == {Hierarchy[i] : i \in 1 .. 5}

\* str_to_datatype: what a schema file can name besides.
DataType == Inferred \cup {"Int8", "Int16", "Int32", "UInt8", "UInt16",
                           "UInt32", "UInt64", "Float32", "Date32",
                           "Timestamp"}

\* Mutant of value_type: the integers that fit are given 32 bits.
ValueTypeNarrow(v) ==
  CASE v \in {"absent", "null"} -> "Null"
    [] v = "bool"               -> "Boolean"
    [] v \in {"int", "long"}    -> "Int32"
    [] v \in {"big", "float"}   -> "Float64"
    [] OTHER                    -> "Utf8"

value_type(v) ==
  CASE v \in {"absent", "null"} -> "Null"
    [] v = "bool"               -> "Boolean"
    [] v \in {"int", "long"}    -> "Int64"
    [] v \in {"big", "float"}   -> "Float64"
    [] OTHER                    -> "Utf8"

\* Mutant of merge: a boolean column swallows the numbers.
MergeBoolWins(a, b) ==
  CASE a = b      -> a
    [] a = "Null" -> b
    [] b = "Null" -> a
    [] {a, b} \in {{"Boolean", "Int64"}, {"Boolean", "Float64"}} -> "Boolean"
    [] {a, b} = {"Int64", "Float64"} -> "Float64"
    [] OTHER      -> "Utf8"

merge(a, b) ==
  CASE a = b      -> a
    [] a = "Null" -> b
    [] b = "Null" -> a
    [] {a, b} = {"Boolean", "Int64"} -> "Int64"
    [] {a, b} \in {{"Boolean", "Float64"}, {"Int64", "Float64"}} -> "Float64"
    [] OTHER      -> "Utf8"

\* ColBuilder::new
Builder(type) ==
  CASE type = "Null"    -> "Null"
    [] type = "Boolean" -> "Bool"
    [] type \in {"Int8", "Int16", "Int32", "Int64", "UInt8", "UInt16",
                 "UInt32", "UInt64"} -> "Int64"
    [] type \in {"Float32", "Float64"} -> "Float64"
    [] OTHER -> "Str"

\* What finish makes of a builder, whatever the column was declared as.
ArrayType(builder) ==
  CASE builder = "Bool" -> "Boolean"
    [] builder = "Str"  -> "Utf8"
    [] OTHER            -> builder

\* The values each builder keeps, if only in its own notation, and those it
\* replaces by another: a float is cut to an integer, and an integer that no
\* f64 equals is rounded to one.
Kept(builder) ==
  CASE builder = "Null"    -> {}
    [] builder = "Bool"    -> {"bool"}
    [] builder = "Int64"   -> {"int", "long", "intstr", "longstr"}
    [] builder = "Float64" -> {"int", "float", "intstr", "floatstr"}
    [] OTHER               -> Value \ {"absent", "null"}

Altered(builder) ==
  CASE builder = "Int64"   -> {"big", "float"}
    [] builder = "Float64" -> {"long", "big", "longstr"}
    [] OTHER               -> {}

Refused(builder, v) == builder = "Bool" /\ v \notin {"bool", "null", "absent"}

Outcome == {"kept", "altered", "null", "refused"}

\* ColBuilder::append: "refused" is Err(TypeMismatch).
append(builder, v, ignore_errors) ==
  CASE v \in Kept(builder)    -> "kept"
    [] v \in Altered(builder) -> "altered"
    [] Refused(builder, v) /\ ~ignore_errors -> "refused"
    [] OTHER -> "null"

------------------------------------------------------------------------------
Rank(type) == CHOOSE i \in 1 .. 5 : Hierarchy[i] = type

\* The least type of the hierarchy that every type of S promotes to.
IsWidest(type, S) ==
  /\ type \in S \cup {"Null"}
  /\ \A t \in S : Rank(t) <= Rank(type)
==============================================================================
