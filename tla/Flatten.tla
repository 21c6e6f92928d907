------------------------------- MODULE Flatten -------------------------------
(***************************************************************************)
(* parq-flatten: flatten_object walks a record depth first and joins the   *)
(* keys on the way to a leaf into one key of the flat map.  A key is the   *)
(* sequence of its parts between separators, so that "a_b" is <<"a", "b">> *)
(* and the empty key has one part, Blank: joining with the separator is    *)
(* concatenation, and different paths may join to one key.  A leaf carries *)
(* its path, to tell which of them a key of the map holds.                 *)
(***************************************************************************)
EXTENDS Naturals, SequencesExt

CONSTANTS
  Docs,     \* the records
  KeyOrder, \* their keys, in the byte order in which a Map iterates them
  Blank     \* the empty part of a key

Key == {KeyOrder[i] : i \in DOMAIN KeyOrder}
EmptyKey == <<Blank>>

\* A record is the tree of its values: the kind of each, by the path to it.
IsRecord(d) ==
  /\ DOMAIN d \subseteq Seq(Key) /\ IsFiniteSet(DOMAIN d)
  /\ \A p \in DOMAIN d : d[p] \in {"object", "array", "scalar"}
  /\ <<>> \in DOMAIN d /\ d[<<>>] = "object"
  /\ \A p \in DOMAIN d \ {<<>>} :
       Front(p) \in DOMAIN d /\ d[Front(p)] = "object"

ASSUME FlattenAssumption ==
  /\ Blank \in STRING
  /\ KeyOrder \in Seq(Seq(STRING) \ {<<>>}) /\ IsInjective(KeyOrder)
  /\ \A d \in Docs : IsRecord(d)

VARIABLES
  doc,     \* the record, fixed for the call
  frames,  \* the calls of flatten_rec on the stack, innermost first
  out      \* the flat map

vars == <<doc, frames, out>>

Rank(k) == CHOOSE i \in DOMAIN KeyOrder : KeyOrder[i] = k

Members(path) == {k \in Key : Append(path, k) \in DOMAIN doc}

\* A call on the object at path: left are the members still to come.
Frame(path, prefix) ==
  [path |-> path, prefix |-> prefix, left |-> Members(path)]

Init ==
  /\ doc \in Docs
  /\ frames = <<Frame(<<>>, EmptyKey)>>
  /\ out = <<>>

Visiting == frames # <<>> /\ frames[1].left # {}
Visited == CHOOSE k \in frames[1].left :
             \A l \in frames[1].left : Rank(k) <= Rank(l)
here == Append(frames[1].path, Visited)

\* Mutant of Join: the prefix is not passed down.
JoinLeaf(prefix, key) == key

Join(prefix, key) == IF prefix = EmptyKey THEN key ELSE prefix \o key

full == Join(frames[1].prefix, Visited)

\* The loop goes on with the next member.
Rest == [frames EXCEPT ![1].left = @ \ {Visited}]

Descend ==
  /\ Visiting
  /\ doc[here] = "object"
  /\ frames' = <<Frame(here, full)>> \o Rest
  /\ UNCHANGED <<doc, out>>

\* Mutant of Put: entry().or_insert() for insert().
PutFirst(key, v) ==
  [k \in DOMAIN out \cup {key} |-> IF k \in DOMAIN out THEN out[k] ELSE v]

\* out.insert: an earlier value under the key is overwritten.
Put(key, v) == [k \in DOMAIN out \cup {key} |-> IF k = key THEN v ELSE out[k]]

Insert(kind) ==
  /\ out' = Put(full, [kind |-> kind, path |-> here])
  /\ frames' = Rest
  /\ UNCHANGED doc

\* Mutant of InsertArray: arrays take the arm of the scalars.
InsertArrayRaw == Visiting /\ doc[here] = "array" /\ Insert("array")

\* An array becomes its text, whatever it holds.
InsertArray == Visiting /\ doc[here] = "array" /\ Insert("text")

InsertScalar == Visiting /\ doc[here] = "scalar" /\ Insert("scalar")

Return ==
  /\ frames # <<>>
  /\ frames[1].left = {}
  /\ frames' = Tail(frames)
  /\ UNCHANGED <<doc, out>>

Next ==
  \/ Descend
  \/ InsertArray
  \/ InsertScalar
  \/ Return

Spec == Init /\ [][Next]_vars

------------------------------------------------------------------------------
Leaves == {p \in DOMAIN doc : doc[p] # "object"}

\* The key of a path: empty keys count only behind one that is not.
Joined(path) ==
  LET firsts == {i \in DOMAIN path : path[i] # EmptyKey \/ i = Len(path)}
  IN  FlattenSeq(SubSeq(path, Min(firsts), Len(path)))

\* p comes before q in a walk that takes the keys in order.
Before(p, q) ==
  \E i \in DOMAIN p \cap DOMAIN q :
    /\ \A j \in 1 .. i - 1 : p[j] = q[j]
    /\ Rank(p[i]) < Rank(q[i])

(***************************************************************************)
(* The calls on the stack are on objects of the record, as many as the     *)
(* innermost is deep; the map holds leaves and no object.                  *)
(***************************************************************************)
TypeOK ==
  /\ \A i \in DOMAIN frames :
       /\ frames[i].path \in DOMAIN doc \ Leaves
       /\ Len(frames[i].path) = Len(frames) - i
  /\ \A k \in DOMAIN out :
       /\ k \in Seq(STRING)
       /\ out[k].kind \in {"scalar", "text"} /\ out[k].path \in Leaves

(***************************************************************************)
(* The flat record has a key for every leaf and no other, and each key has *)
(* the value of the last leaf in the order of the Map that joins to it, an *)
(* array as its text; what a walk in any other order would keep differs.   *)
(***************************************************************************)
LastLeafWins ==
  frames = <<>> =>
    /\ DOMAIN out = {Joined(p) : p \in Leaves}
    /\ \A k \in DOMAIN out :
         LET p == out[k].path
         IN  /\ Joined(p) = k
             /\ \A q \in Leaves : Joined(q) = k => q = p \/ Before(q, p)
             /\ out[k].kind = "text" <=> doc[p] = "array"

\* No key of the record is empty or has the separator in it.
PlainKeys ==
  \A p \in Leaves : \A i \in DOMAIN p : p[i] # EmptyKey /\ Len(p[i]) = 1

(***************************************************************************)
(* When a value is lost to another: never, if no key on the way to a leaf  *)
(* is empty or contains the separator.                                     *)
(***************************************************************************)
PlainKeysKeepAll ==
  frames = <<>> /\ PlainKeys => Cardinality(DOMAIN out) = Cardinality(Leaves)

==============================================================================
