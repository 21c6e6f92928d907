------------------------------ MODULE MCFlatten ------------------------------
(* Records of at most two members per object, nested twice, and records of  *)
(* one member nested three times, over keys that may join to one another.   *)
EXTENDS Flatten

MCKeyOrder == << <<"">>, <<"a">>, <<"a", "b">>, <<"b">> >>

Leaf == {<<>> :> "scalar", <<>> :> "array"}

\* The object whose member k is the tree ms[k].
Object(ms) ==
  [p \in {<<>>} \cup UNION {{<<k>> \o q : q \in DOMAIN ms[k]} : k \in DOMAIN ms}
     |-> IF p = <<>> THEN "object" ELSE ms[Head(p)][Tail(p)]]

\* The objects of as many members as sizes allows, each a tree of trees.
Objects(sizes, trees) ==
  {Object(ms) : ms \in UNION {[S -> trees] : S \in
                  {S \in SUBSET Key : Cardinality(S) \in sizes}}}

Flat == Leaf \cup Objects(0 .. 2, Leaf)

MCDocs == Objects(0 .. 2, Flat) \cup Objects({1}, Objects({1}, Flat))
==============================================================================
