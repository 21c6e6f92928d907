---------------------------- MODULE FlattenProofs ----------------------------
(***************************************************************************)
(* Proofs about Flatten, for every record, however deep, and all keys.     *)
(* Inv is the inductive invariant: the stack lies along one path of the    *)
(* record, what its calls have left is what is not in the map yet, and all *)
(* leaves that are in it come before all that are not.                     *)
(***************************************************************************)
EXTENDS Flatten, SequenceTheorems, FiniteSetTheorems, TLAPS

(***************************************************************************)
(* A non-empty set of numbers has a least one.                             *)
(***************************************************************************)
LEMMA LeastNumber ==
  ASSUME NEW S \in SUBSET Nat, S # {}
  PROVE  \E m \in S : \A k \in S : m <= k
<1> DEFINE R == OpToRel(<, Nat)
<1>1. IsWellFoundedOn(R, Nat)
  BY NatLessThanWellFounded
<1>2. \A i, j \in Nat : i < j => <<i, j>> \in R
  BY DEF OpToRel
<1> HIDE DEF R
<1>3. PICK m \in S : \A k \in S : ~ (<<k, m>> \in R)
  BY <1>1, WFMin
<1>4. \A k \in S : ~ (k < m)
  BY <1>2, <1>3
<1> QED
  BY <1>4

(***************************************************************************)
(* Min is the least number of a non-empty set.                             *)
(***************************************************************************)
LEMMA MinIsLeast ==
  ASSUME NEW S \in SUBSET Nat, S # {}
  PROVE  Min(S) \in S /\ \A k \in S : Min(S) <= k
<1>1. \E m \in S : \A k \in S : m <= k
  BY LeastNumber
<1> QED
  BY <1>1 DEF Min

------------------------------------------------------------------------------
(* Concatenation: what FlattenSeq makes of a sequence of keys.             *)

Text == Seq(STRING)

\* f[i] is the concatenation of the first i members of s.
Concats(f, s) ==
  f = [i \in 1 .. Len(s) |-> IF i = 1 THEN s[i] ELSE f[i - 1] \o s[i]]

(***************************************************************************)
(* The recursion of FlattenSeq has a solution.                             *)
(***************************************************************************)
LEMMA ConcatsExist ==
  ASSUME NEW s \in Seq(Text)
  PROVE  \E f \in [1 .. Len(s) -> Text] : Concats(f, s)
<1> DEFINE P(n) == \E f \in [1 .. n -> Text] : \A i \in 1 .. n :
                     f[i] = IF i = 1 THEN s[i] ELSE f[i - 1] \o s[i]
           B == {n \in 0 .. Len(s) : ~P(n)}
<1>1. B = {}
  <2> SUFFICES ASSUME B # {} PROVE FALSE
    OBVIOUS
  <2>1. PICK n \in B : \A k \in B : n <= k
    <3>1. B \in SUBSET Nat
      OBVIOUS
    <3> HIDE DEF B
    <3> QED
      BY <3>1, LeastNumber
  <2>2. CASE n = 0
    <3> DEFINE f == [i \in 1 .. 0 |-> <<>>]
    <3>1. f \in [1 .. 0 -> Text]
      BY DEF Text
    <3>2. \A i \in 1 .. 0 : f[i] = IF i = 1 THEN s[i] ELSE f[i - 1] \o s[i]
      OBVIOUS
    <3>3. P(0)
      <4> HIDE DEF f
      <4> QED
        BY <3>1, <3>2
    <3> QED
      BY <2>2, <3>3
  <2>3. CASE n # 0
    <3>1. n - 1 \in 0 .. Len(s) /\ n - 1 \notin B
      <4>1. n \in 0 .. Len(s) /\ Len(s) \in Nat
        OBVIOUS
      <4> HIDE DEF B
      <4> QED
        BY <2>1, <2>3, <4>1
    <3>2. PICK f \in [1 .. n - 1 -> Text] : \A i \in 1 .. n - 1 :
            f[i] = IF i = 1 THEN s[i] ELSE f[i - 1] \o s[i]
      BY <3>1
    <3> DEFINE last == IF n = 1 THEN s[n] ELSE f[n - 1] \o s[n]
               g == [i \in 1 .. n |-> IF i = n THEN last ELSE f[i]]
    <3>3. last \in Text
      <4>1. s[n] \in Text
        BY <2>3
      <4>2. n # 1 => f[n - 1] \in Text
        BY <2>3
      <4>3. \A a, b \in Text : a \o b \in Text
        BY DEF Text
      <4> QED
        BY <4>1, <4>2, <4>3
    <3>4. g \in [1 .. n -> Text]
      <4> HIDE DEF last
      <4> QED
        BY <3>3
    <3>5. \A i \in 1 .. n : g[i] = IF i = 1 THEN s[i] ELSE g[i - 1] \o s[i]
      <4> SUFFICES ASSUME NEW i \in 1 .. n
                   PROVE  g[i] = IF i = 1 THEN s[i] ELSE g[i - 1] \o s[i]
        OBVIOUS
      <4>1. CASE i = n
        <5>1. i # 1 => g[i - 1] = f[n - 1]
          BY <4>1
        <5> QED
          BY <4>1, <5>1
      <4>2. CASE i # n
        <5>1. i \in 1 .. n - 1 /\ g[i] = f[i]
          BY <4>2
        <5>2. i # 1 => g[i - 1] = f[i - 1]
          BY <4>2
        <5> QED
          BY <3>2, <5>1, <5>2
      <4> QED
        BY <4>1, <4>2
    <3>6. P(n)
      <4> HIDE DEF g
      <4> QED
        BY <3>4, <3>5
    <3> QED
      BY <3>6
  <2> QED
    BY <2>2, <2>3
<1>2. P(Len(s))
  BY <1>1
<1>3. PICK f \in [1 .. Len(s) -> Text] : \A i \in 1 .. Len(s) :
        f[i] = IF i = 1 THEN s[i] ELSE f[i - 1] \o s[i]
  BY <1>2
<1>4. Concats(f, s)
  BY <1>3 DEF Concats
<1> QED
  BY <1>4

(***************************************************************************)
(* FlattenSeq is the last value of that solution, and there is no other.   *)
(***************************************************************************)
LEMMA FlattenIsConcat ==
  ASSUME NEW s \in Seq(Text), s # <<>>, NEW f, Concats(f, s)
  PROVE  FlattenSeq(s) = f[Len(s)]
<1> DEFINE flatten == CHOOSE g : Concats(g, s)
<1>1. FlattenSeq(s) = flatten[Len(s)]
  BY DEF FlattenSeq, Concats
<1>2. Concats(flatten, s)
  OBVIOUS
<1> HIDE DEF flatten
<1> DEFINE B == {i \in 1 .. Len(s) : flatten[i] # f[i]}
<1>3. B = {}
  <2> SUFFICES ASSUME B # {} PROVE FALSE
    OBVIOUS
  <2>1. PICK i \in B : \A k \in B : i <= k
    <3>1. B \in SUBSET Nat
      OBVIOUS
    <3> HIDE DEF B
    <3> QED
      BY <3>1, LeastNumber
  <2>2. flatten[i] = IF i = 1 THEN s[i] ELSE flatten[i - 1] \o s[i]
    BY <1>2 DEF Concats
  <2>3. f[i] = IF i = 1 THEN s[i] ELSE f[i - 1] \o s[i]
    BY DEF Concats
  <2>4. i # 1 => flatten[i - 1] = f[i - 1]
    BY <2>1
  <2> QED
    BY <2>2, <2>3, <2>4
<1>4. Len(s) \in 1 .. Len(s)
  OBVIOUS
<1> QED
  BY <1>1, <1>3, <1>4

(***************************************************************************)
(* One more member of the sequence is one more text at the end.            *)
(***************************************************************************)
LEMMA FlattenAppend ==
  ASSUME NEW s \in Seq(Text), NEW x \in Text
  PROVE  /\ FlattenSeq(<<x>>) = x
         /\ s # <<>> => /\ FlattenSeq(s) \in Text
                        /\ FlattenSeq(Append(s, x)) = FlattenSeq(s) \o x
<1>1. FlattenSeq(<<x>>) = x
  <2>1. <<x>> \in Seq(Text) /\ <<x>> # <<>> /\ Len(<<x>>) = 1
    OBVIOUS
  <2>2. Concats(<<x>>, <<x>>)
    BY DEF Concats
  <2>3. FlattenSeq(<<x>>) = <<x>>[Len(<<x>>)]
    BY <2>1, <2>2, FlattenIsConcat
  <2> QED
    BY <2>1, <2>3
<1>2. ASSUME s # <<>>
      PROVE  /\ FlattenSeq(s) \in Text
             /\ FlattenSeq(Append(s, x)) = FlattenSeq(s) \o x
  <2> DEFINE t == Append(s, x)
             n == Len(s)
  <2>1. /\ t \in Seq(Text) /\ t # <<>> /\ Len(t) = n + 1 /\ n \in Nat /\ n >= 1
        /\ \A i \in 1 .. n : t[i] = s[i]
        /\ t[n + 1] = x
    BY <1>2
  <2> HIDE DEF t
  <2>2. PICK f \in [1 .. n + 1 -> Text] : Concats(f, t)
    BY <2>1, ConcatsExist
  <2> DEFINE g == [i \in 1 .. n |-> f[i]]
  <2>a. \A i \in 1 .. n + 1 :
          f[i] = IF i = 1 THEN t[i] ELSE f[i - 1] \o t[i]
    <3>1. f = [i \in 1 .. Len(t) |->
                 IF i = 1 THEN t[i] ELSE f[i - 1] \o t[i]]
      BY <2>2 DEF Concats
    <3>2. 1 .. Len(t) = 1 .. n + 1
      BY <2>1
    <3> QED
      BY <3>1, <3>2
  <2>3. Concats(g, s)
    <3>1. \A i \in 1 .. n : g[i] = IF i = 1 THEN s[i] ELSE g[i - 1] \o s[i]
      <4> SUFFICES ASSUME NEW i \in 1 .. n
                   PROVE  g[i] = IF i = 1 THEN s[i] ELSE g[i - 1] \o s[i]
        OBVIOUS
      <4>1. f[i] = IF i = 1 THEN t[i] ELSE f[i - 1] \o t[i]
        <5>1. i \in 1 .. n + 1
          BY <2>1
        <5> QED
          BY <2>a, <5>1, Zenon
      <4>2. g[i] = f[i] /\ (i # 1 => g[i - 1] = f[i - 1]) /\ t[i] = s[i]
        BY <2>1
      <4> QED
        BY <4>1, <4>2
    <3> QED
      BY <3>1 DEF Concats
  <2>4. FlattenSeq(s) = f[n] /\ FlattenSeq(t) = f[n + 1]
    <3>1. g[n] = f[n]
      BY <2>1
    <3> HIDE DEF g
    <3>2. FlattenSeq(s) = g[n]
      BY <1>2, <2>3, FlattenIsConcat
    <3>3. FlattenSeq(t) = f[Len(t)]
      BY <2>1, <2>2, FlattenIsConcat
    <3> QED
      BY <2>1, <3>1, <3>2, <3>3
  <2>5. f[n + 1] = f[n] \o x
    <3>1. n + 1 \in 1 .. n + 1 /\ n + 1 # 1 /\ n + 1 - 1 = n
      BY <2>1
    <3> DEFINE m == n + 1
    <3>2. m \in 1 .. n + 1 /\ m # 1 /\ m - 1 = n /\ t[m] = x
      BY <2>1, <3>1
    <3> HIDE DEF m
    <3>3. f[m] = f[m - 1] \o t[m]
      BY <2>a, <3>2
    <3> QED
      BY <3>2, <3>3 DEF m
  <2> QED
    BY <2>1, <2>2, <2>4, <2>5 DEF t
<1> QED
  BY <1>1, <1>2

(***************************************************************************)
(* The concatenation begins with the first member.                         *)
(***************************************************************************)
LEMMA FlattenBegins ==
  ASSUME NEW s \in Seq(Text), s # <<>>
  PROVE  /\ FlattenSeq(s) \in Text
         /\ Len(s[1]) <= Len(FlattenSeq(s))
         /\ \A j \in 1 .. Len(s[1]) : FlattenSeq(s)[j] = s[1][j]
<1> DEFINE n == Len(s)
           Begins(x) == /\ Len(s[1]) <= Len(x)
                        /\ \A j \in 1 .. Len(s[1]) : x[j] = s[1][j]
<1>1. n \in Nat /\ n >= 1 /\ \A i \in 1 .. n : s[i] \in Text
  OBVIOUS
<1>2. PICK f \in [1 .. n -> Text] : Concats(f, s)
  BY ConcatsExist
<1> DEFINE B == {i \in 1 .. n : ~Begins(f[i])}
<1>3. B = {}
  <2> SUFFICES ASSUME B # {} PROVE FALSE
    OBVIOUS
  <2>1. PICK i \in B : \A k \in B : i <= k
    <3>1. B \in SUBSET Nat
      BY <1>1
    <3> HIDE DEF B
    <3> QED
      BY <3>1, LeastNumber
  <2>2. f[i] = IF i = 1 THEN s[i] ELSE f[i - 1] \o s[i]
    BY <1>1, <1>2 DEF Concats
  <2>3. CASE i = 1
    BY <1>1, <2>1, <2>2, <2>3 DEF Text
  <2>4. CASE i # 1
    <3>1. i - 1 \in 1 .. n /\ Begins(f[i - 1])
      BY <1>1, <2>1, <2>4
    <3>2. f[i - 1] \in Text /\ s[i] \in Text /\ s[1] \in Text
      <4>1. f[i - 1] \in Text
        BY <3>1
      <4>2. i \in 1 .. n /\ 1 \in 1 .. n
        BY <1>1
      <4> QED
        BY <1>1, <4>1, <4>2
    <3>3. \A a, b, c \in Text :
            /\ Len(c) <= Len(a) /\ \A j \in 1 .. Len(c) : a[j] = c[j]
            => /\ Len(c) <= Len(a \o b)
               /\ \A j \in 1 .. Len(c) : (a \o b)[j] = c[j]
      BY DEF Text
    <3>4. Begins(f[i - 1] \o s[i])
      <4> DEFINE a == f[i - 1]
                 b == s[i]
                 c == s[1]
      <4>1. a \in Text /\ b \in Text /\ c \in Text
        BY <3>2
      <4>2. Len(c) <= Len(a) /\ \A j \in 1 .. Len(c) : a[j] = c[j]
        BY <3>1
      <4> HIDE DEF a, b, c
      <4>3. /\ Len(c) <= Len(a \o b)
            /\ \A j \in 1 .. Len(c) : (a \o b)[j] = c[j]
        BY <3>3, <4>1, <4>2
      <4> QED
        BY <4>3 DEF a, b, c
    <3> QED
      BY <2>1, <2>2, <2>4, <3>4
  <2> QED
    BY <2>3, <2>4
<1>4. n \in 1 .. n /\ FlattenSeq(s) = f[n]
  BY <1>1, <1>2, FlattenIsConcat
<1> QED
  BY <1>2, <1>3, <1>4
------------------------------------------------------------------------------
(* Joining: the key that a call has as its prefix is that of its path.     *)

Firsts(path) == {i \in DOMAIN path : path[i] # EmptyKey \/ i = Len(path)}

\* What flatten_rec is given as prefix for the object at path.
Prefix(path) == IF path = <<>> THEN EmptyKey ELSE Joined(path)

(***************************************************************************)
(* Keys have parts, and their order is one of different keys.              *)
(***************************************************************************)
LEMMA KeyFacts ==
  /\ Key \subseteq Text /\ <<>> \notin Key /\ Seq(Key) \subseteq Seq(Text)
  /\ \A k \in Key : /\ Rank(k) \in Nat
                    /\ \A l \in Key : Rank(k) = Rank(l) => k = l
<1>1. Key \subseteq Text /\ <<>> \notin Key
  BY FlattenAssumption DEF Key, Text
<1>2. \A k \in Key : Rank(k) \in DOMAIN KeyOrder /\ KeyOrder[Rank(k)] = k
  BY DEF Key, Rank
<1>3. \A k \in Key : Rank(k) \in Nat
  BY <1>2, FlattenAssumption
<1> QED
  BY <1>1, <1>2, <1>3

(***************************************************************************)
(* The empty key has one part.                                             *)
(***************************************************************************)
LEMMA EmptyKeyFacts ==
  /\ EmptyKey \in Text /\ Len(EmptyKey) = 1
  /\ EmptyKey = <<EmptyKey[1]>>
<1>1. EmptyKey \in Text
  <2>1. ASSUME NEW S, NEW x \in S PROVE <<x>> \in Seq(S)
    OBVIOUS
  <2>2. Blank \in STRING
    BY FlattenAssumption
  <2> QED
    BY <2>1, <2>2, Zenon DEF EmptyKey, Text
<1>2. Len(EmptyKey) = 1
  BY DEF EmptyKey
<1>3. EmptyKey = <<EmptyKey[1]>>
  BY DEF EmptyKey
<1> QED
  BY <1>1, <1>2, <1>3

(***************************************************************************)
(* A part of a sequence has its members, as many as asked for.             *)
(***************************************************************************)
LEMMA PartOf ==
  ASSUME NEW S, NEW s \in Seq(S), NEW a \in 1 .. Len(s) + 1,
         NEW b \in a - 1 .. Len(s)
  PROVE  /\ SubSeq(s, a, b) \in Seq(S)
         /\ Len(SubSeq(s, a, b)) = b - a + 1
         /\ \A i \in 1 .. b - a + 1 : SubSeq(s, a, b)[i] = s[a + i - 1]
<1>1. a \in Int /\ b \in Int /\ \A i \in a .. b : s[i] \in S
  OBVIOUS
<1>2. /\ SubSeq(s, a, b) \in Seq(S)
      /\ Len(SubSeq(s, a, b)) = IF a <= b THEN b - a + 1 ELSE 0
      /\ \A i \in 1 .. b - a + 1 : SubSeq(s, a, b)[i] = s[a + i - 1]
  BY <1>1, SubSeqProperties
<1> QED
  BY <1>2

(***************************************************************************)
(* A sequence of length one is that of its member.                         *)
(***************************************************************************)
LEMMA OfLengthOne ==
  ASSUME NEW S, NEW s \in Seq(S), Len(s) = 1
  PROVE  s = <<s[1]>>
<1>1. s[1] \in S
  BY ElementOfSeq
<1>2. /\ <<s[1]>> \in Seq(S) /\ Len(<<s[1]>>) = 1
      /\ \A i \in 1 .. 1 : <<s[1]>>[i] = s[i]
  BY <1>1
<1> QED
  BY <1>2, SeqEqual

(***************************************************************************)
(* Where the joined key of a path begins.                                  *)
(***************************************************************************)
LEMMA JoinedFrom ==
  ASSUME NEW path \in Seq(Key), path # <<>>
  PROVE  /\ Min(Firsts(path)) \in Firsts(path)
         /\ \A i \in Firsts(path) : Min(Firsts(path)) <= i
         /\ Joined(path) =
              FlattenSeq(SubSeq(path, Min(Firsts(path)), Len(path)))
<1>1. Firsts(path) \in SUBSET Nat
  BY DEF Firsts
<1>2. Len(path) \in Firsts(path)
  BY DEF Firsts
<1>3. Joined(path) = FlattenSeq(SubSeq(path, Min(Firsts(path)), Len(path)))
  BY DEF Joined, Firsts
<1> QED
  BY <1>1, <1>2, <1>3, MinIsLeast

(***************************************************************************)
(* Behind nothing but empty keys a key stands for itself.                  *)
(***************************************************************************)
LEMMA JoinedAlone ==
  ASSUME NEW path \in Seq(Key), NEW key \in Key,
         \A i \in 1 .. Len(path) : path[i] = EmptyKey
  PROVE  Joined(Append(path, key)) = key
<1> DEFINE q == Append(path, key)
           n == Len(path)
<1>1. /\ q \in Seq(Key) /\ q # <<>> /\ Len(q) = n + 1 /\ n \in Nat
      /\ DOMAIN q = 1 .. n + 1 /\ q[n + 1] = key
      /\ \A i \in 1 .. n : q[i] = EmptyKey
  OBVIOUS
<1> HIDE DEF q
<1>2. Min(Firsts(q)) = n + 1
  <2>1. Min(Firsts(q)) \in Firsts(q)
    BY <1>1, JoinedFrom
  <2> QED
    BY <1>1, <2>1 DEF Firsts
<1>3. SubSeq(q, n + 1, n + 1) = <<key>>
  <2> DEFINE m == n + 1
  <2>1. /\ m \in 1 .. Len(q) + 1 /\ m \in m - 1 .. Len(q) /\ m - m + 1 = 1
        /\ m + 1 - 1 = m /\ q[m] = key
    BY <1>1
  <2> HIDE DEF m
  <2>2. /\ SubSeq(q, m, m) \in Seq(Key)
        /\ Len(SubSeq(q, m, m)) = 1
        /\ SubSeq(q, m, m)[1] = key
    BY <1>1, <2>1, PartOf
  <2>3. SubSeq(q, m, m) = <<key>>
    BY <2>2, OfLengthOne
  <2> QED
    BY <2>3 DEF m
<1>4. Joined(q) = FlattenSeq(<<key>>)
  BY <1>1, <1>2, <1>3, JoinedFrom
<1>5. FlattenSeq(<<key>>) = key
  <2>1. key \in Text /\ <<>> \in Seq(Text)
    BY KeyFacts
  <2> QED
    BY <2>1, FlattenAppend
<1> QED
  BY <1>4, <1>5 DEF q

(***************************************************************************)
(* The joined key of a path is what flatten_rec makes of it key by key.    *)
(***************************************************************************)
LEMMA JoinedStep ==
  ASSUME NEW path \in Seq(Key), NEW key \in Key
  PROVE  /\ Joined(Append(path, key)) = Join(Prefix(path), key)
         /\ Joined(Append(path, key)) \in Text
<1> DEFINE n == Len(path)
<1>1. CASE \A i \in 1 .. n : path[i] = EmptyKey
  <2>1. Joined(Append(path, key)) = key
    BY <1>1, JoinedAlone
  <2>2. Prefix(path) = EmptyKey
    <3>1. CASE path = <<>>
      BY <3>1 DEF Prefix
    <3>2. CASE path # <<>>
      <4> DEFINE front == SubSeq(path, 1, n - 1)
      <4>1. /\ n \in Nat /\ n >= 1 /\ front \in Seq(Key) /\ Len(front) = n - 1
            /\ \A i \in 1 .. n - 1 : front[i] = path[i]
        <5>1. /\ n \in Nat /\ n >= 1 /\ 1 \in 1 .. Len(path) + 1
              /\ n - 1 \in 1 - 1 .. Len(path) /\ n - 1 - 1 + 1 = n - 1
              /\ \A i \in 1 .. n - 1 : 1 + i - 1 = i
          BY <3>2
        <5> QED
          BY <5>1, PartOf
      <4>2. path = Append(front, EmptyKey) /\ EmptyKey \in Key
        BY <1>1, <4>1
      <4> HIDE DEF front
      <4>3. Joined(path) = EmptyKey
        BY <1>1, <4>1, <4>2, JoinedAlone
      <4> QED
        BY <3>2, <4>3 DEF Prefix
    <3> QED
      BY <3>1, <3>2
  <2> QED
    BY <2>1, <2>2, KeyFacts DEF Join
<1>2. CASE \E i \in 1 .. n : path[i] # EmptyKey
  <2> DEFINE q == Append(path, key)
             m == Min(Firsts(path))
             s == SubSeq(path, m, n)
  <2>1. /\ q \in Seq(Key) /\ q # <<>> /\ Len(q) = n + 1 /\ n \in Nat
        /\ path # <<>> /\ \A i \in 1 .. n : q[i] = path[i]
        /\ DOMAIN path = 1 .. n /\ DOMAIN q = 1 .. n + 1 /\ q[n + 1] = key
    BY <1>2
  <2> HIDE DEF q
  <2>2. /\ m \in Firsts(path) /\ \A i \in Firsts(path) : m <= i
        /\ Joined(path) = FlattenSeq(s)
    BY <2>1, JoinedFrom
  <2> HIDE DEF m
  <2>3. m \in 1 .. n /\ path[m] # EmptyKey
    <3>1. m \in 1 .. n
      BY <2>1, <2>2 DEF Firsts
    <3>2. PICK i \in 1 .. n : path[i] # EmptyKey
      BY <1>2
    <3>3. m <= i
      BY <2>1, <2>2, <3>2 DEF Firsts
    <3> QED
      BY <2>2, <3>1, <3>2, <3>3 DEF Firsts
  <2>4. Min(Firsts(q)) = m
    <3> DEFINE l == Min(Firsts(q))
    <3>1. l \in Firsts(q) /\ \A i \in Firsts(q) : l <= i
      BY <2>1, JoinedFrom
    <3> HIDE DEF l
    <3>2. m \in Firsts(q)
      BY <2>1, <2>3 DEF Firsts
    <3>3. l \in 1 .. n
      BY <2>1, <2>3, <3>1, <3>2 DEF Firsts
    <3>4. l \in Firsts(path)
      BY <2>1, <3>1, <3>3 DEF Firsts
    <3>5. l <= m /\ m <= l
      BY <2>2, <3>1, <3>2, <3>4
    <3> QED
      BY <2>3, <3>3, <3>5 DEF l
  <2>5. /\ s \in Seq(Key) /\ s # <<>> /\ Len(s) = n - m + 1
        /\ \A i \in 1 .. n - m + 1 : s[i] = path[m + i - 1]
        /\ s[1] = path[m]
    <3>1. /\ m \in 1 .. Len(path) + 1 /\ n \in m - 1 .. Len(path)
          /\ 1 \in 1 .. n - m + 1 /\ m + 1 - 1 = m
      BY <2>1, <2>3
    <3>2. /\ s \in Seq(Key) /\ Len(s) = n - m + 1
          /\ \A i \in 1 .. n - m + 1 : s[i] = path[m + i - 1]
      BY <3>1, PartOf
    <3>3. s # <<>>
      <4> HIDE DEF s
      <4> QED
        BY <2>1, <2>3, <3>2
    <3>4. s[1] = path[m + 1 - 1]
      <4> HIDE DEF s
      <4> QED
        BY <3>1, <3>2
    <3> QED
      BY <3>1, <3>2, <3>3, <3>4
  <2>6. SubSeq(q, m, n + 1) = Append(s, key)
    <3> DEFINE t == SubSeq(q, m, n + 1)
               u == Append(s, key)
    <3>1. /\ t \in Seq(Key) /\ Len(t) = n - m + 2
          /\ \A i \in 1 .. n - m + 2 : t[i] = q[m + i - 1]
      <4> DEFINE r == n + 1
      <4>1. /\ m \in 1 .. Len(q) + 1 /\ r \in m - 1 .. Len(q)
            /\ r - m + 1 = n - m + 2
        BY <2>1, <2>3
      <4> HIDE DEF r
      <4>2. /\ SubSeq(q, m, r) \in Seq(Key) /\ Len(SubSeq(q, m, r)) = r - m + 1
            /\ \A i \in 1 .. r - m + 1 : SubSeq(q, m, r)[i] = q[m + i - 1]
        BY <2>1, <4>1, PartOf
      <4> QED
        BY <4>1, <4>2 DEF r
    <3>2. /\ u \in Seq(Key) /\ Len(u) = n - m + 2
          /\ \A i \in 1 .. n - m + 1 : u[i] = s[i]
          /\ u[n - m + 2] = key
      BY <2>1, <2>3, <2>5
    <3> HIDE DEF t, u, s
    <3> HIDE DEF n
    <3>3. \A i \in 1 .. n - m + 2 : t[i] = u[i]
      <4> SUFFICES ASSUME NEW i \in 1 .. n - m + 2 PROVE t[i] = u[i]
        OBVIOUS
      <4>1. CASE i = n - m + 2
        <5>1. m + i - 1 = n + 1
          BY <2>1, <2>3, <4>1
        <5> QED
          BY <2>1, <3>1, <3>2, <4>1, <5>1
      <4>2. CASE i # n - m + 2
        <5>1. i \in 1 .. n - m + 1 /\ m + i - 1 \in 1 .. n
          BY <2>1, <2>3, <4>2
        <5> QED
          BY <2>1, <2>5, <3>1, <3>2, <5>1
      <4> QED
        BY <4>1, <4>2
    <3>4. t = u
      BY <3>1, <3>2, <3>3, SeqEqual
    <3> QED
      BY <3>4 DEF t, u
  <2> HIDE DEF s
  <2>7. Joined(q) = FlattenSeq(Append(s, key))
    BY <2>1, <2>4, <2>6, JoinedFrom
  <2>8. /\ FlattenSeq(s) \in Text
        /\ FlattenSeq(Append(s, key)) = FlattenSeq(s) \o key
    <3>1. s \in Seq(Text) /\ key \in Text
      BY <2>5, KeyFacts
    <3> QED
      BY <2>5, <3>1, FlattenAppend
  <2>9. FlattenSeq(s) # EmptyKey
    <3>1. s \in Seq(Text) /\ s[1] \in Text /\ s[1] # <<>> /\ s[1] # EmptyKey
      <4>1. path[m] \in Key
        BY <2>1, <2>3
      <4> QED
        BY <2>3, <2>5, <4>1, KeyFacts
    <3>2. /\ Len(s[1]) <= Len(FlattenSeq(s))
          /\ \A j \in 1 .. Len(s[1]) : FlattenSeq(s)[j] = s[1][j]
      BY <2>5, <3>1, FlattenBegins
    <3> SUFFICES ASSUME FlattenSeq(s) = EmptyKey PROVE FALSE
      OBVIOUS
    <3> DEFINE x == s[1]
    <3>3. x \in Seq(STRING) /\ x # <<>> /\ x # EmptyKey
      BY <3>1 DEF Text
    <3>4. Len(x) <= Len(EmptyKey) /\ \A j \in 1 .. Len(x) : EmptyKey[j] = x[j]
      BY <3>2
    <3> HIDE DEF x
    <3>5. Len(x) = 1 /\ x[1] = EmptyKey[1]
      <4>1. Len(x) \in Nat \ {0}
        BY <3>3, EmptySeq
      <4>2. Len(EmptyKey) = 1
        BY EmptyKeyFacts
      <4>3. Len(x) <= Len(EmptyKey)
        BY <3>4
      <4>4. \A l \in Nat \ {0} : l <= 1 => l = 1
        OBVIOUS
      <4>5. Len(x) = 1
        BY <4>1, <4>2, <4>3, <4>4, Zenon
      <4> QED
        BY <3>4, <4>5
    <3>6. x = <<x[1]>>
      BY <3>3, <3>5, OfLengthOne
    <3> QED
      BY <3>3, <3>5, <3>6, EmptyKeyFacts
  <2>10. Joined(q) = Join(Prefix(path), key)
    BY <2>1, <2>2, <2>7, <2>8, <2>9 DEF Join, Prefix
  <2>11. Joined(q) \in Text
    BY <2>7, <2>8, KeyFacts DEF Text
  <2> QED
    BY <2>10, <2>11 DEF q
<1> QED
  BY <1>1, <1>2
------------------------------------------------------------------------------
(* Paths of a record.                                                      *)

(***************************************************************************)
(* Every part of a path from the root is the path of an object.            *)
(***************************************************************************)
LEMMA Ancestor ==
  ASSUME NEW d, IsRecord(d), NEW p \in DOMAIN d, NEW n \in 0 .. Len(p) - 1
  PROVE  SubSeq(p, 1, n) \in DOMAIN d /\ d[SubSeq(p, 1, n)] = "object"
<1> DEFINE Up(m) == SubSeq(p, 1, Len(p) - m)
           Good(m) == Up(m) \in DOMAIN d /\ d[Up(m)] = "object"
           B == {m \in 1 .. Len(p) : ~Good(m)}
<1>1. p \in Seq(Key) /\ Len(p) \in Nat /\ p # <<>>
  <2>1. p \in Seq(Key)
    BY DEF IsRecord
  <2> QED
    BY <2>1
<1>2. B = {}
  <2> SUFFICES ASSUME B # {} PROVE FALSE
    OBVIOUS
  <2>1. PICK m \in B : \A k \in B : m <= k
    <3>1. B \in SUBSET Nat
      BY <1>1
    <3> HIDE DEF B
    <3> QED
      BY <3>1, LeastNumber
  <2>2. CASE m = 1
    <3>1. Front(p) = Up(1)
      BY DEF Front
    <3>2. Good(1)
      BY <1>1, <3>1 DEF IsRecord
    <3> QED
      BY <2>1, <2>2, <3>2
  <2>3. CASE m # 1
    <3> DEFINE l == m - 1
               t == Up(l)
    <3>1. /\ m \in 1 .. Len(p) /\ l \in 1 .. Len(p) /\ l < m
          /\ Len(p) - l \in 1 .. Len(p) /\ Len(p) - l - 1 = Len(p) - m
      BY <1>1, <2>1, <2>3
    <3>2. Good(l)
      <4> HIDE DEF Good, l
      <4> QED
        BY <1>1, <2>1, <3>1
    <3>3. t \in Seq(Key) /\ Len(t) = Len(p) - l
          /\ \A i \in 1 .. Len(p) - l : t[i] = p[1 + i - 1]
      <4> DEFINE b == Len(p) - l
      <4>1. 1 \in 1 .. Len(p) + 1 /\ b \in 1 - 1 .. Len(p) /\ b - 1 + 1 = b
        BY <1>1, <3>1
      <4> HIDE DEF b
      <4>2. /\ SubSeq(p, 1, b) \in Seq(Key) /\ Len(SubSeq(p, 1, b)) = b
            /\ \A i \in 1 .. b : SubSeq(p, 1, b)[i] = p[1 + i - 1]
        BY <1>1, <4>1, PartOf
      <4> QED
        BY <4>2 DEF b
    <3>4. Front(t) \in DOMAIN d /\ d[Front(t)] = "object"
      <4>1. t # <<>>
        <5> HIDE DEF t
        <5> QED
          BY <3>1, <3>3
      <4> QED
        BY <3>2, <4>1 DEF IsRecord
    <3>5. Front(t) = Up(m)
      <4> DEFINE b == Len(p) - m
                 u == SubSeq(t, 1, b)
                 v == SubSeq(p, 1, b)
      <4>1. /\ 1 \in 1 .. Len(p) + 1 /\ b \in 1 - 1 .. Len(p)
            /\ 1 \in 1 .. Len(t) + 1 /\ b \in 1 - 1 .. Len(t)
            /\ b - 1 + 1 = b /\ \A i \in 1 .. b : i \in 1 .. Len(p) - l
            /\ \A i \in 1 .. b : 1 + i - 1 = i
        <5> HIDE DEF t
        <5> QED
          BY <1>1, <3>1, <3>3
      <4>2. Front(t) = u
        <5> HIDE DEF t
        <5> QED
          BY <3>1, <3>3 DEF Front
      <4> HIDE DEF b, t
      <4>3. /\ u \in Seq(Key) /\ Len(u) = b
            /\ \A i \in 1 .. b : u[i] = t[1 + i - 1]
        BY <3>3, <4>1, PartOf
      <4>4. /\ v \in Seq(Key) /\ Len(v) = b
            /\ \A i \in 1 .. b : v[i] = p[1 + i - 1]
        BY <1>1, <4>1, PartOf
      <4> HIDE DEF u, v
      <4>5. \A i \in 1 .. b : u[i] = v[i]
        BY <3>3, <4>1, <4>3, <4>4
      <4>6. u = v
        BY <4>3, <4>4, <4>5, SeqEqual
      <4> QED
        BY <4>2, <4>6 DEF v, b
    <3> QED
      BY <2>1, <3>4, <3>5
  <2> QED
    BY <2>2, <2>3
<1>3. Len(p) - n \in 1 .. Len(p) /\ Len(p) - (Len(p) - n) = n
  BY <1>1
<1>4. Good(Len(p) - n)
  <2> HIDE DEF Good
  <2> QED
    BY <1>2, <1>3
<1>5. Up(Len(p) - n) = SubSeq(p, 1, n)
  BY <1>3
<1> QED
  BY <1>4, <1>5

(***************************************************************************)
(* What a longer path begins with is an object, and what it goes on with   *)
(* one of its members.                                                     *)
(***************************************************************************)
LEMMA MemberOnPath ==
  ASSUME IsRecord(doc), NEW p \in DOMAIN doc, NEW r \in Seq(Key),
         Len(r) < Len(p), \A j \in 1 .. Len(r) : p[j] = r[j]
  PROVE  /\ r \in DOMAIN doc /\ doc[r] = "object"
         /\ p[Len(r) + 1] \in Members(r)
<1> DEFINE n == Len(r)
           k == p[n + 1]
<1>1. /\ p \in Seq(Key) /\ Len(p) \in Nat /\ n \in Nat
      /\ n \in 0 .. Len(p) - 1 /\ n + 1 \in 1 .. Len(p)
  <2>1. p \in Seq(Key)
    BY DEF IsRecord
  <2> QED
    BY <2>1
<1>2. \A m \in 0 .. Len(p) :
        /\ SubSeq(p, 1, m) \in Seq(Key) /\ Len(SubSeq(p, 1, m)) = m
        /\ \A i \in 1 .. m : SubSeq(p, 1, m)[i] = p[i]
  <2> SUFFICES ASSUME NEW m \in 0 .. Len(p)
               PROVE  /\ SubSeq(p, 1, m) \in Seq(Key)
                      /\ Len(SubSeq(p, 1, m)) = m
                      /\ \A i \in 1 .. m : SubSeq(p, 1, m)[i] = p[i]
    OBVIOUS
  <2>1. 1 \in 1 .. Len(p) + 1 /\ m \in 1 - 1 .. Len(p) /\ m - 1 + 1 = m
        /\ \A i \in 1 .. m : 1 + i - 1 = i
    BY <1>1
  <2>2. /\ SubSeq(p, 1, m) \in Seq(Key) /\ Len(SubSeq(p, 1, m)) = m - 1 + 1
        /\ \A i \in 1 .. m - 1 + 1 : SubSeq(p, 1, m)[i] = p[1 + i - 1]
    BY <1>1, <2>1, PartOf
  <2> QED
    BY <2>1, <2>2
<1>3. SubSeq(p, 1, n) = r
  <2>1. n \in 0 .. Len(p)
    BY <1>1
  <2> DEFINE t == SubSeq(p, 1, n)
  <2>2. t \in Seq(Key) /\ Len(t) = n /\ \A i \in 1 .. n : t[i] = r[i]
    BY <1>2, <2>1
  <2> HIDE DEF t
  <2>3. t = r
    BY <2>2, SeqEqual
  <2> QED
    BY <2>3 DEF t
<1>4. r \in DOMAIN doc /\ doc[r] = "object"
  BY <1>1, <1>3, Ancestor
<1>5. SubSeq(p, 1, n + 1) \in DOMAIN doc
  <2>1. CASE n + 1 = Len(p)
    BY <1>1, <2>1, SubSeqFull
  <2>2. CASE n + 1 # Len(p)
    <3>1. n + 1 \in 0 .. Len(p) - 1
      BY <1>1, <2>2
    <3> QED
      BY <3>1, Ancestor
  <2> QED
    BY <2>1, <2>2
<1>6. Append(r, k) = SubSeq(p, 1, n + 1)
  <2> DEFINE t == SubSeq(p, 1, n + 1)
             u == Append(r, k)
  <2>1. n + 1 \in 0 .. Len(p) /\ k \in Key
    BY <1>1
  <2>2. t \in Seq(Key) /\ Len(t) = n + 1 /\ \A i \in 1 .. n + 1 : t[i] = p[i]
    BY <1>2, <2>1
  <2>3. /\ u \in Seq(Key) /\ Len(u) = n + 1
        /\ \A i \in 1 .. n : u[i] = r[i]
        /\ u[n + 1] = k
    BY <2>1, AppendProperties
  <2> HIDE DEF t, u
  <2>4. \A i \in 1 .. n + 1 : t[i] = u[i]
    BY <1>1, <2>2, <2>3
  <2>5. t = u
    BY <2>2, <2>3, <2>4, SeqEqual
  <2> QED
    BY <2>5 DEF t, u
<1>7. k \in Key
  BY <1>1
<1> QED
  BY <1>4, <1>5, <1>6, <1>7 DEF Members

------------------------------------------------------------------------------
(* The invariant.                                                          *)

FrameType == [path : Seq(Key), prefix : Text, left : SUBSET Key]

\* Each call of the stack fs is on an object of the record, at its depth, and
\* the members it has visited come before those it has left.
Stacked(fs) ==
  \A i \in 1 .. Len(fs) :
    /\ fs[i].path \in DOMAIN doc /\ doc[fs[i].path] = "object"
    /\ Len(fs[i].path) = Len(fs) - i
    /\ fs[i].prefix = Prefix(fs[i].path)
    /\ fs[i].left \subseteq Members(fs[i].path)
    /\ \A k \in Members(fs[i].path) \ fs[i].left :
         \A l \in fs[i].left : Rank(k) < Rank(l)

\* The member in which call i has called call i - 1.
Entered(fs, i) == fs[1].path[Len(fs) - i + 1]

\* The calls are nested along the path of the innermost, and each but that
\* is at the last member that it has visited.
Nested(fs) ==
  /\ \A i \in 1 .. Len(fs) : \A j \in 1 .. Len(fs) - i :
       fs[i].path[j] = fs[1].path[j]
  /\ \A i \in 2 .. Len(fs) :
       /\ Entered(fs, i) \in Members(fs[i].path) \ fs[i].left
       /\ \A k \in Members(fs[i].path) \ fs[i].left :
            k = Entered(fs, i) \/ Rank(k) < Rank(Entered(fs, i))

\* q lies in a member that call i has left.
LeftBy(fs, i, q) ==
  /\ Len(fs) - i < Len(q)
  /\ \A j \in 1 .. Len(fs) - i : q[j] = fs[i].path[j]
  /\ q[Len(fs) - i + 1] \in fs[i].left

Seen(fs) == {q \in Leaves : \A i \in 1 .. Len(fs) : ~LeftBy(fs, i, q)}

\* e is the entry of the flat map for key k, once the leaves of S are seen.
LastSeen(e, k, S) ==
  /\ e.path \in S /\ Joined(e.path) = k
  /\ e.kind \in {"scalar", "text"}
  /\ e.kind = "text" <=> doc[e.path] = "array"
  /\ \A q \in S : Joined(q) = k => q = e.path \/ Before(q, e.path)

MapHolds(map, S) ==
  /\ DOMAIN map = {Joined(p) : p \in S}
  /\ \A k \in DOMAIN map : LastSeen(map[k], k, S)

Inv ==
  /\ IsRecord(doc) /\ frames \in Seq(FrameType)
  /\ Stacked(frames) /\ Nested(frames) /\ MapHolds(out, Seen(frames))

(***************************************************************************)
(* Initially the one call on the root has all members left.                *)
(***************************************************************************)
LEMMA InitInv ==
  Init => Inv
<1> SUFFICES ASSUME Init PROVE Inv
  OBVIOUS
<1> DEFINE f == Frame(<<>>, EmptyKey)
<1>1. IsRecord(doc) /\ frames = <<f>> /\ out = <<>>
  BY FlattenAssumption DEF Init
<1>2. /\ f.path = <<>> /\ f.prefix = EmptyKey /\ f.left = Members(<<>>)
      /\ f \in FrameType
  <2>1. Members(<<>>) \in SUBSET Key /\ <<>> \in Seq(Key) /\ EmptyKey \in Text
    BY EmptyKeyFacts DEF Members
  <2> QED
    BY <2>1 DEF Frame, FrameType
<1> HIDE DEF f
<1>3. frames \in Seq(FrameType) /\ Len(frames) = 1 /\ frames[1] = f
  BY <1>1, <1>2
<1>4. Stacked(frames)
  <2>1. <<>> \in DOMAIN doc /\ doc[<<>>] = "object" /\ Prefix(<<>>) = EmptyKey
    BY <1>1 DEF IsRecord, Prefix
  <2> QED
    BY <1>2, <1>3, <2>1 DEF Stacked
<1>5. Nested(frames)
  BY <1>2, <1>3 DEF Nested
<1>6. Seen(frames) = {}
  <2> SUFFICES ASSUME NEW q \in Leaves PROVE LeftBy(frames, 1, q)
    BY <1>3 DEF Seen
  <2>1. q \in DOMAIN doc /\ q # <<>> /\ q \in Seq(Key) /\ <<>> \in Seq(Key)
    BY <1>1 DEF Leaves, IsRecord
  <2>2. Len(<<>>) < Len(q) /\ \A j \in 1 .. Len(<<>>) : q[j] = <<>>[j]
    BY <2>1
  <2>3. q[Len(<<>>) + 1] \in Members(<<>>)
    BY <1>1, <2>1, <2>2, MemberOnPath
  <2> QED
    BY <1>2, <1>3, <2>2, <2>3 DEF LeftBy
<1>7. MapHolds(out, {})
  BY <1>1 DEF MapHolds
<1> QED
  BY <1>1, <1>3, <1>4, <1>5, <1>6, <1>7 DEF Inv

------------------------------------------------------------------------------
(* The member that the innermost call visits.                              *)

(***************************************************************************)
(* The member visited is the least of those left.                          *)
(***************************************************************************)
LEMMA VisitedIsLeast ==
  ASSUME Inv, Visiting
  PROVE  /\ frames \in Seq(FrameType) /\ Len(frames) \in Nat \ {0}
         /\ frames[1] \in FrameType
         /\ Visited \in frames[1].left /\ Visited \in Key
         /\ \A l \in frames[1].left \ {Visited} : Rank(Visited) < Rank(l)
<1>1. /\ frames \in Seq(FrameType) /\ Len(frames) \in Nat \ {0}
      /\ frames[1] \in FrameType /\ frames[1].left # {}
  BY DEF Inv, Visiting
<1> DEFINE L == frames[1].left
           R == {Rank(k) : k \in L}
<1>2. L \in SUBSET Key /\ L # {}
  BY <1>1 DEF FrameType
<1>3. PICK v \in L : \A l \in L : Rank(v) <= Rank(l)
  <2>1. R \in SUBSET Nat /\ R # {}
    BY <1>2, KeyFacts
  <2>2. PICK m \in R : \A k \in R : m <= k
    <3> HIDE DEF R
    <3> QED
      BY <2>1, LeastNumber
  <2> QED
    BY <2>2
<1>4. Visited \in L /\ \A l \in L : Rank(Visited) <= Rank(l)
  <2>1. Visited = CHOOSE k \in L : \A l \in L : Rank(k) <= Rank(l)
    BY DEF Visited
  <2> HIDE DEF L
  <2> QED
    BY <1>3, <2>1
<1>5. \A l \in L \ {Visited} : Rank(Visited) < Rank(l)
  <2> HIDE DEF L
  <2> SUFFICES ASSUME NEW l \in L \ {Visited} PROVE Rank(Visited) < Rank(l)
    OBVIOUS
  <2>1. l \in Key /\ Visited \in Key
    BY <1>2, <1>4
  <2> QED
    BY <1>4, <2>1, KeyFacts
<1> QED
  BY <1>1, <1>2, <1>4, <1>5

(***************************************************************************)
(* It is a member of the object of the call, and its key is the joined one *)
(* of its path.                                                            *)
(***************************************************************************)
LEMMA HereFacts ==
  ASSUME Inv, Visiting
  PROVE  /\ here \in DOMAIN doc /\ here \in Seq(Key)
         /\ Len(here) = Len(frames) /\ Len(frames[1].path) = Len(frames) - 1
         /\ Visited \in Members(frames[1].path)
         /\ \A j \in 1 .. Len(frames) - 1 : here[j] = frames[1].path[j]
         /\ here[Len(frames)] = Visited
         /\ full = Joined(here) /\ full \in Text
<1>1. /\ Len(frames) \in Nat \ {0} /\ frames[1] \in FrameType
      /\ Visited \in frames[1].left /\ Visited \in Key
  BY VisitedIsLeast
<1> DEFINE path == frames[1].path
           n == Len(frames)
<1>2. /\ path \in Seq(Key) /\ Len(path) = n - 1
      /\ frames[1].prefix = Prefix(path)
      /\ Visited \in Members(path)
  <2>1. 1 \in 1 .. n
    BY <1>1
  <2> QED
    BY <1>1, <2>1 DEF Inv, Stacked, FrameType
<1>3. here = Append(path, Visited) /\ full = Join(frames[1].prefix, Visited)
  BY DEF here, full
<1>4. here \in DOMAIN doc
  BY <1>2, <1>3 DEF Members
<1> HIDE DEF path
<1>5. /\ here \in Seq(Key) /\ Len(here) = n
      /\ \A j \in 1 .. n - 1 : here[j] = path[j]
      /\ here[n] = Visited
  <2>1. n - 1 + 1 = n
    BY <1>1
  <2> HIDE DEF n
  <2> QED
    BY <1>1, <1>2, <1>3, <2>1, AppendProperties
<1>6. full = Joined(here) /\ full \in Text
  BY <1>1, <1>2, <1>3, JoinedStep
<1> QED
  BY <1>1, <1>2, <1>4, <1>5, <1>6 DEF path

(***************************************************************************)
(* The stack once the member is taken from those left.                     *)
(***************************************************************************)
LEMMA RestFacts ==
  ASSUME Inv, Visiting
  PROVE  /\ Rest \in Seq(FrameType) /\ Len(Rest) = Len(frames)
         /\ Rest[1].path = frames[1].path
         /\ Rest[1].prefix = frames[1].prefix
         /\ Rest[1].left = frames[1].left \ {Visited}
         /\ \A i \in 2 .. Len(frames) : Rest[i] = frames[i]
<1> DEFINE f == [frames[1] EXCEPT !.left = @ \ {Visited}]
<1>1. /\ frames \in Seq(FrameType) /\ Len(frames) \in Nat \ {0}
      /\ frames[1] \in FrameType
  BY VisitedIsLeast
<1>2. Rest = [frames EXCEPT ![1] = f]
  BY DEF Rest
<1>3. /\ f \in FrameType /\ f.path = frames[1].path
      /\ f.prefix = frames[1].prefix
      /\ f.left = frames[1].left \ {Visited}
  BY <1>1 DEF FrameType
<1> HIDE DEF f
<1>4. /\ Rest \in Seq(FrameType) /\ Len(Rest) = Len(frames) /\ Rest[1] = f
      /\ \A i \in 2 .. Len(frames) : Rest[i] = frames[i]
  BY <1>1, <1>2, <1>3
<1> QED
  BY <1>3, <1>4

(***************************************************************************)
(* The member is taken: the stack is as it was, and its calls are nested   *)
(* along the same path.                                                    *)
(***************************************************************************)
LEMMA RestStack ==
  ASSUME Inv, Visiting
  PROVE  Stacked(Rest) /\ Nested(Rest)
<1> DEFINE n == Len(frames)
           f == frames[1]
           g == Rest[1]
<1>1. /\ n \in Nat \ {0} /\ f \in FrameType /\ Visited \in f.left
      /\ \A l \in f.left \ {Visited} : Rank(Visited) < Rank(l)
  BY VisitedIsLeast
<1>2. /\ Len(Rest) = n /\ g.path = f.path /\ g.prefix = f.prefix
      /\ g.left = f.left \ {Visited}
      /\ \A i \in 2 .. n : Rest[i] = frames[i]
  BY RestFacts
<1>3. Stacked(frames) /\ Nested(frames)
  BY DEF Inv
<1>4. /\ f.path \in DOMAIN doc /\ doc[f.path] = "object"
      /\ Len(f.path) = n - 1 /\ f.prefix = Prefix(f.path)
      /\ f.left \subseteq Members(f.path)
      /\ \A k \in Members(f.path) \ f.left : \A l \in f.left : Rank(k) < Rank(l)
  <2>1. 1 \in 1 .. n
    BY <1>1
  <2> QED
    BY <1>3, <2>1 DEF Stacked
<1>5. \A k \in Members(g.path) \ g.left : \A l \in g.left : Rank(k) < Rank(l)
  BY <1>1, <1>2, <1>4
<1>6. Stacked(Rest)
  <2> SUFFICES ASSUME NEW i \in 1 .. n
               PROVE  /\ Rest[i].path \in DOMAIN doc
                      /\ doc[Rest[i].path] = "object"
                      /\ Len(Rest[i].path) = n - i
                      /\ Rest[i].prefix = Prefix(Rest[i].path)
                      /\ Rest[i].left \subseteq Members(Rest[i].path)
                      /\ \A k \in Members(Rest[i].path) \ Rest[i].left :
                           \A l \in Rest[i].left : Rank(k) < Rank(l)
    BY <1>2 DEF Stacked
  <2>1. CASE i = 1
    BY <1>2, <1>4, <1>5, <2>1
  <2>2. CASE i # 1
    <3>1. i \in 2 .. n /\ Rest[i] = frames[i]
      BY <1>2, <2>2
    <3> QED
      BY <1>3, <3>1 DEF Stacked
  <2> QED
    BY <2>1, <2>2
<1>7. \A i \in 1 .. n : Rest[i].path = frames[i].path
  BY <1>1, <1>2
<1>8. Nested(Rest)
  <2>1. \A i : Entered(Rest, i) = Entered(frames, i)
    BY <1>2 DEF Entered
  <2> QED
    BY <1>1, <1>2, <1>3, <1>7, <2>1 DEF Nested
<1> QED
  BY <1>6, <1>8

(***************************************************************************)
(* A leaf that was seen is not in the member visited next and, if that is  *)
(* a leaf, comes before it.                                                *)
(***************************************************************************)
LEMMA SeenEarlier ==
  ASSUME Inv, Visiting, here \in Leaves, NEW q \in Seen(frames)
  PROVE  q # here /\ Before(q, here)
<1> DEFINE n == Len(frames)
           path == frames[1].path
           p == here
           Apart(j) == j > Len(q) \/ q[j] # p[j]
           D == {j \in 1 .. n : Apart(j)}
<1>1. /\ IsRecord(doc) /\ n \in Nat \ {0} /\ Visited \in frames[1].left
      /\ frames \in Seq(FrameType)
  BY VisitedIsLeast DEF Inv
<1>2. /\ p \in DOMAIN doc /\ p \in Seq(Key) /\ Len(p) = n
      /\ Len(path) = n - 1 /\ p[n] = Visited
      /\ \A j \in 1 .. n - 1 : p[j] = path[j]
  BY HereFacts
<1>3. /\ q \in DOMAIN doc /\ doc[q] # "object" /\ doc[p] # "object"
      /\ q \in Seq(Key) /\ Len(q) \in Nat
      /\ \A i \in 1 .. n : ~LeftBy(frames, i, q)
  BY <1>1 DEF Seen, Leaves, IsRecord
<1> HIDE DEF p, path
<1>4. q # p
  <2>1. LeftBy(frames, 1, p)
    BY <1>1, <1>2 DEF LeftBy, path
  <2>2. 1 \in 1 .. n
    BY <1>1
  <2> QED
    BY <1>3, <2>1, <2>2
<1>5. D # {}
  <2> SUFFICES ASSUME \A j \in 1 .. n : j <= Len(q) /\ q[j] = p[j]
               PROVE  FALSE
    BY <1>3
  <2>1. n <= Len(q)
    BY <1>1
  <2>2. CASE Len(q) = n
    <3>1. \A j \in 1 .. n : q[j] = p[j]
      OBVIOUS
    <3> QED
      BY <1>2, <1>3, <1>4, <2>2, <3>1, SeqEqual
  <2>3. CASE Len(q) # n
    <3>1. Len(p) < Len(q) /\ \A j \in 1 .. Len(p) : q[j] = p[j]
      BY <1>1, <1>2, <1>3, <2>1, <2>3
    <3> QED
      BY <1>1, <1>2, <1>3, <3>1, MemberOnPath
  <2> QED
    BY <2>2, <2>3
<1>6. PICK j \in 1 .. n : Apart(j) /\ \A m \in 1 .. j - 1 : ~Apart(m)
  <2>1. D \in SUBSET Nat
    BY <1>1
  <2>2. PICK j \in D : \A m \in D : j <= m
    <3> HIDE DEF D
    <3> QED
      BY <1>5, <2>1, LeastNumber
  <2> QED
    BY <1>1, <2>2
<1>7. \A m \in 1 .. j - 1 : m <= Len(q) /\ q[m] = p[m]
  BY <1>1, <1>3, <1>6
<1>8. j <= Len(q) /\ q[j] # p[j]
  <2> SUFFICES ASSUME j > Len(q) PROVE FALSE
    BY <1>6
  <2>1. Len(q) < Len(p) /\ \A m \in 1 .. Len(q) : p[m] = q[m]
    BY <1>1, <1>2, <1>3, <1>7
  <2> QED
    BY <1>1, <1>2, <1>3, <2>1, MemberOnPath
<1> DEFINE i == n - j + 1
           r == frames[i].path
<1>9. i \in 1 .. n /\ n - i = j - 1 /\ n - i + 1 = j
  BY <1>1
<1>10. /\ r \in Seq(Key) /\ Len(r) = j - 1 /\ frames[i] \in FrameType
       /\ \A m \in 1 .. j - 1 : r[m] = path[m]
       /\ \A k \in Members(r) \ frames[i].left :
            \A l \in frames[i].left : Rank(k) < Rank(l)
  <2> HIDE DEF i
  <2>1. frames[i] \in FrameType /\ r \in Seq(Key)
    <3>1. frames[i] \in FrameType
      BY <1>1, <1>9
    <3> QED
      BY <3>1 DEF FrameType
  <2>2. Len(r) = n - i
    BY <1>9 DEF Inv, Stacked
  <2>3. \A m \in 1 .. n - i : r[m] = path[m]
    BY <1>9 DEF Inv, Nested, path
  <2>4. \A k \in Members(r) \ frames[i].left :
          \A l \in frames[i].left : Rank(k) < Rank(l)
    BY <1>9 DEF Inv, Stacked
  <2> QED
    BY <1>9, <2>1, <2>2, <2>3, <2>4
<1> HIDE DEF i, r
<1>11. \A m \in 1 .. j - 1 : q[m] = r[m]
  BY <1>2, <1>7, <1>10
<1>12. q[j] \in Members(r)
  <2>1. Len(r) < Len(q) /\ \A m \in 1 .. Len(r) : q[m] = r[m]
    BY <1>3, <1>8, <1>10, <1>11
  <2>2. Len(r) + 1 = j
    BY <1>10
  <2>3. q[Len(r) + 1] \in Members(r)
    BY <1>1, <1>3, <1>10, <2>1, MemberOnPath
  <2> QED
    BY <2>2, <2>3
<1>13. q[j] \notin frames[i].left
  <2>1. ~LeftBy(frames, i, q)
    BY <1>3, <1>9
  <2> QED
    BY <1>3, <1>8, <1>9, <1>11, <2>1 DEF LeftBy, r
<1>14. Rank(q[j]) < Rank(p[j])
  <2>1. CASE i = 1
    <3>1. j = n /\ p[j] \in frames[i].left
      BY <1>1, <1>2, <1>9, <2>1 DEF i
    <3> QED
      BY <1>10, <1>12, <1>13, <3>1
  <2>2. CASE i # 1
    <3>1. i \in 2 .. n /\ j \in 1 .. n - 1
      BY <1>1, <1>9, <2>2
    <3>2. Entered(frames, i) = p[j]
      BY <1>2, <1>9, <3>1 DEF Entered, path
    <3>3. q[j] = p[j] \/ Rank(q[j]) < Rank(p[j])
      BY <1>12, <1>13, <3>1, <3>2 DEF Inv, Nested, r
    <3> QED
      BY <1>8, <3>3
  <2> QED
    BY <2>1, <2>2
<1>15. j \in DOMAIN q \cap DOMAIN p
  BY <1>1, <1>2, <1>3, <1>8
<1>16. Before(q, p)
  BY <1>7, <1>14, <1>15 DEF Before
<1> QED
  BY <1>4, <1>16 DEF p

(***************************************************************************)
(* Taking the member from those left takes away the leaves under it.       *)
(***************************************************************************)
LEMMA SeenByRest ==
  ASSUME Inv, Visiting, NEW q \in Leaves
  PROVE  q \in Seen(Rest) <=>
           \/ q \in Seen(frames)
           \/ /\ Len(frames) <= Len(q)
              /\ \A j \in 1 .. Len(frames) : q[j] = here[j]
<1> DEFINE n == Len(frames)
           f == frames[1]
           Under == n <= Len(q) /\ \A j \in 1 .. n : q[j] = here[j]
<1>1. n \in Nat \ {0} /\ f \in FrameType
  BY VisitedIsLeast
<1>2. /\ Len(Rest) = n /\ Rest[1].path = f.path
      /\ Rest[1].left = f.left \ {Visited}
      /\ \A i \in 2 .. n : Rest[i] = frames[i]
  BY RestFacts
<1>3. /\ \A j \in 1 .. n - 1 : here[j] = f.path[j]
      /\ here[n] = Visited
  BY HereFacts
<1>4. q \in Seq(Key) /\ Len(q) \in Nat
  <2>1. q \in Seq(Key)
    BY DEF Inv, Leaves, IsRecord
  <2> QED
    BY <2>1
<1> HIDE DEF f
<1>5. \A i \in 2 .. n : LeftBy(Rest, i, q) <=> LeftBy(frames, i, q)
  BY <1>2 DEF LeftBy
<1>6. LeftBy(Rest, 1, q) <=> LeftBy(frames, 1, q) /\ q[n] # Visited
  BY <1>1, <1>2 DEF LeftBy, f
<1>7. ASSUME q \in Seen(frames) PROVE q \in Seen(Rest)
  BY <1>1, <1>2, <1>5, <1>6, <1>7 DEF Seen
<1>8. ASSUME Under PROVE q \in Seen(Rest)
  <2>1. ~LeftBy(Rest, 1, q)
    BY <1>1, <1>3, <1>6, <1>8
  <2>2. ASSUME NEW i \in 2 .. n PROVE ~LeftBy(Rest, i, q)
    <3>1. n - i + 1 \in 1 .. n - 1
      BY <1>1
    <3>2. q[n - i + 1] = Entered(frames, i)
      BY <1>3, <1>8, <3>1 DEF Entered, f
    <3>3. Entered(frames, i) \notin frames[i].left
      BY DEF Inv, Nested
    <3> QED
      BY <1>5, <3>2, <3>3 DEF LeftBy
  <2> QED
    BY <1>1, <1>2, <2>1, <2>2 DEF Seen
<1>9. ASSUME q \in Seen(Rest), q \notin Seen(frames) PROVE Under
  <2>1. PICK i \in 1 .. n : LeftBy(frames, i, q)
    BY <1>9 DEF Seen
  <2>2. ~LeftBy(Rest, i, q) /\ ~LeftBy(Rest, 1, q)
    BY <1>1, <1>2, <1>9 DEF Seen
  <2>3. i = 1
    BY <1>1, <1>5, <2>1, <2>2
  <2>4. LeftBy(frames, 1, q) /\ q[n] = Visited
    BY <1>6, <2>1, <2>2, <2>3
  <2>5. n - 1 < Len(q) /\ \A j \in 1 .. n - 1 : q[j] = f.path[j]
    BY <2>4 DEF LeftBy, f
  <2> QED
    BY <1>1, <1>3, <1>4, <2>4, <2>5
<1> QED
  BY <1>7, <1>8, <1>9

(***************************************************************************)
(* A leaf that is visited is the one leaf seen more.                       *)
(***************************************************************************)
LEMMA SeenWithLeaf ==
  ASSUME Inv, Visiting, here \in Leaves
  PROVE  Seen(Rest) = Seen(frames) \cup {here}
<1> DEFINE n == Len(frames)
<1>1. /\ here \in DOMAIN doc /\ here \in Seq(Key) /\ Len(here) = n
      /\ n \in Nat /\ IsRecord(doc)
  BY VisitedIsLeast, HereFacts DEF Inv
<1>2. Seen(Rest) \subseteq Leaves /\ Seen(frames) \subseteq Leaves
  BY DEF Seen
<1>3. here \in Seen(Rest)
  BY <1>1, SeenByRest
<1>4. ASSUME NEW q \in Leaves, n <= Len(q), \A j \in 1 .. n : q[j] = here[j]
      PROVE  q = here
  <2>1. q \in DOMAIN doc /\ q \in Seq(Key) /\ Len(q) \in Nat
    <3>1. q \in DOMAIN doc /\ q \in Seq(Key)
      BY <1>1 DEF Leaves, IsRecord
    <3> QED
      BY <3>1
  <2>2. CASE Len(q) = n
    BY <1>1, <1>4, <2>1, <2>2, SeqEqual
  <2>3. CASE Len(q) # n
    <3>1. Len(here) < Len(q)
      BY <1>1, <1>4, <2>1, <2>3
    <3>2. doc[here] = "object"
      BY <1>1, <1>4, <2>1, <3>1, MemberOnPath
    <3> QED
      BY <3>2 DEF Leaves
  <2> QED
    BY <2>2, <2>3
<1>5. \A q \in Leaves : q \in Seen(Rest) <=> q \in Seen(frames) \/ q = here
  <2> SUFFICES ASSUME NEW q \in Leaves
               PROVE  q \in Seen(Rest) <=> q \in Seen(frames) \/ q = here
    OBVIOUS
  <2>1. q \in Seen(Rest) => q \in Seen(frames) \/ q = here
    BY <1>4, SeenByRest
  <2>2. q \in Seen(frames) => q \in Seen(Rest)
    BY SeenByRest
  <2> QED
    BY <1>3, <2>1, <2>2
<1> QED
  BY <1>2, <1>5

------------------------------------------------------------------------------
(* The call on an object that is visited.                                  *)

Called == <<Frame(here, full)>> \o Rest

(***************************************************************************)
(* The stack with that call on it.                                         *)
(***************************************************************************)
LEMMA CalledFacts ==
  ASSUME Inv, Visiting
  PROVE  /\ Called \in Seq(FrameType) /\ Len(Called) = Len(frames) + 1
         /\ Called[1].path = here /\ Called[1].prefix = full
         /\ Called[1].left = Members(here)
         /\ \A i \in 2 .. Len(frames) + 1 : Called[i] = Rest[i - 1]
<1> DEFINE f == Frame(here, full)
<1>1. /\ f \in FrameType /\ f.path = here /\ f.prefix = full
      /\ f.left = Members(here)
  <2>1. here \in Seq(Key) /\ full \in Text
    BY HereFacts
  <2>2. Members(here) \in SUBSET Key
    BY DEF Members
  <2> QED
    BY <2>1, <2>2 DEF Frame, FrameType
<1> HIDE DEF f
<1>2. /\ Rest \in Seq(FrameType) /\ Len(Rest) = Len(frames)
      /\ Len(frames) \in Nat
  BY RestFacts, VisitedIsLeast
<1>3. Called = <<f>> \o Rest
  BY DEF Called, f
<1>4. <<f>> \in Seq(FrameType) /\ Len(<<f>>) = 1 /\ <<f>>[1] = f
  BY <1>1
<1> HIDE DEF Called
<1>5. /\ Called \in Seq(FrameType) /\ Len(Called) = Len(frames) + 1
      /\ Called[1] = f
      /\ \A i \in 2 .. Len(frames) + 1 : Called[i] = Rest[i - 1]
  BY <1>2, <1>3, <1>4, ConcatProperties
<1> QED
  BY <1>1, <1>5

(***************************************************************************)
(* The new call is nested in the one that makes it.                        *)
(***************************************************************************)
LEMMA CalledStack ==
  ASSUME Inv, Visiting, doc[here] = "object"
  PROVE  Stacked(Called) /\ Nested(Called)
<1> DEFINE n == Len(frames)
           path == frames[1].path
<1>1. /\ n \in Nat \ {0} /\ frames[1] \in FrameType
      /\ \A l \in frames[1].left \ {Visited} : Rank(Visited) < Rank(l)
      /\ Visited \in frames[1].left
  BY VisitedIsLeast
<1>2. /\ here \in DOMAIN doc /\ here \in Seq(Key) /\ Len(here) = n
      /\ Visited \in Members(path) /\ here[n] = Visited
      /\ \A j \in 1 .. n - 1 : here[j] = path[j]
      /\ full = Joined(here)
  BY HereFacts
<1>3. /\ Len(Rest) = n /\ Rest[1].path = path
      /\ Rest[1].left = frames[1].left \ {Visited}
      /\ \A i \in 2 .. n : Rest[i] = frames[i]
  BY RestFacts
<1>4. /\ Len(Called) = n + 1
      /\ Called[1].path = here /\ Called[1].prefix = full
      /\ Called[1].left = Members(here)
      /\ \A i \in 2 .. n + 1 : Called[i] = Rest[i - 1]
  BY CalledFacts
<1>5. Stacked(Rest) /\ Nested(Rest)
  BY RestStack
<1>6. full = Prefix(here)
  BY <1>1, <1>2 DEF Prefix
<1> HIDE DEF n, path
<1>7. Stacked(Called)
  <2> SUFFICES ASSUME NEW i \in 1 .. Len(Called)
               PROVE  /\ Called[i].path \in DOMAIN doc
                      /\ doc[Called[i].path] = "object"
                      /\ Len(Called[i].path) = Len(Called) - i
                      /\ Called[i].prefix = Prefix(Called[i].path)
                      /\ Called[i].left \subseteq Members(Called[i].path)
                      /\ \A k \in Members(Called[i].path) \ Called[i].left :
                           \A l \in Called[i].left : Rank(k) < Rank(l)
    BY DEF Stacked
  <2>1. CASE i = 1
    BY <1>1, <1>2, <1>4, <1>6, <2>1
  <2>2. CASE i # 1
    <3> DEFINE m == i - 1
    <3>1. m \in 1 .. n /\ Called[i] = Rest[m]
          /\ Len(Called) - i = n - m
      BY <1>1, <1>4, <2>2
    <3> HIDE DEF m
    <3> QED
      BY <1>3, <1>5, <3>1 DEF Stacked
  <2> QED
    BY <2>1, <2>2
<1>8. ASSUME NEW i \in 1 .. Len(Called), NEW j \in 1 .. Len(Called) - i
      PROVE  Called[i].path[j] = here[j]
  <2>1. CASE i = 1
    BY <1>4, <2>1
  <2>2. CASE i # 1
    <3> DEFINE m == i - 1
    <3>1. /\ m \in 1 .. n /\ Called[i] = Rest[m] /\ j \in 1 .. n - m
          /\ j \in 1 .. n - 1
      BY <1>1, <1>4, <2>2
    <3> HIDE DEF m
    <3>2. Rest[m].path[j] = path[j]
      BY <1>3, <1>5, <3>1 DEF Nested
    <3> QED
      BY <1>2, <3>1, <3>2
  <2> QED
    BY <2>1, <2>2
<1>9. ASSUME NEW i \in 2 .. Len(Called)
      PROVE  LET e == Entered(Called, i)
                 went == Members(Called[i].path) \ Called[i].left
             IN  /\ e \in went
                 /\ \A k \in went : k = e \/ Rank(k) < Rank(e)
  <2> DEFINE m == i - 1
             e == Entered(Called, i)
  <2>1. m \in 1 .. n /\ Called[i] = Rest[m]
    BY <1>1, <1>4
  <2>2. e = here[Len(Called) - i + 1]
    BY <1>4 DEF Entered
  <2>3. CASE i = 2
    <3>1. m = 1 /\ e = Visited
      <4>1. m = 1 /\ Len(Called) - i + 1 = n
        BY <1>1, <1>4, <2>3
      <4> QED
        BY <1>2, <2>2, <4>1
    <3> HIDE DEF m, e
    <3>2. e \in Members(path) \ Rest[1].left
      BY <1>2, <1>3, <3>1
    <3>3. ASSUME NEW k \in Members(path) \ Rest[1].left, k # e
          PROVE  Rank(k) < Rank(e)
      <4>1. k \in Members(path) \ frames[1].left
        BY <1>3, <3>1, <3>3
      <4>2. 1 \in 1 .. n
        BY <1>1
      <4> QED
        BY <1>1, <3>1, <4>1, <4>2 DEF Inv, Stacked, path, n
    <3> QED
      BY <1>3, <2>1, <3>1, <3>2, <3>3 DEF e
  <2>4. CASE i # 2
    <3>1. /\ m \in 2 .. n /\ Len(Called) - i + 1 = n - m + 1
          /\ n - m + 1 \in 1 .. n - 1
      BY <1>1, <1>4, <2>4
    <3> HIDE DEF m
    <3>2. e = Entered(Rest, m)
      BY <1>2, <1>3, <2>2, <3>1 DEF Entered
    <3> HIDE DEF e
    <3>3. /\ e \in Members(Rest[m].path) \ Rest[m].left
          /\ \A k \in Members(Rest[m].path) \ Rest[m].left :
               k = e \/ Rank(k) < Rank(e)
      BY <1>3, <1>5, <3>1, <3>2 DEF Nested
    <3> QED
      BY <2>1, <3>3 DEF e
  <2> QED
    BY <2>3, <2>4
<1>10. Nested(Called)
  BY <1>4, <1>8, <1>9 DEF Nested
<1> QED
  BY <1>7, <1>10

(***************************************************************************)
(* No leaf is seen more: the new call has left what is under the object.   *)
(***************************************************************************)
LEMMA CalledSeen ==
  ASSUME Inv, Visiting, doc[here] = "object"
  PROVE  Seen(Called) = Seen(frames)
<1> DEFINE n == Len(frames)
<1>1. n \in Nat \ {0} /\ IsRecord(doc)
  BY VisitedIsLeast DEF Inv
<1>2. here \in DOMAIN doc /\ here \in Seq(Key) /\ Len(here) = n
  BY HereFacts
<1>3. /\ Len(Called) = n + 1 /\ Called[1].path = here
      /\ Called[1].left = Members(here)
      /\ \A i \in 2 .. n + 1 : Called[i] = Rest[i - 1]
      /\ Len(Rest) = n
  BY CalledFacts, RestFacts
<1> HIDE DEF n
<1>4. ASSUME NEW q \in Leaves
      PROVE  q \in Seen(Called) <=> q \in Seen(frames)
  <2>1. q \in DOMAIN doc /\ q \in Seq(Key) /\ Len(q) \in Nat /\ q # here
    <3>1. q \in DOMAIN doc /\ q \in Seq(Key) /\ q # here
      BY <1>1, <1>2 DEF Leaves, IsRecord
    <3> QED
      BY <3>1
  <2> DEFINE Under == n <= Len(q) /\ \A j \in 1 .. n : q[j] = here[j]
  <2>2. LeftBy(Called, 1, q) <=> Under
    <3>1. ASSUME Under PROVE LeftBy(Called, 1, q)
      <4>1. Len(q) # n
        BY <1>1, <1>2, <2>1, <3>1, SeqEqual
      <4>2. Len(here) < Len(q) /\ \A j \in 1 .. Len(here) : q[j] = here[j]
        BY <1>1, <1>2, <2>1, <3>1, <4>1
      <4>3. q[n + 1] \in Members(here)
        BY <1>1, <1>2, <2>1, <4>2, MemberOnPath
      <4>4. n + 1 - 1 = n
        BY <1>1
      <4> QED
        BY <1>2, <1>3, <4>2, <4>3, <4>4 DEF LeftBy
    <3>2. ASSUME LeftBy(Called, 1, q) PROVE Under
      BY <1>1, <1>3, <2>1, <3>2 DEF LeftBy
    <3> QED
      BY <3>1, <3>2
  <2>3. \A i \in 1 .. n : LeftBy(Called, i + 1, q) <=> LeftBy(Rest, i, q)
    <3> SUFFICES ASSUME NEW i \in 1 .. n
                 PROVE  LeftBy(Called, i + 1, q) <=> LeftBy(Rest, i, q)
      OBVIOUS
    <3> DEFINE m == i + 1
    <3>1. /\ m \in 2 .. n + 1 /\ m - 1 = i /\ n + 1 - m = n - i
      BY <1>1
    <3> HIDE DEF m
    <3>2. LeftBy(Called, m, q) <=> LeftBy(Rest, i, q)
      <4>1. Called[m] = Rest[i]
        BY <1>3, <3>1
      <4>2. Len(Called) - m = Len(Rest) - i
        BY <1>3, <3>1
      <4> QED
        BY <4>1, <4>2, Zenon DEF LeftBy
    <3> QED
      BY <3>2 DEF m
  <2>4. q \in Seen(Called) <=> q \in Seen(Rest) /\ ~Under
    <3>1. q \in Seen(Called) =>
            /\ ~LeftBy(Called, 1, q)
            /\ \A i \in 1 .. n : ~LeftBy(Called, i + 1, q)
      BY <1>1, <1>3 DEF Seen
    <3>2. ASSUME q \notin Seen(Called), ~LeftBy(Called, 1, q)
          PROVE  \E i \in 1 .. n : LeftBy(Called, i + 1, q)
      <4>1. PICK m \in 1 .. n + 1 : LeftBy(Called, m, q)
        BY <1>3, <3>2 DEF Seen
      <4>2. m - 1 \in 1 .. n /\ m - 1 + 1 = m
        BY <1>1, <3>2, <4>1
      <4> QED
        BY <4>1, <4>2
    <3>3. q \in Seen(Rest) <=> \A i \in 1 .. n : ~LeftBy(Rest, i, q)
      BY <1>3 DEF Seen
    <3> HIDE DEF Under
    <3> QED
      BY <2>2, <2>3, <3>1, <3>2, <3>3
  <2>5. q \in Seen(Rest) <=> q \in Seen(frames) \/ Under
    BY SeenByRest DEF n
  <2>6. q \in Seen(frames) => ~Under
    <3> SUFFICES ASSUME Under PROVE LeftBy(frames, 1, q)
      BY <1>1 DEF Seen, n
    <3>1. /\ \A j \in 1 .. n - 1 : here[j] = frames[1].path[j]
          /\ here[n] = Visited /\ Visited \in frames[1].left
      BY HereFacts, VisitedIsLeast DEF n
    <3> QED
      BY <1>1, <2>1, <3>1 DEF LeftBy, n
  <2> HIDE DEF Under
  <2> QED
    BY <2>4, <2>5, <2>6
<1>5. Seen(Called) \subseteq Leaves /\ Seen(frames) \subseteq Leaves
  BY DEF Seen
<1> QED
  BY <1>4, <1>5

------------------------------------------------------------------------------
(* The return of a call.                                                   *)

(***************************************************************************)
(* A call that has nothing left gives way to the one that made it: the     *)
(* stack stays nested and no leaf is seen more.                            *)
(***************************************************************************)
LEMMA AfterReturn ==
  ASSUME Inv, frames # <<>>, frames[1].left = {}
  PROVE  /\ Tail(frames) \in Seq(FrameType)
         /\ Stacked(Tail(frames)) /\ Nested(Tail(frames))
         /\ Seen(Tail(frames)) = Seen(frames)
<1> DEFINE n == Len(frames)
           t == Tail(frames)
           l == Len(t)
<1>1. frames \in Seq(FrameType) /\ n \in Nat \ {0}
  BY DEF Inv
<1>2. /\ t \in Seq(FrameType) /\ l = n - 1 /\ l \in Nat
      /\ \A i \in 1 .. l : t[i] = frames[i + 1]
  BY <1>1
<1>3. Stacked(frames) /\ Nested(frames)
  BY DEF Inv
<1> HIDE DEF t, l, n
<1>4. Stacked(t)
  <2> SUFFICES ASSUME NEW i \in 1 .. l
               PROVE  /\ t[i].path \in DOMAIN doc
                      /\ doc[t[i].path] = "object"
                      /\ Len(t[i].path) = l - i
                      /\ t[i].prefix = Prefix(t[i].path)
                      /\ t[i].left \subseteq Members(t[i].path)
                      /\ \A k \in Members(t[i].path) \ t[i].left :
                           \A m \in t[i].left : Rank(k) < Rank(m)
    BY DEF Stacked, l
  <2> DEFINE m == i + 1
  <2>1. m \in 1 .. n /\ t[i] = frames[m] /\ l - i = n - m
    BY <1>1, <1>2
  <2> HIDE DEF m
  <2> QED
    BY <1>3, <2>1 DEF Stacked, n
<1>5. \A j \in 1 .. l - 1 : t[1].path[j] = frames[1].path[j]
  <2> SUFFICES ASSUME NEW j \in 1 .. l - 1
               PROVE  t[1].path[j] = frames[1].path[j]
    OBVIOUS
  <2>1. 2 \in 1 .. n /\ j \in 1 .. n - 2 /\ t[1] = frames[2]
    BY <1>1, <1>2
  <2>2. frames[2].path[j] = frames[1].path[j]
    BY <1>3, <2>1, Zenon DEF Nested, n
  <2> QED
    BY <2>1, <2>2
<1>6. ASSUME NEW i \in 1 .. l, NEW j \in 1 .. l - i
      PROVE  t[i].path[j] = t[1].path[j]
  <2> DEFINE m == i + 1
  <2>1. m \in 1 .. n /\ t[i] = frames[m] /\ j \in 1 .. n - m /\ j \in 1 .. l - 1
    BY <1>1, <1>2
  <2> HIDE DEF m
  <2>2. frames[m].path[j] = frames[1].path[j]
    BY <1>3, <2>1, Zenon DEF Nested, n
  <2> QED
    BY <1>5, <2>1, <2>2
<1>7. ASSUME NEW i \in 2 .. l
      PROVE  /\ Entered(t, i) \in Members(t[i].path) \ t[i].left
             /\ \A k \in Members(t[i].path) \ t[i].left :
                  k = Entered(t, i) \/ Rank(k) < Rank(Entered(t, i))
  <2> DEFINE m == i + 1
             d == l - i + 1
             e == Entered(t, i)
  <2>1. /\ m \in 2 .. n /\ t[i] = frames[m] /\ d = n - m + 1
        /\ d \in 1 .. l - 1
    BY <1>1, <1>2
  <2>2. e = t[1].path[d]
    BY DEF Entered, l
  <2> HIDE DEF m, d, e
  <2>3. Entered(frames, m) = frames[1].path[d]
    BY <2>1 DEF Entered, n
  <2>4. e = Entered(frames, m)
    BY <1>5, <2>1, <2>2, <2>3
  <2>5. /\ e \in Members(frames[m].path) \ frames[m].left
        /\ \A k \in Members(frames[m].path) \ frames[m].left :
             k = e \/ Rank(k) < Rank(e)
    BY <1>3, <2>1, <2>4 DEF Nested, n
  <2> QED
    BY <2>1, <2>5 DEF e
<1>8. Nested(t)
  BY <1>6, <1>7 DEF Nested, l
<1>9. Seen(t) = Seen(frames)
  <2> SUFFICES ASSUME NEW q \in Leaves
               PROVE  q \in Seen(t) <=> q \in Seen(frames)
    BY DEF Seen
  <2>1. ~LeftBy(frames, 1, q)
    BY DEF LeftBy
  <2>2. \A i \in 1 .. l : LeftBy(t, i, q) <=> LeftBy(frames, i + 1, q)
    <3> SUFFICES ASSUME NEW i \in 1 .. l
                 PROVE  LeftBy(t, i, q) <=> LeftBy(frames, i + 1, q)
      OBVIOUS
    <3> DEFINE m == i + 1
    <3>1. t[i] = frames[m] /\ Len(t) - i = Len(frames) - m
      BY <1>1, <1>2 DEF l, n
    <3> HIDE DEF m
    <3>2. LeftBy(t, i, q) <=> LeftBy(frames, m, q)
      BY <3>1 DEF LeftBy
    <3> QED
      BY <3>2 DEF m
  <2>3. q \in Seen(t) <=> \A i \in 1 .. l : ~LeftBy(frames, i + 1, q)
    BY <2>2 DEF Seen, l
  <2>4. q \in Seen(frames) <=> \A i \in 1 .. n : ~LeftBy(frames, i, q)
    BY DEF Seen, n
  <2>5. \A i \in 1 .. l : i + 1 \in 1 .. n
    BY <1>1, <1>2
  <2>6. \A i \in 1 .. n : i = 1 \/ (i - 1 \in 1 .. l /\ i - 1 + 1 = i)
    BY <1>1, <1>2
  <2>7. ASSUME \A i \in 1 .. l : ~LeftBy(frames, i + 1, q), NEW i \in 1 .. n
        PROVE  ~LeftBy(frames, i, q)
    <3>1. CASE i = 1
      BY <2>1, <3>1
    <3>2. CASE i # 1
      <4>1. i - 1 \in 1 .. l /\ i - 1 + 1 = i
        BY <2>6, <3>2
      <4>2. ~LeftBy(frames, i - 1 + 1, q)
        BY <2>7, <4>1
      <4> QED
        BY <4>1, <4>2
    <3> QED
      BY <3>1, <3>2
  <2> QED
    BY <2>3, <2>4, <2>5, <2>7
<1> QED
  BY <1>2, <1>4, <1>8, <1>9 DEF t

------------------------------------------------------------------------------
(* The steps.                                                              *)

(***************************************************************************)
(* A leaf that comes after all that were seen takes its key.               *)
(***************************************************************************)
LEMMA LeafPut ==
  ASSUME NEW S, MapHolds(out, S), NEW p, NEW kind \in {"scalar", "text"},
         kind = "text" <=> doc[p] = "array",
         \A q \in S : Before(q, p)
  PROVE  MapHolds(Put(Joined(p), [kind |-> kind, path |-> p]), S \cup {p})
<1> DEFINE key == Joined(p)
           e == [kind |-> kind, path |-> p]
           map == Put(key, e)
<1>1. e.kind = kind /\ e.path = p
  OBVIOUS
<1> HIDE DEF e
<1>2. /\ DOMAIN map = DOMAIN out \cup {key}
      /\ \A k \in DOMAIN map : map[k] = IF k = key THEN e ELSE out[k]
  BY DEF Put
<1> HIDE DEF map
<1>3. DOMAIN map = {Joined(q) : q \in S \cup {p}}
  <2>1. DOMAIN out = {Joined(q) : q \in S}
    BY DEF MapHolds
  <2> QED
    BY <1>2, <2>1
<1>4. ASSUME NEW k \in DOMAIN map
      PROVE  LastSeen(map[k], k, S \cup {p})
  <2>1. CASE k = key
    BY <1>1, <1>2, <2>1 DEF LastSeen
  <2>2. CASE k # key
    <3>1. k \in DOMAIN out /\ map[k] = out[k]
      BY <1>2, <2>2
    <3>2. LastSeen(out[k], k, S)
      BY <3>1 DEF MapHolds
    <3> QED
      BY <2>2, <3>1, <3>2 DEF LastSeen
  <2> QED
    BY <2>1, <2>2
<1>5. MapHolds(map, S \cup {p})
  BY <1>3, <1>4 DEF MapHolds
<1> QED
  BY <1>5 DEF map, e

(***************************************************************************)
(* The parts of the invariant, of the stack and the map after a step.      *)
(***************************************************************************)
LEMMA InvNext ==
  ASSUME IsRecord(doc), doc' = doc, NEW fs \in Seq(FrameType), frames' = fs,
         Stacked(fs), Nested(fs), NEW map, out' = map, MapHolds(map, Seen(fs))
  PROVE  Inv'
<1>1. IsRecord(doc)' /\ frames' \in Seq(FrameType)
  OBVIOUS
<1>2. Stacked(frames)'
  BY DEF Stacked, Members
<1>3. Nested(frames)'
  BY DEF Nested, Members, Entered
<1>4. Seen(frames)' = Seen(fs)
  BY DEF Seen, Leaves, LeftBy
<1>5. MapHolds(out, Seen(frames))'
  <2>1. \A k \in DOMAIN map : LastSeen(map[k], k, Seen(fs))
    BY DEF MapHolds
  <2>2. DOMAIN out' = {Joined(p) : p \in Seen(frames)'}
    BY <1>4 DEF MapHolds
  <2>3. \A k \in DOMAIN out' : LastSeen(out[k], k, Seen(frames))'
    BY <1>4, <2>1 DEF LastSeen
  <2> QED
    BY <2>2, <2>3 DEF MapHolds
<1> QED
  BY <1>1, <1>2, <1>3, <1>5 DEF Inv

(***************************************************************************)
(* A leaf goes into the map, an array as text and a scalar as it is.       *)
(***************************************************************************)
LEMMA InsertInv ==
  ASSUME Inv, Visiting, here \in Leaves, NEW kind \in {"scalar", "text"},
         kind = "text" <=> doc[here] = "array", Insert(kind)
  PROVE  Inv'
<1> DEFINE map == Put(full, [kind |-> kind, path |-> here])
<1>1. doc' = doc /\ frames' = Rest /\ out' = map
  BY DEF Insert
<1>2. \A q \in Seen(frames) : Before(q, here)
  BY SeenEarlier
<1>3. MapHolds(map, Seen(frames) \cup {here})
  <2>1. full = Joined(here)
    BY HereFacts
  <2>2. MapHolds(out, Seen(frames))
    BY DEF Inv
  <2>3. MapHolds(Put(Joined(here), [kind |-> kind, path |-> here]),
                 Seen(frames) \cup {here})
    BY <1>2, <2>2, LeafPut
  <2> QED
    BY <2>1, <2>3
<1> HIDE DEF map
<1>4. MapHolds(map, Seen(Rest))
  BY <1>3, SeenWithLeaf
<1>5. IsRecord(doc) /\ Rest \in Seq(FrameType) /\ Stacked(Rest) /\ Nested(Rest)
  BY RestFacts, RestStack DEF Inv
<1> QED
  BY <1>1, <1>4, <1>5, InvNext

(***************************************************************************)
(* Every step of flatten_rec keeps the invariant.                          *)
(***************************************************************************)
LEMMA NextInv ==
  Inv /\ [Next]_vars => Inv'
<1> SUFFICES ASSUME Inv, [Next]_vars PROVE Inv'
  OBVIOUS
<1>1. CASE Descend
  <2>1. /\ Visiting /\ doc[here] = "object"
        /\ frames' = Called /\ doc' = doc /\ out' = out
    BY <1>1 DEF Descend, Called
  <2>2. /\ IsRecord(doc) /\ Called \in Seq(FrameType)
        /\ Stacked(Called) /\ Nested(Called) /\ MapHolds(out, Seen(Called))
    BY <2>1, CalledFacts, CalledStack, CalledSeen DEF Inv
  <2> QED
    BY <2>1, <2>2, InvNext
<1>2. CASE InsertArray
  <2>1. Visiting /\ doc[here] = "array" /\ Insert("text")
    BY <1>2 DEF InsertArray
  <2>2. here \in Leaves
    BY <2>1, HereFacts DEF Leaves
  <2> QED
    BY <2>1, <2>2, InsertInv
<1>3. CASE InsertScalar
  <2>1. Visiting /\ doc[here] = "scalar" /\ Insert("scalar")
    BY <1>3 DEF InsertScalar
  <2>2. here \in Leaves
    BY <2>1, HereFacts DEF Leaves
  <2> QED
    BY <2>1, <2>2, InsertInv
<1>4. CASE Return
  <2>1. /\ frames # <<>> /\ frames[1].left = {}
        /\ frames' = Tail(frames) /\ doc' = doc /\ out' = out
    BY <1>4 DEF Return
  <2>2. /\ IsRecord(doc) /\ Tail(frames) \in Seq(FrameType)
        /\ Stacked(Tail(frames)) /\ Nested(Tail(frames))
        /\ MapHolds(out, Seen(Tail(frames)))
    BY <2>1, AfterReturn DEF Inv
  <2> QED
    BY <2>1, <2>2, InvNext
<1>5. CASE UNCHANGED vars
  <2>1. doc' = doc /\ frames' = frames /\ out' = out
    BY <1>5 DEF vars
  <2>2. /\ IsRecord(doc) /\ frames \in Seq(FrameType)
        /\ Stacked(frames) /\ Nested(frames) /\ MapHolds(out, Seen(frames))
    BY DEF Inv
  <2> QED
    BY <2>1, <2>2, InvNext
<1> QED
  BY <1>1, <1>2, <1>3, <1>4, <1>5 DEF Next

(***************************************************************************)
(* The invariant of the walk: the stack lies along one path of the record  *)
(* and the map holds, of each key, the last of the leaves that no call has *)
(* left.                                                                   *)
(***************************************************************************)
THEOREM Invariance ==
  Spec => []Inv
<1> QED
  BY InitInv, NextInv, PTL DEF Spec

(***************************************************************************)
(* The stack is as deep as the path it is at, and the map holds leaves,    *)
(* arrays as text: flatten_rec puts no object and no raw array into it.    *)
(***************************************************************************)
THEOREM TypeCorrect ==
  Spec => []TypeOK
<1>1. Inv => TypeOK
  <2> SUFFICES ASSUME Inv PROVE TypeOK
    OBVIOUS
  <2>1. frames \in Seq(FrameType) /\ IsRecord(doc)
    BY DEF Inv
  <2>2. ASSUME NEW i \in DOMAIN frames
        PROVE  /\ frames[i].path \in DOMAIN doc \ Leaves
               /\ Len(frames[i].path) = Len(frames) - i
    <3>1. i \in 1 .. Len(frames)
      BY <2>1
    <3> QED
      BY <3>1 DEF Inv, Stacked, Leaves
  <2>3. ASSUME NEW k \in DOMAIN out
        PROVE  /\ k \in Seq(STRING)
               /\ out[k].kind \in {"scalar", "text"} /\ out[k].path \in Leaves
    <3> DEFINE p == out[k].path
    <3>1. /\ p \in Leaves /\ Joined(p) = k
          /\ out[k].kind \in {"scalar", "text"}
      BY DEF Inv, MapHolds, LastSeen, Seen
    <3> HIDE DEF p
    <3>2. p \in Seq(Key) /\ p # <<>>
      BY <2>1, <3>1 DEF Leaves, IsRecord
    <3>3. Joined(p) \in Text
      <4>1. Front(p) \in Seq(Key) /\ Last(p) \in Key
            /\ Append(Front(p), Last(p)) = p
        BY <3>2 DEF Front, Last
      <4> QED
        BY <4>1, JoinedStep
    <3> QED
      BY <3>1, <3>3 DEF Text, p
  <2> QED
    BY <2>2, <2>3 DEF TypeOK
<1> QED
  BY <1>1, Invariance, PTL

(***************************************************************************)
(* The flat record has the last leaf of every key and nothing else, for    *)
(* every record: the walk is in the order of the Map and insert overwrites.*)
(***************************************************************************)
THEOREM LastLeaf ==
  Spec => []LastLeafWins
<1>1. Inv => LastLeafWins
  <2> SUFFICES ASSUME Inv, frames = <<>>
               PROVE  /\ DOMAIN out = {Joined(p) : p \in Leaves}
                      /\ \A k \in DOMAIN out :
                           LET p == out[k].path
                           IN  /\ Joined(p) = k
                               /\ \A q \in Leaves :
                                    Joined(q) = k => q = p \/ Before(q, p)
                               /\ out[k].kind = "text" <=> doc[p] = "array"
    BY DEF LastLeafWins
  <2>1. Seen(frames) = Leaves
    BY DEF Seen
  <2>2. MapHolds(out, Leaves)
    BY <2>1 DEF Inv
  <2> QED
    BY <2>2 DEF MapHolds, LastSeen
<1> QED
  BY <1>1, Invariance, PTL

------------------------------------------------------------------------------
(* When no value is lost.                                                  *)

(***************************************************************************)
(* If every key of a path is one part that is not empty, then the joined   *)
(* key has these parts.                                                    *)
(***************************************************************************)
LEMMA PlainJoined ==
  ASSUME NEW p \in Seq(Key), p # <<>>,
         \A i \in DOMAIN p : p[i] # EmptyKey /\ Len(p[i]) = 1
  PROVE  /\ Len(Joined(p)) = Len(p)
         /\ \A i \in 1 .. Len(p) : p[i] = <<Joined(p)[i]>>
<1> DEFINE n == Len(p)
           Parts(i) == [j \in 1 .. i |-> p[j][1]]
           f == [i \in 1 .. n |-> Parts(i)]
<1>1. n \in Nat \ {0} /\ DOMAIN p = 1 .. n /\ p \in Seq(Text)
  BY KeyFacts
<1>2. \A i \in 1 .. n : /\ p[i] \in Text /\ Len(p[i]) = 1
                        /\ p[i] = <<p[i][1]>> /\ p[i][1] \in STRING
  <2> SUFFICES ASSUME NEW i \in 1 .. n
               PROVE  /\ p[i] \in Text /\ Len(p[i]) = 1
                      /\ p[i] = <<p[i][1]>> /\ p[i][1] \in STRING
    OBVIOUS
  <2>1. p[i] \in Seq(STRING) /\ Len(p[i]) = 1
    <3>1. i \in DOMAIN p
      BY <1>1, Zenon
    <3>2. p[i] \in Text
      BY <1>1, ElementOfSeq, Zenon
    <3>3. Len(p[i]) = 1
      BY <3>1, Zenon
    <3> QED
      BY <3>2, <3>3, Zenon DEF Text
  <2>2. p[i] = <<p[i][1]>>
    BY <2>1, OfLengthOne
  <2>3. p[i][1] \in STRING
    BY <2>1, ElementOfSeq
  <2> QED
    BY <2>1, <2>2, <2>3 DEF Text
<1>3. Min(Firsts(p)) = 1
  <2>1. 1 \in Firsts(p) /\ Firsts(p) \subseteq 1 .. n
    BY <1>1 DEF Firsts
  <2> DEFINE m == Min(Firsts(p))
  <2>2. m \in Firsts(p) /\ m <= 1
    BY <2>1, JoinedFrom
  <2> HIDE DEF m
  <2>3. m = 1
    BY <1>1, <2>1, <2>2
  <2> QED
    BY <2>3 DEF m
<1>4. Joined(p) = FlattenSeq(p)
  <2>1. SubSeq(p, 1, n) = p
    BY SubSeqFull
  <2> QED
    BY <1>3, <2>1, JoinedFrom
<1>5. \A i \in 1 .. n : Parts(i) \in Seq(STRING) /\ Len(Parts(i)) = i
  BY <1>1, <1>2
<1>6. \A i \in 1 .. n : Parts(i) = IF i = 1 THEN p[i] ELSE Parts(i - 1) \o p[i]
  <2> SUFFICES ASSUME NEW i \in 1 .. n
               PROVE  Parts(i) = IF i = 1 THEN p[i] ELSE Parts(i - 1) \o p[i]
    OBVIOUS
  <2>1. CASE i = 1
    <3> DEFINE x == Parts(1)
    <3>1. 1 \in 1 .. n
      BY <1>1
    <3>2. x \in Seq(STRING) /\ Len(x) = 1 /\ x[1] = p[1][1]
      BY <1>5, <3>1
    <3> HIDE DEF x
    <3>3. x = <<x[1]>>
      BY <3>2, OfLengthOne
    <3>4. x = p[1]
      BY <1>2, <3>1, <3>2, <3>3
    <3> QED
      BY <2>1, <3>4 DEF x
  <2>2. CASE i # 1
    <3> DEFINE x == Parts(i)
               l == i - 1
               y == Parts(l)
               z == p[i]
    <3>1. l \in 1 .. n /\ l + 1 = i /\ l \in Nat /\ i \in Nat
      BY <1>1, <2>2
    <3>2. /\ x \in Seq(STRING) /\ Len(x) = i
          /\ \A j \in 1 .. i : x[j] = p[j][1]
      BY <1>5
    <3>3. /\ y \in Seq(STRING) /\ Len(y) = l
          /\ \A j \in 1 .. l : y[j] = p[j][1]
      <4> HIDE DEF l
      <4> QED
        BY <1>5, <3>1
    <3> HIDE DEF x, y
    <3>4. z \in Seq(STRING) /\ Len(z) = 1 /\ z[1] = p[i][1]
      BY <1>2 DEF Text
    <3> HIDE DEF z
    <3>5. /\ y \o z \in Seq(STRING) /\ Len(y \o z) = i
          /\ \A j \in 1 .. l : (y \o z)[j] = y[j]
          /\ (y \o z)[i] = p[i][1]
      <4> HIDE DEF l
      <4>1. /\ y \o z \in Seq(STRING) /\ Len(y \o z) = Len(y) + Len(z)
            /\ \A j \in 1 .. Len(y) + Len(z) :
                 (y \o z)[j] = IF j <= Len(y) THEN y[j] ELSE z[j - Len(y)]
        BY <3>3, <3>4, ConcatProperties, Zenon
      <4> DEFINE w == y \o z
      <4>2. /\ i \in 1 .. l + 1 /\ ~(i <= l) /\ i - l = 1
            /\ \A j \in 1 .. l : j \in 1 .. l + 1 /\ j <= l
        BY <3>1
      <4>3. Len(y) + Len(z) = l + 1
        BY <3>3, <3>4
      <4> HIDE DEF w
      <4>4. /\ w \in Seq(STRING) /\ Len(w) = i
            /\ \A j \in 1 .. l + 1 : w[j] = IF j <= l THEN y[j] ELSE z[j - l]
        BY <3>1, <3>3, <4>1, <4>3 DEF w
      <4> QED
        BY <3>1, <3>4, <4>2, <4>4 DEF w
    <3>6. \A j \in 1 .. i : x[j] = (y \o z)[j]
      <4> HIDE DEF l
      <4>1. \A j \in 1 .. i : j \in 1 .. l \/ j = i
        BY <3>1
      <4> QED
        BY <3>2, <3>3, <3>5, <4>1
    <3>7. x = y \o z
      <4> DEFINE w == y \o z
      <4>1. /\ w \in Seq(STRING) /\ Len(w) = Len(x)
            /\ \A j \in 1 .. Len(x) : x[j] = w[j]
        BY <3>2, <3>5, <3>6
      <4> HIDE DEF w
      <4>2. x = w
        BY <3>2, <4>1, SeqEqual
      <4> QED
        BY <4>2 DEF w
    <3> QED
      BY <2>2, <3>7 DEF x, y, z, l
  <2> QED
    BY <2>1, <2>2
<1>7. Concats(f, p)
  <2>1. \A i \in 1 .. n : f[i] = Parts(i)
    OBVIOUS
  <2>2. \A i \in 1 .. n : i # 1 => f[i - 1] = Parts(i - 1)
    BY <1>1
  <2> HIDE DEF Parts
  <2>3. \A i \in 1 .. n : Parts(i) = IF i = 1 THEN p[i] ELSE f[i - 1] \o p[i]
    BY <1>6, <2>2
  <2> QED
    BY <2>3 DEF Concats
<1>8. Joined(p) = Parts(n)
  <2>1. n \in 1 .. n
    BY <1>1
  <2> HIDE DEF f
  <2>2. FlattenSeq(p) = f[n]
    BY <1>1, <1>7, FlattenIsConcat
  <2> QED
    BY <1>4, <2>1, <2>2 DEF f
<1>9. Len(Parts(n)) = n /\ \A i \in 1 .. n : Parts(n)[i] = p[i][1]
  BY <1>1, <1>5
<1> HIDE DEF Parts
<1> QED
  BY <1>2, <1>8, <1>9

(***************************************************************************)
(* No leaf is lost to another if no key of the record is empty or contains *)
(* the separator: the flat record has as many keys as there are leaves.    *)
(***************************************************************************)
THEOREM KeepAll ==
  Spec => []PlainKeysKeepAll
<1>1. Inv => PlainKeysKeepAll
  <2> SUFFICES ASSUME Inv, frames = <<>>, PlainKeys
               PROVE  Cardinality(DOMAIN out) = Cardinality(Leaves)
    BY DEF PlainKeysKeepAll
  <2>1. DOMAIN out = {Joined(p) : p \in Leaves}
    BY DEF Inv, MapHolds, Seen
  <2>2. IsFiniteSet(Leaves)
    <3>1. IsFiniteSet(DOMAIN doc) /\ Leaves \subseteq DOMAIN doc
      BY DEF Inv, IsRecord, Leaves
    <3> QED
      BY <3>1, FS_Subset
  <2>3. ASSUME NEW p \in Leaves, NEW q \in Leaves, Joined(p) = Joined(q)
        PROVE  p = q
    <3>1. /\ p \in Seq(Key) /\ q \in Seq(Key) /\ p # <<>> /\ q # <<>>
      BY DEF Inv, IsRecord, Leaves
    <3>2. /\ Len(Joined(p)) = Len(p)
          /\ \A i \in 1 .. Len(p) : p[i] = <<Joined(p)[i]>>
      BY <3>1, PlainJoined DEF PlainKeys
    <3>3. /\ Len(Joined(q)) = Len(q)
          /\ \A i \in 1 .. Len(q) : q[i] = <<Joined(q)[i]>>
      BY <3>1, PlainJoined DEF PlainKeys
    <3>4. Len(p) = Len(q) /\ \A i \in 1 .. Len(p) : p[i] = q[i]
      BY <2>3, <3>2, <3>3
    <3> QED
      BY <3>1, <3>4, SeqEqual
  <2> DEFINE f == [p \in Leaves |-> Joined(p)]
  <2>4. f \in Bijection(Leaves, DOMAIN out)
    BY <2>1, <2>3 DEF Bijection, Injection, Surjection, IsInjective
  <2> QED
    BY <2>2, <2>4, FS_Bijection DEF ExistsBijection
<1> QED
  BY <1>1, Invariance, PTL
==============================================================================
