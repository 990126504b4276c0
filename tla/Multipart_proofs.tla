--------------------------- MODULE Multipart_proofs ---------------------------
(***************************************************************************)
(* What MultipartParser makes of an encoded form, however the text is      *)
(* divided: ParsedFirst, ParsedFeed and ParsedLast say that a new parser   *)
(* has parsed nothing of it, that feeding it what follows what it has      *)
(* parsed parses that too, and that consume() gives the fields and files   *)
(* of the form once all is parsed, unless a boundary was hurt.             *)
(*                                                                         *)
(* Parsed() says where in the text a parser is: in its boundaries or in    *)
(* the header or content of a part, and what of the content it has written *)
(* and still holds.  A turn of the loop of feed() goes on from there, and  *)
(* the loop ends since every turn that does not return takes some data.    *)
(***************************************************************************)
EXTENDS Multipart, WellFoundedInduction, FiniteSetTheorems, TLAPS
-----------------------------------------------------------------------------
(* Induction and folds.  A property of the numbers up to a bound is a set  *)
(* of numbers here, since no lemma may have a parameter that is an         *)
(* operator; the function that a fold or a recursion computes is shown to  *)
(* exist, so that its CHOOSE has the defining equation.                    *)
Less == {p \in Nat \X Nat : p[1] < p[2]}

(* Every set of numbers has a least one. *)
LEMMA LessIsWellFounded == IsWellFoundedOn(Less, Nat)
<1>1. Less = OpToRel(<, Nat)
  BY DEF Less, OpToRel
<1> QED BY <1>1, NatLessThanWellFounded

(* Induction: a set with 0 and with the successors of its elements.        *)
LEMMA Induction ==
    ASSUME NEW T, T \subseteq Nat, 0 \in T, \A n \in T : n + 1 \in T
    PROVE  T = Nat
<1> DEFINE U == Nat \ T
<1> SUFFICES ASSUME U # {} PROVE FALSE
  OBVIOUS
<1>1. PICK x \in U : \A y \in U : ~ (<<y, x>> \in Less)
  <2>1. U \subseteq Nat
    OBVIOUS
  <2> HIDE DEF U
  <2> QED BY <2>1, WFMin, LessIsWellFounded
<1>2. x \in Nat /\ x # 0
  OBVIOUS
<1>3. x - 1 \in Nat /\ <<x - 1, x>> \in Less
  BY <1>2 DEF Less
<1>4. x - 1 \in T
  BY <1>1, <1>3
<1>5. (x - 1) + 1 = x
  BY <1>2
<1> QED BY <1>4, <1>5

(* The same up to a bound. *)
LEMMA InductionTo ==
    ASSUME NEW k \in Nat, NEW T, 0 \in T,
           \A n \in 1..k : n - 1 \in T => n \in T
    PROVE  0..k \subseteq T
<1> DEFINE U == {n \in Nat : n \in 0..k => n \in T}
<1>1. U \subseteq Nat /\ 0 \in U
  OBVIOUS
<1>2. ASSUME NEW n \in U PROVE n + 1 \in U
  <2>1. n \in Nat
    OBVIOUS
  <2>2. CASE n + 1 \in 0..k
    <3>1. n \in 0..k /\ n + 1 \in 1..k /\ (n + 1) - 1 = n
      BY <2>1, <2>2
    <3>2. n \in T
      BY <3>1, <1>2
    <3>3. n + 1 \in T
      BY <3>1, <3>2
    <3> QED BY <2>1, <3>3
  <2> QED BY <2>1, <2>2
<1>3. U = Nat
  <2> HIDE DEF U
  <2> QED BY <1>1, <1>2, Induction
<1> QED BY <1>3
-----------------------------------------------------------------------------
(* The largest of some numbers up to a bound is one of them. *)
LEMMA MaxExists ==
    ASSUME NEW k \in Nat
    PROVE  \A x \in SUBSET (1..k) : x # {} =>
               Max(x) \in x /\ \A y \in x : y <= Max(x)
<1> DEFINE T == {n \in Nat : \A x \in SUBSET (1..n) : x # {} =>
                    \E m \in x : \A y \in x : m >= y}
<1>1. 0 \in T
  <2>1. \A x \in SUBSET (1..0) : x = {}
    OBVIOUS
  <2> QED BY <2>1
<1>2. ASSUME NEW n \in T PROVE n + 1 \in T
  <2> SUFFICES ASSUME NEW x \in SUBSET (1..n + 1), x # {}
               PROVE  \E m \in x : \A y \in x : m >= y
    OBVIOUS
  <2>1. CASE n + 1 \in x
    BY <2>1
  <2>2. CASE n + 1 \notin x
    <3>1. x \in SUBSET (1..n)
      BY <2>2
    <3> QED BY <3>1
  <2> QED BY <2>1, <2>2
<1>3. T = Nat
  <2> HIDE DEF T
  <2>1. T \subseteq Nat
    BY DEF T
  <2> QED BY <1>1, <1>2, <2>1, Induction
<1>4. \A x \in SUBSET (1..k) : x # {} => \E m \in x : \A y \in x : m >= y
  BY <1>3
<1> SUFFICES ASSUME NEW x \in SUBSET (1..k), x # {}
             PROVE  Max(x) \in x /\ \A y \in x : y <= Max(x)
  OBVIOUS
<1>5. Max(x) \in x /\ \A y \in x : Max(x) >= y
  BY <1>4 DEF Max
<1>6. \A y \in x : y \in Nat
  OBVIOUS
<1> QED BY <1>5, <1>6

(* The largest of all numbers up to a bound is the bound. *)
LEMMA MaxOfAll ==
    ASSUME NEW k \in Nat, k # 0
    PROVE  Max(1..k) = k /\ (1..k) \ {k} = 1..k - 1
<1>1. 1..k \in SUBSET (1..k) /\ k \in 1..k
  OBVIOUS
<1>2. Max(1..k) \in 1..k /\ \A y \in 1..k : y <= Max(1..k)
  BY <1>1, MaxExists
<1>3. Max(1..k) = k
  BY <1>1, <1>2
<1>4. (1..k) \ {k} = 1..k - 1
  OBVIOUS
<1> QED BY <1>3, <1>4

(* The steps 1..k of a computation with results in S. *)
IsStep(step, k, S) == \A i \in 1..k, s \in S : step[i][s] \in S

(* g is the function by which MapThenFoldSet() folds: on the empty set it  *)
(* is the base, on others it makes a step from the set without its largest *)
(* number.                                                                 *)
FoldsBy(g, k, S, base, step) ==
    \A x \in SUBSET (1..k) :
        /\ g[x] \in S
        /\ g[x] = IF x = {} THEN base ELSE step[Max(x)][g[x \ {Max(x)}]]

(* Such a function exists. *)
LEMMA FoldExists ==
    ASSUME NEW k \in Nat, NEW S, NEW base \in S, NEW step,
           IsStep(step, k, S)
    PROVE  \E g : FoldsBy(g, k, S, base, step)
<1> DEFINE Fine(n, g) == FoldsBy(g, n, S, base, step)
           T == {n \in 0..k : \E g : Fine(n, g)}
<1>1. 0 \in T
  <2> DEFINE g == [x \in SUBSET (1..0) |-> base]
  <2>1. 0 \in 0..k /\ \A x \in SUBSET (1..0) : x = {}
    OBVIOUS
  <2>2. Fine(0, g)
    BY <2>1 DEF FoldsBy
  <2> HIDE DEF g, Fine
  <2> QED BY <2>1, <2>2
<1>2. ASSUME NEW n \in 1..k, n - 1 \in T PROVE n \in T
  <2>1. PICK g : Fine(n - 1, g)
    BY <1>2
  <2> DEFINE h == [x \in SUBSET (1..n) |->
                      IF n \in x THEN step[n][g[x \ {n}]] ELSE g[x]]
  <2>2. ASSUME NEW x \in SUBSET (1..n)
        PROVE  /\ x \ {n} \in SUBSET (1..n - 1)
               /\ n \notin x => x \in SUBSET (1..n - 1)
    OBVIOUS
  <2>3. ASSUME NEW x \in SUBSET (1..n) PROVE h[x] \in S
    <3>1. CASE n \in x
      BY <2>1, <2>2, <3>1 DEF FoldsBy, IsStep
    <3>2. CASE n \notin x
      BY <2>1, <2>2, <3>2 DEF FoldsBy
    <3> QED BY <3>1, <3>2
  <2>4. ASSUME NEW x \in SUBSET (1..n)
        PROVE  h[x] = IF x = {} THEN base
                      ELSE step[Max(x)][h[x \ {Max(x)}]]
    <3>1. n \in Nat
      OBVIOUS
    <3>2. ASSUME NEW m PROVE x \ {m} \in SUBSET (1..n)
      OBVIOUS
    <3>3. x # {} => Max(x) \in x /\ \A y \in x : y <= Max(x)
      BY <3>1, MaxExists
    <3>4. CASE n \in x
      <4>1. Max(x) = n
        <5>1. Max(x) \in 1..n /\ n <= Max(x)
          BY <3>3, <3>4
        <5> QED BY <5>1
      <4>2. h[x \ {n}] = g[x \ {n}]
        OBVIOUS
      <4>3. h[x] = step[n][g[x \ {n}]]
        BY <3>4
      <4> QED BY <3>4, <4>1, <4>2, <4>3
    <3>5. CASE n \notin x
      <4>1. x \in SUBSET (1..n - 1) /\ h[x] = g[x]
        BY <2>2, <3>5
      <4>2. h[x \ {Max(x)}] = g[x \ {Max(x)}]
        BY <3>5, <3>2
      <4>3. g[x] = IF x = {} THEN base ELSE step[Max(x)][g[x \ {Max(x)}]]
        BY <2>1, <4>1 DEF FoldsBy
      <4> QED BY <4>1, <4>2, <4>3
    <3> QED BY <3>4, <3>5
  <2>5. Fine(n, h)
    BY <2>3, <2>4 DEF FoldsBy
  <2>6. n \in 0..k
    OBVIOUS
  <2> HIDE DEF h, Fine
  <2> QED BY <2>5, <2>6
<1>3. 0..k \subseteq T
  <2> HIDE DEF T
  <2> QED BY <1>1, <1>2, InductionTo
<1>4. k \in T
  <2>1. k \in 0..k
    OBVIOUS
  <2> HIDE DEF T
  <2> QED BY <1>3, <2>1
<1> QED BY <1>4

(* A function with that equation goes through the numbers one by one.      *)
LEMMA FoldSteps ==
    ASSUME NEW k \in Nat, NEW i \in 1..k
    PROVE  /\ 1..i \in SUBSET (1..k) /\ 1..i # {} /\ 1..0 = {}
           /\ Max(1..i) = i /\ (1..i) \ {i} = 1..i - 1
<1>1. i \in Nat /\ i # 0
  OBVIOUS
<1>2. Max(1..i) = i /\ (1..i) \ {i} = 1..i - 1
  BY <1>1, MaxOfAll
<1>3. 1..i \in SUBSET (1..k) /\ i \in 1..i /\ 1..0 = {}
  OBVIOUS
<1> QED BY <1>2, <1>3

(* f recurs over the numbers up to a bound. *)
Recurs(f, k, S, base, step) ==
    /\ f[0] = base
    /\ \A i \in 0..k : f[i] \in S
    /\ \A i \in 1..k : f[i] = step[i][f[i - 1]]

(* Such a function exists. *)
LEMMA Recursion ==
    ASSUME NEW k \in Nat, NEW S, NEW base \in S, NEW step,
           IsStep(step, k, S)
    PROVE  \E f : Recurs(f, k, S, base, step)
<1>1. PICK g : FoldsBy(g, k, S, base, step)
  BY FoldExists
<1> DEFINE f == [i \in 0..k |-> g[1..i]]
<1>2. \A i \in 0..k : f[i] \in S
  <2>1. \A i \in 0..k : 1..i \in SUBSET (1..k)
    OBVIOUS
  <2> QED BY <1>1, <2>1 DEF FoldsBy
<1>3. f[0] = base
  <2>1. 1..0 = {} /\ 0 \in 0..k /\ {} \in SUBSET (1..k)
    OBVIOUS
  <2>2. g[{}] = base
    BY <1>1, <2>1 DEF FoldsBy
  <2> QED BY <2>1, <2>2
<1>4. ASSUME NEW i \in 1..k PROVE f[i] = step[i][f[i - 1]]
  <2>1. /\ 1..i \in SUBSET (1..k) /\ 1..i # {}
        /\ Max(1..i) = i /\ (1..i) \ {i} = 1..i - 1
    BY FoldSteps
  <2>2. i \in 0..k /\ i - 1 \in 0..k
    OBVIOUS
  <2>3. g[1..i] = step[i][g[1..i - 1]]
    BY <1>1, <2>1 DEF FoldsBy
  <2> QED BY <2>2, <2>3
<1>5. Recurs(f, k, S, base, step)
  BY <1>2, <1>3, <1>4 DEF Recurs
<1> QED BY <1>5

(* f joins sequences over S one by one. *)
Joins(f, q, n, S) ==
    /\ \A i \in 1..n : f[i] \in Seq(S)
    /\ f[1] = q[1]
    /\ \A i \in 2..n : f[i] = f[i - 1] \o q[i]

(* FlattenSeq() does. *)
LEMMA FlattenSteps ==
    ASSUME NEW S, NEW q \in Seq(Seq(S)), NEW n \in Nat, n = Len(q), n # 0
    PROVE  \E f : Joins(f, q, n, S) /\ FlattenSeq(q) = f[n]
<1>1. DOMAIN q = 1..n /\ \A i \in 1..n : q[i] \in Seq(S)
  OBVIOUS
<1> DEFINE step == [i \in 1..n |-> [s \in Seq(S) |-> s \o q[i]]]
           Fine(f) == f = [i \in 1..n |->
                              IF i = 1 THEN q[i] ELSE f[i - 1] \o q[i]]
<1>2. IsStep(step, n, Seq(S))
  BY <1>1 DEF IsStep
<1>3. <<>> \in Seq(S)
  OBVIOUS
<1>4. PICK f : Recurs(f, n, Seq(S), <<>>, step)
  <2> HIDE DEF step
  <2> QED BY <1>2, <1>3, Recursion
<1>5. ASSUME NEW i \in 1..n PROVE f[i] = f[i - 1] \o q[i] /\ f[i] \in Seq(S)
  <2>1. i - 1 \in 0..n /\ i \in 0..n
    OBVIOUS
  <2> QED BY <1>4, <2>1 DEF Recurs
<1> DEFINE g == [i \in 1..n |-> f[i]]
<1>6. Fine(g)
  <2> SUFFICES ASSUME NEW i \in 1..n
               PROVE  g[i] = IF i = 1 THEN q[i] ELSE g[i - 1] \o q[i]
    OBVIOUS
  <2>1. CASE i = 1
    <3>1. f[1] = f[0] \o q[1] /\ f[0] = <<>>
      <4>1. 1 \in 1..n /\ 1 - 1 = 0
        OBVIOUS
      <4> QED BY <1>4, <1>5, <4>1 DEF Recurs
    <3>2. q[1] \in Seq(S)
      BY <1>1, <2>1
    <3> QED BY <2>1, <3>1, <3>2
  <2>2. CASE i # 1
    <3>1. i - 1 \in 1..n
      BY <2>2
    <3> QED BY <1>5, <2>2, <3>1
  <2> QED BY <2>1, <2>2
<1>7. Fine(CHOOSE h : Fine(h))
  BY <1>6
<1>8. FlattenSeq(q) = (CHOOSE h : Fine(h))[n]
  BY DEF FlattenSeq
<1>9. PICK h : Fine(h) /\ FlattenSeq(q) = h[n]
  <2> HIDE DEF Fine
  <2> QED BY <1>7, <1>8
<1>10. \A i \in 1..n : h[i] = IF i = 1 THEN q[i] ELSE h[i - 1] \o q[i]
  BY <1>9
<1>11. \A i \in 1..n : h[i] \in Seq(S)
  <2> DEFINE T == {i \in 0..n : i \in 1..n => h[i] \in Seq(S)}
  <2>1. 0 \in T
    OBVIOUS
  <2>2. ASSUME NEW i \in 1..n, i - 1 \in T PROVE i \in T
    <3>1. CASE i = 1
      <4>1. h[i] = q[i]
        BY <1>10, <3>1
      <4> QED BY <1>1, <4>1
    <3>2. CASE i # 1
      <4>1. i - 1 \in 1..n /\ h[i - 1] \in Seq(S)
        BY <2>2, <3>2
      <4>2. h[i] = h[i - 1] \o q[i] /\ q[i] \in Seq(S)
        BY <1>1, <1>10, <3>2
      <4>3. h[i] \in Seq(S) /\ i \in 0..n
        BY <4>1, <4>2
      <4> QED BY <4>3
    <3> QED BY <3>1, <3>2
  <2>3. 0..n \subseteq T
    <3> HIDE DEF T
    <3> QED BY <2>1, <2>2, InductionTo
  <2>4. \A i \in 1..n : i \in 0..n
    OBVIOUS
  <2> QED BY <2>3, <2>4
<1>12. h[1] = q[1] /\ \A i \in 2..n : h[i] = h[i - 1] \o q[i]
  <2>1. 1 \in 1..n /\ \A i \in 2..n : i \in 1..n /\ i # 1
    OBVIOUS
  <2> QED BY <1>10, <2>1
<1>13. Joins(h, q, n, S)
  BY <1>11, <1>12 DEF Joins
<1> QED BY <1>9, <1>13

(* So it keeps the type of the elements. *)
LEMMA FlattenType ==
    ASSUME NEW S, NEW q \in Seq(Seq(S))
    PROVE  FlattenSeq(q) \in Seq(S)
<1>1. CASE Len(q) = 0
  <2>1. FlattenSeq(q) = q
    BY <1>1 DEF FlattenSeq
  <2>2. q = <<>>
    BY <1>1
  <2> QED BY <2>1, <2>2
<1>2. CASE Len(q) # 0
  <2>1. PICK n : n = Len(q)
    OBVIOUS
  <2>2. n \in Nat /\ n # 0 /\ n \in 1..n
    BY <1>2, <2>1
  <2>3. PICK f : Joins(f, q, n, S) /\ FlattenSeq(q) = f[n]
    BY <2>1, <2>2, FlattenSteps
  <2> QED BY <2>2, <2>3 DEF Joins
<1> QED BY <1>1, <1>2
(* What the first c sequences join to. *)
Joined(q, c) == FlattenSeq(SubSeq(q, 1, c))
(* Joining one more sequence appends it. *)
LEMMA FlattenAppend ==
    ASSUME NEW S, NEW q \in Seq(Seq(S)), NEW x \in Seq(S)
    PROVE  FlattenSeq(Append(q, x)) = FlattenSeq(q) \o x
<1> DEFINE r == Append(q, x)
<1>1. PICK n \in Nat : n = Len(q)
  OBVIOUS
<1>2. /\ r \in Seq(Seq(S)) /\ Len(r) = n + 1 /\ r[n + 1] = x
      /\ \A i \in 1..n : r[i] = q[i]
  BY <1>1
<1>3. PICK g : Joins(g, r, n + 1, S) /\ FlattenSeq(r) = g[n + 1]
  <2>1. n + 1 \in Nat /\ n + 1 # 0
    OBVIOUS
  <2> HIDE DEF r
  <2> QED BY <1>2, <2>1, FlattenSteps
<1>4. CASE n = 0
  <2>1. FlattenSeq(q) = <<>>
    <3>1. Len(q) = 0
      BY <1>1, <1>4
    <3>2. q = <<>>
      BY <3>1
    <3>3. FlattenSeq(q) = q
      BY <3>1 DEF FlattenSeq
    <3> QED BY <3>2, <3>3
  <2>2. g[1] = r[1] /\ n + 1 = 1
    BY <1>3, <1>4 DEF Joins
  <2>3. FlattenSeq(r) = x
    BY <1>2, <1>3, <2>2
  <2> QED BY <2>1, <2>3
<1>5. CASE n # 0
  <2>1. PICK f : Joins(f, q, n, S) /\ FlattenSeq(q) = f[n]
    BY <1>1, <1>5, FlattenSteps
  <2> DEFINE T == {i \in 0..n : i \in 1..n => g[i] = f[i]}
  <2>2. 0 \in T
    OBVIOUS
  <2>3. ASSUME NEW i \in 1..n, i - 1 \in T PROVE i \in T
    <3>1. CASE i = 1
      <4>1. g[1] = r[1] /\ f[1] = q[1]
        BY <1>3, <2>1 DEF Joins
      <4> QED BY <1>2, <3>1, <4>1
    <3>2. CASE i # 1
      <4>1. i \in 2..n + 1 /\ i \in 2..n /\ i - 1 \in 1..n
        BY <3>2
      <4>2. g[i] = g[i - 1] \o r[i] /\ f[i] = f[i - 1] \o q[i]
        BY <1>3, <2>1, <4>1 DEF Joins
      <4>3. g[i - 1] = f[i - 1] /\ r[i] = q[i]
        BY <1>2, <2>3, <4>1
      <4>4. i \in 0..n
        OBVIOUS
      <4> QED BY <4>2, <4>3, <4>4
    <3> QED BY <3>1, <3>2
  <2>4. 0..n \subseteq T
    <3> HIDE DEF T
    <3> QED BY <2>2, <2>3, InductionTo
  <2>5. n \in 1..n /\ n \in 0..n
    BY <1>5
  <2>6. g[n] = f[n]
    BY <2>4, <2>5
  <2>7. n + 1 \in 2..n + 1 /\ (n + 1) - 1 = n
    BY <1>5
  <2>8. g[n + 1] = g[n] \o r[n + 1]
    BY <1>3, <2>7 DEF Joins
  <2> QED BY <1>2, <1>3, <2>1, <2>6, <2>8
<1> QED BY <1>4, <1>5

(* A sequence grows from its beginnings one by one. *)
LEMMA Beginnings ==
    ASSUME NEW S, NEW q \in Seq(S)
    PROVE  /\ SubSeq(q, 1, 0) = <<>> /\ SubSeq(q, 1, Len(q)) = q
           /\ \A c \in 0..Len(q) :
                 SubSeq(q, 1, c) \in Seq(S) /\ Len(SubSeq(q, 1, c)) = c
           /\ \A c \in 0..Len(q) - 1 :
                 SubSeq(q, 1, c + 1) = Append(SubSeq(q, 1, c), q[c + 1])
<1>1. SubSeq(q, 1, 0) = <<>> /\ SubSeq(q, 1, Len(q)) = q
  OBVIOUS
<1>2. ASSUME NEW c \in 0..Len(q)
      PROVE SubSeq(q, 1, c) \in Seq(S) /\ Len(SubSeq(q, 1, c)) = c
  OBVIOUS
<1>3. ASSUME NEW c \in 0..Len(q) - 1
      PROVE  SubSeq(q, 1, c + 1) = Append(SubSeq(q, 1, c), q[c + 1])
  OBVIOUS
<1> QED BY <1>1, <1>2, <1>3

(* So does what the beginnings of a sequence of sequences join to. *)
LEMMA JoinedSteps ==
    ASSUME NEW S, NEW q \in Seq(Seq(S))
    PROVE  /\ Joined(q, 0) = <<>> /\ Joined(q, Len(q)) = FlattenSeq(q)
           /\ \A c \in 0..Len(q) : Joined(q, c) \in Seq(S)
           /\ \A c \in 0..Len(q) - 1 :
                 Joined(q, c + 1) = Joined(q, c) \o q[c + 1]
<1>1. Joined(q, 0) = <<>>
  <2>1. SubSeq(q, 1, 0) = <<>>
    BY Beginnings
  <2>2. Joined(q, 0) = FlattenSeq(<<>>)
    BY <2>1 DEF Joined
  <2> QED BY <2>2 DEF FlattenSeq
<1>2. Joined(q, Len(q)) = FlattenSeq(q)
  BY Beginnings DEF Joined
<1>3. ASSUME NEW c \in 0..Len(q) PROVE Joined(q, c) \in Seq(S)
  BY Beginnings, FlattenType DEF Joined
<1>4. ASSUME NEW c \in 0..Len(q) - 1
      PROVE  Joined(q, c + 1) = Joined(q, c) \o q[c + 1]
  <2>1. c \in 0..Len(q) /\ q[c + 1] \in Seq(S)
    OBVIOUS
  <2>2. SubSeq(q, 1, c) \in Seq(Seq(S))
    BY <2>1, Beginnings
  <2>3. SubSeq(q, 1, c + 1) = Append(SubSeq(q, 1, c), q[c + 1])
    BY Beginnings
  <2> QED BY <2>1, <2>2, <2>3, FlattenAppend DEF Joined
<1> QED BY <1>1, <1>2, <1>3, <1>4

(* Each element of an element is at its place. *)
LEMMA JoinedAt ==
    ASSUME NEW S, NEW q \in Seq(Seq(S)), NEW c \in 1..Len(q)
    PROVE  /\ Len(Joined(q, c - 1)) \in Nat
           /\ Len(Joined(q, c)) = Len(Joined(q, c - 1)) + Len(q[c])
           /\ Len(Joined(q, c)) <= Len(FlattenSeq(q))
           /\ \A j \in 1..Len(q[c]) :
                 FlattenSeq(q)[Len(Joined(q, c - 1)) + j] = q[c][j]
<1>1. PICK n \in Nat : n = Len(q)
  OBVIOUS
<1>2. \A d \in 0..n : Joined(q, d) \in Seq(S)
  BY <1>1, JoinedSteps
<1>3. \A d \in 0..n - 1 : Joined(q, d + 1) = Joined(q, d) \o q[d + 1]
  BY <1>1, JoinedSteps
<1>4. /\ c - 1 \in 0..n - 1 /\ c - 1 \in 0..n /\ c \in 0..n /\ (c - 1) + 1 = c
      /\ q[c] \in Seq(S)
  BY <1>1
<1>5. Joined(q, c) = Joined(q, c - 1) \o q[c]
  BY <1>3, <1>4
<1>6. /\ Joined(q, c - 1) \in Seq(S) /\ Joined(q, c) \in Seq(S)
  BY <1>2, <1>4
<1>7. PICK a \in Nat, b \in Nat : /\ a = Len(Joined(q, c - 1))
                                  /\ b = Len(Joined(q, c))
  BY <1>6
<1>8. b = a + Len(q[c])
      /\ \A j \in 1..Len(q[c]) : Joined(q, c)[a + j] = q[c][j]
  BY <1>4, <1>5, <1>6, <1>7
<1> DEFINE T == {d \in 0..n : d >= c =>
                    /\ Len(Joined(q, d)) >= b
                    /\ \A x \in 1..b : Joined(q, d)[x] = Joined(q, c)[x]}
<1>9. 0 \in T
  OBVIOUS
<1>10. ASSUME NEW d \in 1..n, d - 1 \in T PROVE d \in T
  <2>1. CASE d < c
    BY <2>1
  <2>2. CASE d = c
    BY <1>7, <2>2, <1>6
  <2>3. CASE d > c
    <3>1. /\ d - 1 \in 0..n - 1 /\ d - 1 \in 0..n /\ (d - 1) + 1 = d
          /\ d - 1 >= c /\ d \in 0..n
      BY <2>3, <1>4
    <3>2. Joined(q, d) = Joined(q, d - 1) \o q[d]
      BY <1>3, <3>1
    <3>3. Joined(q, d - 1) \in Seq(S) /\ q[d] \in Seq(S)
      BY <1>1, <1>2, <3>1
    <3>4. /\ Len(Joined(q, d - 1)) >= b
          /\ \A x \in 1..b : Joined(q, d - 1)[x] = Joined(q, c)[x]
      BY <1>10, <3>1
    <3>5. Len(Joined(q, d)) >= b
      <4>1. Len(Joined(q, d)) = Len(Joined(q, d - 1)) + Len(q[d])
        BY <3>2, <3>3
      <4>2. Len(Joined(q, d - 1)) \in Nat /\ Len(q[d]) \in Nat
        BY <3>3
      <4>3. Len(Joined(q, d - 1)) >= b
        BY <3>4
      <4>4. b \in Nat
        BY <1>7
      <4> DEFINE x == Len(Joined(q, d - 1))
                 y == Len(q[d])
                 z == Len(Joined(q, d))
      <4>5. z = x + y /\ x >= b /\ x \in Nat /\ y \in Nat
        BY <4>1, <4>2, <4>3
      <4> HIDE DEF T, x, y
      <4>6. z >= b
        <5> HIDE DEF z
        <5> QED BY <4>4, <4>5
      <4> QED BY <4>6
    <3>6. ASSUME NEW x \in 1..b PROVE Joined(q, d)[x] = Joined(q, c)[x]
      <4>1. x \in 1..Len(Joined(q, d - 1))
        BY <3>3, <3>4
      <4> QED BY <3>2, <3>3, <3>4, <4>1
    <3> QED BY <3>1, <3>5, <3>6
  <2> QED BY <2>1, <2>2, <2>3, <1>4
<1>11. n \in T
  <2>1. 0..n \subseteq T
    <3> HIDE DEF T
    <3> QED BY <1>9, <1>10, InductionTo
  <2> QED BY <2>1
<1>12. Joined(q, n) = FlattenSeq(q) /\ n >= c
  BY <1>1, JoinedSteps
<1>13. Len(FlattenSeq(q)) >= b
       /\ \A x \in 1..b : FlattenSeq(q)[x] = Joined(q, c)[x]
  BY <1>11, <1>12
<1>14. ASSUME NEW j \in 1..Len(q[c])
       PROVE  FlattenSeq(q)[a + j] = q[c][j]
  <2>1. a + j \in 1..b
    BY <1>4, <1>8
  <2> QED BY <1>8, <1>13, <2>1
<1>15. Len(FlattenSeq(q)) \in Nat
  <2>1. Joined(q, n) \in Seq(S) /\ n \in 0..n
    BY <1>2
  <2> QED BY <1>12, <2>1
<1> QED BY <1>7, <1>8, <1>13, <1>14, <1>15
(* The text of a body.  A part of a sequence. *)
LEMMA PartIs ==
    ASSUME NEW S, NEW q \in Seq(S), NEW c \in 0..Len(q), NEW d \in c..Len(q)
    PROVE  /\ SubSeq(q, c + 1, d) \in Seq(S)
           /\ Len(SubSeq(q, c + 1, d)) = d - c
           /\ \A j \in 1..d - c : SubSeq(q, c + 1, d)[j] = q[c + j]
<1>1. PICK l \in Nat : l = Len(q)
  OBVIOUS
<1>2. c \in 0..l /\ d \in c..l /\ c \in Nat /\ d \in Nat /\ d - c \in Nat
  BY <1>1
<1>3. SubSeq(q, c + 1, d) \in Seq(S)
  BY <1>1, <1>2
<1>4. Len(SubSeq(q, c + 1, d)) = d - c
  BY <1>1, <1>2
<1>5. ASSUME NEW j \in 1..d - c PROVE SubSeq(q, c + 1, d)[j] = q[c + j]
  BY <1>1, <1>2
<1> QED BY <1>3, <1>4, <1>5

(* It may be the first one. *)
LEMMA StartIs ==
    ASSUME NEW S, NEW q \in Seq(S), NEW c \in 0..Len(q)
    PROVE  /\ SubSeq(q, 1, c) \in Seq(S) /\ Len(SubSeq(q, 1, c)) = c
           /\ \A j \in 1..c : SubSeq(q, 1, c)[j] = q[j]
<1>1. SubSeq(q, 1, c) \in Seq(S) /\ Len(SubSeq(q, 1, c)) = c
  BY Beginnings
<1>2. ASSUME NEW j \in 1..c PROVE SubSeq(q, 1, c)[j] = q[j]
  OBVIOUS
<1> QED BY <1>1, <1>2

(* Two sequences after each other. *)
LEMMA BothAre ==
    ASSUME NEW S, NEW u \in Seq(S), NEW v \in Seq(S)
    PROVE  /\ u \o v \in Seq(S) /\ Len(u \o v) = Len(u) + Len(v)
           /\ \A j \in 1..Len(u) : (u \o v)[j] = u[j]
           /\ \A j \in 1..Len(v) : (u \o v)[Len(u) + j] = v[j]
<1>1. u \o v \in Seq(S) /\ Len(u \o v) = Len(u) + Len(v)
  OBVIOUS
<1>2. ASSUME NEW j \in 1..Len(u) PROVE (u \o v)[j] = u[j]
  OBVIOUS
<1>3. ASSUME NEW j \in 1..Len(v) PROVE (u \o v)[Len(u) + j] = v[j]
  OBVIOUS
<1> QED BY <1>1, <1>2, <1>3

-----------------------------------------------------------------------------
(* Forms.  M is what their texts are made of. *)
Alphabet(M) == {"CR", "LF", Dashes, "bound"} \cup DOMAIN Disposition \subseteq M
PartType(M) == [header : DOMAIN Disposition, content : Seq(M)]

(* q is written between a and b in T, and followed by a boundary. *)
HeadAt(q, T, a) ==
    /\ T[a + 1] = Dashes /\ T[a + 2] = "bound"
    /\ T[a + 3] = "CR" /\ T[a + 4] = "LF" /\ T[a + 5] = q.header
    /\ T[a + 6] = "CR" /\ T[a + 7] = "LF" /\ T[a + 8] = "CR" /\ T[a + 9] = "LF"

TailAt(q, T, a, b) ==
    /\ \A i \in 1..Len(q.content) : T[a + 9 + i] = q.content[i]
    /\ T[b - 1] = "CR" /\ T[b] = "LF"

PartAt(q, T, a, b) ==
    /\ a \in Nat /\ b \in Nat /\ b = a + 11 + Len(q.content) /\ b + 3 <= Len(T)
    /\ HeadAt(q, T, a) /\ TailAt(q, T, a, b)
    /\ T[b + 1] = Dashes /\ T[b + 2] = "bound"

(* y is u, of n symbols, and x. *)
Follows(M, y, u, n, x) ==
    /\ y \in Seq(M) /\ Len(y) = n + Len(x)
    /\ \A j \in 1..n : y[j] = u[j]
    /\ \A j \in 1..Len(x) : y[n + j] = x[j]

LEMMA Following ==
    ASSUME NEW M, NEW u \in Seq(M), NEW x \in Seq(M), NEW n \in Nat,
           Len(u) = n
    PROVE  Follows(M, u \o x, u, n, x)
<1>1. (u \o x) \in Seq(M)
  OBVIOUS
<1>2. Len(u \o x) = n + Len(x)
  OBVIOUS
<1>3. \A i \in 1..n : (u \o x)[i] = u[i]
  OBVIOUS
<1>4. \A i \in 1..Len(x) : (u \o x)[n + i] = x[i]
  OBVIOUS
<1> QED BY <1>1, <1>2, <1>3, <1>4, Zenon DEF Follows

(* A line break after a text. *)
Broken(M, z, u, n) ==
    /\ z \in Seq(M) /\ Len(z) = n + 2
    /\ \A j \in 1..n : z[j] = u[j]
    /\ z[n + 1] = "CR" /\ z[n + 2] = "LF"

LEMMA WithBreak ==
    ASSUME NEW M, Alphabet(M), NEW u \in Seq(M), NEW n \in Nat, Len(u) = n,
           NEW z, z = u \o CRLF
    PROVE  Broken(M, z, u, n)
<1>1. CRLF \in Seq(M) /\ Len(CRLF) = 2 /\ CRLF[1] = "CR" /\ CRLF[2] = "LF"
  BY DEF CRLF, Alphabet
<1>3. Follows(M, z, u, n, CRLF)
  BY <1>1, Following
<1>4. /\ z \in Seq(M) /\ Len(z) = n + 2
      /\ \A j \in 1..n : z[j] = u[j]
      /\ z[n + 1] = CRLF[1] /\ z[n + 2] = CRLF[2]
  <2>1. 1 \in 1..Len(CRLF) /\ 2 \in 1..Len(CRLF)
    BY <1>1
  <2>2. Len(z) = n + Len(CRLF)
    BY <1>3, Zenon DEF Follows
  <2>3. Len(z) = n + 2
    BY <1>1, <2>2
  <2> QED BY <1>3, <2>1, <2>3, Zenon DEF Follows
<1> QED BY <1>1, <1>4, Zenon DEF Broken

(* An encoded part begins with nine symbols. *)
HeadOf(h) == StartBoundary \o CRLF \o <<h>> \o CRLF \o CRLF

LEMMA HeadIs ==
    ASSUME NEW M, Alphabet(M), NEW h \in M
    PROVE  LET u == HeadOf(h)
           IN  /\ u \in Seq(M) /\ Len(u) = 9
               /\ u[1] = Dashes /\ u[2] = "bound" /\ u[3] = "CR"
               /\ u[4] = "LF" /\ u[5] = h /\ u[6] = "CR" /\ u[7] = "LF"
               /\ u[8] = "CR" /\ u[9] = "LF"
<1>1. CRLF \in Seq(M) /\ Len(CRLF) = 2 /\ CRLF[1] = "CR" /\ CRLF[2] = "LF"
  BY DEF CRLF, Alphabet
<1>2. /\ StartBoundary \in Seq(M) /\ Len(StartBoundary) = 2
      /\ StartBoundary[1] = Dashes /\ StartBoundary[2] = "bound"
  BY DEF StartBoundary, Alphabet
<1>3. PICK s \in Seq(M) : s = <<h>> /\ Len(s) = 1 /\ s[1] = h
  <2>1. <<h>> \in Seq(M) /\ Len(<<h>>) = 1 /\ <<h>>[1] = h
    OBVIOUS
  <2> QED BY <2>1, Zenon
<1>4. PICK a \in Seq(M) : /\ a = StartBoundary \o CRLF /\ Len(a) = 4
                          /\ \A j \in 1..2 : a[j] = StartBoundary[j]
                          /\ a[3] = "CR" /\ a[4] = "LF"
  <2>1. PICK y : y = StartBoundary \o CRLF
    OBVIOUS
  <2>2. /\ y \in Seq(M) /\ Len(y) = 2 + 2
        /\ \A j \in 1..2 : y[j] = StartBoundary[j]
        /\ y[2 + 1] = "CR" /\ y[2 + 2] = "LF"
    <3>1. Broken(M, y, StartBoundary, 2)
      BY <1>2, <2>1, WithBreak
    <3> QED BY <3>1, Zenon DEF Broken
  <2>3. Len(y) = 4 /\ y[3] = "CR" /\ y[4] = "LF"
    BY <2>2
  <2> QED BY <2>1, <2>2, <2>3, Zenon
<1>5. PICK b \in Seq(M) : /\ b = a \o s /\ Len(b) = 5
                          /\ \A j \in 1..4 : b[j] = a[j]
                          /\ b[5] = h
  <2>1. PICK y : y = a \o s
    OBVIOUS
  <2>2. Follows(M, y, a, 4, s)
    BY <1>3, <1>4, <2>1, Following
  <2>3. /\ y \in Seq(M) /\ Len(y) = 4 + Len(s)
        /\ \A j \in 1..4 : y[j] = a[j]
        /\ \A j \in 1..Len(s) : y[4 + j] = s[j]
    BY <2>2, Zenon DEF Follows
  <2>4. Len(y) = 5 /\ y[5] = h
    <3>1. 1 \in 1..Len(s)
      BY <1>3
    <3>2. y[4 + 1] = s[1]
      BY <2>3, <3>1
    <3> QED BY <1>3, <2>3, <3>2
  <2> QED BY <2>1, <2>3, <2>4, Zenon
<1>6. PICK c \in Seq(M) : /\ c = b \o CRLF /\ Len(c) = 7
                          /\ \A j \in 1..5 : c[j] = b[j]
                          /\ c[6] = "CR" /\ c[7] = "LF"
  <2>1. PICK y : y = b \o CRLF
    OBVIOUS
  <2>2. /\ y \in Seq(M) /\ Len(y) = 5 + 2
        /\ \A j \in 1..5 : y[j] = b[j]
        /\ y[5 + 1] = "CR" /\ y[5 + 2] = "LF"
    <3>1. Broken(M, y, b, 5)
      BY <1>5, <2>1, WithBreak
    <3> QED BY <3>1, Zenon DEF Broken
  <2>3. Len(y) = 7 /\ y[6] = "CR" /\ y[7] = "LF"
    BY <2>2
  <2> QED BY <2>1, <2>2, <2>3, Zenon
<1>7. PICK d \in Seq(M) : /\ d = c \o CRLF /\ Len(d) = 9
                          /\ \A j \in 1..7 : d[j] = c[j]
                          /\ d[8] = "CR" /\ d[9] = "LF"
  <2>1. PICK y : y = c \o CRLF
    OBVIOUS
  <2>2. /\ y \in Seq(M) /\ Len(y) = 7 + 2
        /\ \A j \in 1..7 : y[j] = c[j]
        /\ y[7 + 1] = "CR" /\ y[7 + 2] = "LF"
    <3>1. Broken(M, y, c, 7)
      BY <1>6, <2>1, WithBreak
    <3> QED BY <3>1, Zenon DEF Broken
  <2>3. Len(y) = 9 /\ y[8] = "CR" /\ y[9] = "LF"
    BY <2>2
  <2> QED BY <2>1, <2>2, <2>3, Zenon
<1>8. HeadOf(h) = d
  BY <1>3, <1>4, <1>5, <1>6, <1>7, Zenon DEF HeadOf
<1>9. a[1] = Dashes /\ a[2] = "bound"
  BY <1>2, <1>4
<1>10. /\ d[1] = Dashes /\ d[2] = "bound" /\ d[3] = "CR" /\ d[4] = "LF"
       /\ d[5] = h /\ d[6] = "CR" /\ d[7] = "LF"
  <2>1. /\ b[1] = a[1] /\ b[2] = a[2] /\ b[3] = a[3] /\ b[4] = a[4]
    BY <1>5
  <2>2. /\ c[1] = b[1] /\ c[2] = b[2] /\ c[3] = b[3] /\ c[4] = b[4]
        /\ c[5] = b[5]
    <3>1. \A j \in 1..5 : c[j] = b[j]
      BY <1>6, Zenon
    <3> QED BY <3>1
  <2>3. /\ d[1] = c[1] /\ d[2] = c[2] /\ d[3] = c[3] /\ d[4] = c[4]
        /\ d[5] = c[5] /\ d[6] = c[6] /\ d[7] = c[7]
    <3>1. \A j \in 1..7 : d[j] = c[j]
      BY <1>7, Zenon
    <3> QED BY <3>1
  <2> QED BY <1>4, <1>5, <1>6, <1>9, <2>1, <2>2, <2>3
<1> QED BY <1>7, <1>8, <1>10

(* An encoded part. *)
LEMMA EncodedIs ==
    ASSUME NEW M, Alphabet(M), NEW q \in PartType(M)
    PROVE  /\ EncodedPart(q) \in Seq(M)
           /\ Len(EncodedPart(q)) = 11 + Len(q.content)
           /\ HeadAt(q, EncodedPart(q), 0)
           /\ TailAt(q, EncodedPart(q), 0, 11 + Len(q.content))
<1>1. PICK h \in M : h = q.header
  BY DEF PartType, Alphabet
<1>2. PICK c \in Seq(M) : c = q.content
  BY DEF PartType
<1>3. PICK l \in Nat : l = Len(c)
  OBVIOUS
<1>4. {"CR", "LF", Dashes, "bound"} \subseteq M
  BY DEF Alphabet
<1>5. PICK u \in Seq(M) : u = HeadOf(h) /\ Len(u) = 9
  BY <1>1, HeadIs
<1>6. /\ u[1] = Dashes /\ u[2] = "bound" /\ u[3] = "CR" /\ u[4] = "LF"
      /\ u[5] = h /\ u[6] = "CR" /\ u[7] = "LF" /\ u[8] = "CR"
      /\ u[9] = "LF"
  BY <1>1, <1>5, HeadIs
<1>8. PICK y \in Seq(M) : y = u \o c /\ Follows(M, y, u, 9, c)
  <2>1. PICK y : y = u \o c
    OBVIOUS
  <2>2. Follows(M, y, u, 9, c)
    BY <1>2, <1>5, <2>1, Following
  <2> QED BY <2>1, <2>2, Zenon DEF Follows
<1>9. PICK m \in Nat : m = 9 + l
  BY <1>3
<1>10. Len(y) = m
  BY <1>3, <1>8, <1>9 DEF Follows
<1>11. PICK z \in Seq(M) : /\ z = y \o CRLF /\ Len(z) = m + 2
                           /\ \A j \in 1..m : z[j] = y[j]
                           /\ z[m + 1] = "CR" /\ z[m + 2] = "LF"
  <2>1. PICK z : z = y \o CRLF
    OBVIOUS
  <2>2. Broken(M, z, y, m)
    BY <1>8, <1>9, <1>10, <2>1, WithBreak
  <2> QED BY <2>1, <2>2, Zenon DEF Broken
<1>12. EncodedPart(q) = z
  <2>1. EncodedPart(q) = u \o c \o CRLF
    BY <1>1, <1>2, <1>5, Zenon DEF EncodedPart, HeadOf
  <2> QED BY <1>8, <1>11, <2>1
<1>13. \A j \in 1..9 : z[j] = u[j]
  <2>1. \A j \in 1..9 : j \in 1..m
    BY <1>9
  <2> QED BY <1>8, <1>11, <2>1 DEF Follows
<1>14. HeadAt(q, z, 0)
  <2>1. \A j \in 1..9 : z[0 + j] = u[j]
    <3>1. \A j \in 1..9 : 0 + j = j
      OBVIOUS
    <3> QED BY <1>13, <3>1, Zenon
  <2>2. /\ z[0 + 1] = Dashes /\ z[0 + 2] = "bound" /\ z[0 + 3] = "CR"
        /\ z[0 + 4] = "LF" /\ z[0 + 5] = h /\ z[0 + 6] = "CR"
        /\ z[0 + 7] = "LF" /\ z[0 + 8] = "CR" /\ z[0 + 9] = "LF"
    <3>1. /\ z[0 + 1] = u[1] /\ z[0 + 2] = u[2] /\ z[0 + 3] = u[3]
          /\ z[0 + 4] = u[4] /\ z[0 + 5] = u[5] /\ z[0 + 6] = u[6]
          /\ z[0 + 7] = u[7] /\ z[0 + 8] = u[8] /\ z[0 + 9] = u[9]
      BY <2>1
    <3> QED BY <1>6, <3>1, Zenon
  <2> QED BY <1>1, <2>2, Zenon DEF HeadAt
<1>15. TailAt(q, z, 0, 11 + l)
  <2>1. ASSUME NEW i \in 1..l PROVE z[0 + 9 + i] = c[i]
    <3>1. 9 + i \in 1..m /\ 0 + 9 + i = 9 + i
      BY <1>3, <1>9
    <3> QED BY <1>3, <1>8, <1>11, <3>1 DEF Follows
  <2>2. 11 + l - 1 = m + 1 /\ 11 + l = m + 2
    BY <1>3, <1>9
  <2>3. z[11 + l - 1] = "CR" /\ z[11 + l] = "LF"
    BY <1>11, <2>2
  <2> QED BY <1>2, <1>3, <2>1, <2>3 DEF TailAt
<1>16. m + 2 = 11 + l
  BY <1>3, <1>9
<1> QED BY <1>2, <1>3, <1>11, <1>12, <1>14, <1>15, <1>16

(* The texts of the parts of a form, and where they start in it. *)
Texts(p) == [i \in DOMAIN p |-> EncodedPart(p[i])]

Layout(M, p, T, S) ==
    /\ Alphabet(M) /\ p \in Seq(PartType(M)) /\ T \in Seq(M)
    /\ S[1] = 0
    /\ \A j \in 1..Len(p) : PartAt(p[j], T, S[j], S[j + 1])
    /\ S[Len(p) + 1] \in Nat /\ Len(T) = S[Len(p) + 1] + 3
    /\ T[S[Len(p) + 1] + 1] = Dashes /\ T[S[Len(p) + 1] + 2] = "bound"
    /\ T[S[Len(p) + 1] + 3] = Dashes

(* Sums. *)
LEMMA NineAndMore ==
    ASSUME NEW a \in Nat, NEW n \in Nat
    PROVE  /\ a + (11 + n) = a + 11 + n /\ a + (11 + n) \in Nat
           /\ \A i \in 1..n : /\ 9 + i \in 1..11 + n
                             /\ a + (9 + i) = a + 9 + i /\ 0 + 9 + i = 9 + i
OBVIOUS

Ends(a, n, b) ==
    /\ 10 + n \in 1..11 + n /\ 11 + n \in 1..11 + n
    /\ 11 + n - 1 = 10 + n /\ a + (10 + n) = b - 1 /\ a + (11 + n) = b

LEMMA TenAndMore ==
    ASSUME NEW a \in Nat, NEW n \in Nat, NEW b \in Nat, b = a + 11 + n
    PROVE  Ends(a, n, b)
BY DEF Ends

LEMMA Within ==
    ASSUME NEW a \in Nat, NEW k \in Nat, NEW l \in Nat, a + k <= l,
           NEW i \in 1..k
    PROVE  a + i \in 1..l /\ a + i \in 1..(l + 2)
OBVIOUS

PlacedIn(q, c) ==
    /\ Len(Joined(q, c - 1)) \in Nat
    /\ Len(Joined(q, c)) = Len(Joined(q, c - 1)) + Len(q[c])
    /\ Len(Joined(q, c)) <= Len(FlattenSeq(q))
    /\ \A j \in 1..Len(q[c]) :
          FlattenSeq(q)[Len(Joined(q, c - 1)) + j] = q[c][j]

LEMMA JoinedHere ==
    ASSUME NEW S, NEW q \in Seq(Seq(S)), NEW c \in 1..Len(q)
    PROVE  PlacedIn(q, c)
BY JoinedAt DEF PlacedIn

(* An encoded part written somewhere. *)
PartPlaced(q, T, a, b) == HeadAt(q, T, a) /\ TailAt(q, T, a, b)

LEMMA Placed ==
    ASSUME NEW M, Alphabet(M), NEW q \in PartType(M), NEW n \in Nat,
           n = Len(q.content), NEW a \in Nat, NEW b \in Nat, b = a + 11 + n,
           NEW T, \A i \in 1..11 + n : T[a + i] = EncodedPart(q)[i]
    PROVE  PartPlaced(q, T, a, b)
<1>1. PICK y : y = EncodedPart(q)
  OBVIOUS
<1>2. HeadAt(q, y, 0) /\ TailAt(q, y, 0, 11 + n)
  BY <1>1, EncodedIs
<1>3. HeadAt(q, T, a)
  <2>1. \A i \in 1..9 : i \in 1..11 + n /\ 0 + i = i
    OBVIOUS
  <2>2. \A i \in 1..9 : T[a + i] = y[0 + i]
    BY <1>1, <2>1
  <2>3. /\ T[a + 1] = y[0 + 1] /\ T[a + 2] = y[0 + 2]
        /\ T[a + 3] = y[0 + 3] /\ T[a + 4] = y[0 + 4]
        /\ T[a + 5] = y[0 + 5] /\ T[a + 6] = y[0 + 6]
        /\ T[a + 7] = y[0 + 7] /\ T[a + 8] = y[0 + 8]
        /\ T[a + 9] = y[0 + 9]
    <3>1. /\ 1 \in 1..9 /\ 2 \in 1..9 /\ 3 \in 1..9 /\ 4 \in 1..9
          /\ 5 \in 1..9 /\ 6 \in 1..9 /\ 7 \in 1..9 /\ 8 \in 1..9
          /\ 9 \in 1..9
      OBVIOUS
    <3> QED BY <2>2, <3>1, Zenon
  <2>4. /\ y[0 + 1] = Dashes /\ y[0 + 2] = "bound" /\ y[0 + 3] = "CR"
        /\ y[0 + 4] = "LF" /\ y[0 + 5] = q.header /\ y[0 + 6] = "CR"
        /\ y[0 + 7] = "LF" /\ y[0 + 8] = "CR" /\ y[0 + 9] = "LF"
    BY <1>2, Zenon DEF HeadAt
  <2> QED BY <2>3, <2>4, Zenon DEF HeadAt
<1>4. TailAt(q, T, a, b)
  <2>1. ASSUME NEW i \in 1..n PROVE T[a + 9 + i] = q.content[i]
    <3>1. 9 + i \in 1..11 + n /\ a + (9 + i) = a + 9 + i /\ 0 + 9 + i = 9 + i
      BY NineAndMore
    <3>2. y[0 + 9 + i] = q.content[i]
      BY <1>2 DEF TailAt
    <3>3. T[a + (9 + i)] = y[9 + i]
      BY <1>1, <3>1
    <3> QED BY <3>1, <3>2, <3>3
  <2>2. T[b - 1] = "CR" /\ T[b] = "LF"
    <3>1. /\ 10 + n \in 1..11 + n /\ 11 + n \in 1..11 + n
          /\ 11 + n - 1 = 10 + n /\ a + (10 + n) = b - 1 /\ a + (11 + n) = b
      <4>1. Ends(a, n, b)
        BY TenAndMore
      <4> QED BY <4>1 DEF Ends
    <3>2. y[11 + n - 1] = "CR" /\ y[11 + n] = "LF"
      BY <1>2 DEF TailAt
    <3>3. T[a + (10 + n)] = y[10 + n] /\ T[a + (11 + n)] = y[11 + n]
      BY <1>1, <3>1
    <3> QED BY <3>1, <3>2, <3>3
  <2> QED BY <2>1, <2>2 DEF TailAt
<1> QED BY <1>3, <1>4 DEF PartPlaced

(* A form is its parts and a boundary. *)
LEMMA EncodedHasLayout ==
    ASSUME NEW M, Alphabet(M), NEW p \in Seq(PartType(M))
    PROVE  \E S : Layout(M, p, Encoded(p), S)
<1>1. PICK N \in Nat : N = Len(p) /\ DOMAIN p = 1..N
  OBVIOUS
<1>2. PICK E \in Seq(Seq(M)) : /\ E = Texts(p) /\ Len(E) = N
                                   /\ \A j \in 1..N : E[j] = EncodedPart(p[j])
  <2>1. \A j \in 1..N : p[j] \in PartType(M)
    BY <1>1
  <2>2. \A j \in 1..N : EncodedPart(p[j]) \in Seq(M)
    BY <2>1, EncodedIs
  <2>3. Texts(p) = [i \in 1..N |-> EncodedPart(p[i])]
    BY <1>1 DEF Texts
  <2> QED BY <2>2, <2>3
<1>3. PICK B \in Seq(M) : B = FlattenSeq(E)
  BY FlattenType
<1>4. PICK l \in Nat : l = Len(B)
  OBVIOUS
<1>5. PICK U \in Seq(M) : /\ U = B \o StartBoundary /\ Len(U) = l + 2
                          /\ \A i \in 1..l : U[i] = B[i]
                          /\ U[l + 1] = Dashes /\ U[l + 2] = "bound"
  <2>1. /\ StartBoundary \in Seq(M) /\ Len(StartBoundary) = 2
        /\ StartBoundary[1] = Dashes /\ StartBoundary[2] = "bound"
    BY DEF StartBoundary, Alphabet
  <2>2. PICK y : y = B \o StartBoundary
    OBVIOUS
  <2>3. Follows(M, y, B, l, StartBoundary)
    BY <1>3, <1>4, <2>1, <2>2, Following
  <2>4. 1 \in 1..Len(StartBoundary) /\ 2 \in 1..Len(StartBoundary)
    BY <2>1
  <2>5. Len(y) = l + Len(StartBoundary)
    BY <2>3, Zenon DEF Follows
  <2>6. Len(y) = l + 2
    BY <2>1, <2>5
  <2> QED BY <2>1, <2>2, <2>3, <2>4, <2>6, Zenon DEF Follows
<1>6. PICK z \in Seq(M) : z = <<Dashes>> /\ Len(z) = 1 /\ z[1] = Dashes
  <2>1. <<Dashes>> \in Seq(M) /\ Len(<<Dashes>>) = 1 /\ <<Dashes>>[1] = Dashes
    BY DEF Alphabet
  <2> QED BY <2>1, Zenon
<1>7. PICK T \in Seq(M) : /\ T = U \o z /\ Len(T) = l + 3
                          /\ \A i \in 1..(l + 2) : T[i] = U[i]
                          /\ T[l + 3] = Dashes
  <2>1. PICK k \in Nat : k = l + 2
    BY <1>4
  <2>2. PICK y : y = U \o z
    OBVIOUS
  <2>3. Follows(M, y, U, k, z)
    BY <1>5, <1>6, <2>1, <2>2, Following
  <2>4. 1 \in 1..Len(z) /\ l + 3 = k + 1
    BY <1>4, <1>6, <2>1
  <2>5. Len(y) = k + Len(z) /\ y[k + 1] = z[1]
    BY <2>3, <2>4, Zenon DEF Follows
  <2>6. Len(y) = l + 3
    BY <1>6, <2>4, <2>5
  <2>7. y \in Seq(M) /\ \A i \in 1..k : y[i] = U[i]
    BY <2>3, Zenon DEF Follows
  <2> QED BY <1>6, <2>1, <2>2, <2>4, <2>5, <2>6, <2>7
<1>8. Encoded(p) = T
  BY <1>2, <1>3, <1>5, <1>6, <1>7, Zenon DEF Encoded, Texts
<1>9. PICK S : S = [j \in 1..N + 1 |-> Len(Joined(E, j - 1))]
  OBVIOUS
<1>10. ASSUME NEW j \in 1..N
       PROVE  /\ S[j] \in Nat /\ S[j + 1] \in Nat
              /\ S[j + 1] = S[j] + 11 + Len(p[j].content)
              /\ Len(p[j].content) \in Nat
              /\ S[j + 1] <= l /\ p[j] \in PartType(M)
              /\ \A i \in 1..11 + Len(p[j].content) :
                     T[S[j] + i] = EncodedPart(p[j])[i]
  <2>1. p[j] \in PartType(M)
    BY <1>1
  <2>2. PICK n \in Nat : n = Len(p[j].content)
    <3>1. p[j].content \in Seq(M)
      BY <2>1 DEF PartType
    <3> QED BY <3>1
  <2>3. Len(E[j]) = 11 + n /\ E[j] = EncodedPart(p[j])
    BY <1>2, <2>1, <2>2, EncodedIs
  <2>4. S[j] = Len(Joined(E, j - 1)) /\ S[j + 1] = Len(Joined(E, j))
    <3>1. j \in 1..N + 1 /\ j + 1 \in 1..N + 1 /\ (j + 1) - 1 = j
      BY <1>1
    <3> QED BY <1>9, <3>1
  <2>5. /\ Len(Joined(E, j - 1)) \in Nat
        /\ Len(Joined(E, j)) = Len(Joined(E, j - 1)) + Len(E[j])
        /\ Len(Joined(E, j)) <= Len(FlattenSeq(E))
        /\ \A i \in 1..Len(E[j]) :
              FlattenSeq(E)[Len(Joined(E, j - 1)) + i] = E[j][i]
    <3>1. j \in 1..Len(E)
      BY <1>2
    <3>2. PlacedIn(E, j)
      BY <1>2, <3>1, JoinedHere
    <3> QED BY <3>2 DEF PlacedIn
  <2>6. PICK a \in Nat : a = S[j]
    BY <2>4, <2>5
  <2>7. S[j + 1] = a + (11 + n) /\ a + (11 + n) <= l
        /\ \A i \in 1..11 + n : B[a + i] = E[j][i]
    BY <1>3, <1>4, <2>3, <2>4, <2>5, <2>6
  <2>8. ASSUME NEW i \in 1..11 + n PROVE T[a + i] = E[j][i]
    <3>1. a + i \in 1..l /\ a + i \in 1..(l + 2)
      <4>1. PICK k \in Nat : k = 11 + n
        BY <2>2
      <4>2. a + k <= l /\ i \in 1..k
        BY <2>7, <4>1
      <4> QED BY <1>4, <2>6, <4>1, <4>2, Within
    <3> QED BY <1>5, <1>7, <2>7, <3>1
  <2>9. a + (11 + n) = a + 11 + n /\ a + (11 + n) \in Nat
    BY <2>2, <2>6, NineAndMore
  <2> QED BY <2>1, <2>2, <2>3, <2>6, <2>7, <2>8, <2>9
<1>11. S[1] = 0
  <2>1. 1 \in 1..N + 1 /\ 1 - 1 = 0
    BY <1>1
  <2>2. Joined(E, 0) = <<>>
    BY JoinedSteps
  <2> QED BY <1>9, <2>1, <2>2
<1>12. S[N + 1] = l
  <2>1. N + 1 \in 1..N + 1 /\ (N + 1) - 1 = N
    BY <1>1
  <2>2. Joined(E, Len(E)) = FlattenSeq(E)
    BY JoinedSteps
  <2> QED BY <1>2, <1>3, <1>4, <1>9, <2>1, <2>2
<1>13. ASSUME NEW j \in 1..N PROVE PartAt(p[j], T, S[j], S[j + 1])
  <2>1. PICK n \in Nat : n = Len(p[j].content)
    BY <1>10
  <2>2. PICK a \in Nat : a = S[j]
    BY <1>10
  <2>3. PICK b \in Nat : b = S[j + 1] /\ b = a + 11 + n /\ b <= l
    BY <1>10, <2>1, <2>2
  <2>4. PartPlaced(p[j], T, a, b)
    <3>1. \A i \in 1..11 + n : T[a + i] = EncodedPart(p[j])[i]
      BY <1>10, <2>1, <2>2
    <3>2. p[j] \in PartType(M)
      BY <1>10
    <3> QED BY <2>1, <2>2, <2>3, <3>1, <3>2, Placed
  <2>9. T[b + 1] = Dashes /\ T[b + 2] = "bound"
    <3>1. CASE j = N
      <4>1. b = l
        BY <1>12, <2>3, <3>1
      <4>2. l + 1 \in 1..(l + 2) /\ l + 2 \in 1..(l + 2)
        BY <1>4
      <4>3. T[l + 1] = U[l + 1] /\ T[l + 2] = U[l + 2]
        BY <1>7, <4>2, Zenon
      <4>4. U[l + 1] = Dashes /\ U[l + 2] = "bound"
        BY <1>5, Zenon
      <4> QED BY <4>1, <4>3, <4>4
    <3>2. CASE j # N
      <4>1. j + 1 \in 1..N
        BY <1>1, <3>2
      <4>2. /\ p[j + 1] \in PartType(M) /\ Len(p[j + 1].content) \in Nat
            /\ \A i \in 1..11 + Len(p[j + 1].content) :
                   T[b + i] = EncodedPart(p[j + 1])[i]
        BY <1>10, <2>3, <4>1
      <4>3. PICK n2 \in Nat : n2 = Len(p[j + 1].content)
        BY <4>2
      <4>4. 1 \in 1..11 + n2 /\ 2 \in 1..11 + n2 /\ 0 + 1 = 1 /\ 0 + 2 = 2
        BY <4>3
      <4>5. T[b + 1] = EncodedPart(p[j + 1])[1]
            /\ T[b + 2] = EncodedPart(p[j + 1])[2]
        BY <4>2, <4>3, <4>4
      <4>6. HeadAt(p[j + 1], EncodedPart(p[j + 1]), 0)
        BY <4>2, EncodedIs
      <4>7. EncodedPart(p[j + 1])[0 + 1] = Dashes
            /\ EncodedPart(p[j + 1])[0 + 2] = "bound"
        BY <4>6, Zenon DEF HeadAt
      <4> QED BY <4>4, <4>5, <4>7
    <3> QED BY <3>1, <3>2
  <2>10. b + 3 <= Len(T) /\ p[j] \in PartType(M)
    BY <1>7, <1>10, <2>3
  <2> QED BY <2>1, <2>2, <2>3, <2>4, <2>9, <2>10 DEF PartAt, PartPlaced
<1>14. Layout(M, p, T, S)
  <2>1. T[l + 1] = Dashes /\ T[l + 2] = "bound" /\ T[l + 3] = Dashes
    <3>1. l + 1 \in 1..(l + 2) /\ l + 2 \in 1..(l + 2)
      BY <1>4
    <3>2. T[l + 1] = U[l + 1] /\ T[l + 2] = U[l + 2]
      BY <1>7, <3>1, Zenon
    <3>3. U[l + 1] = Dashes /\ U[l + 2] = "bound"
      BY <1>5, Zenon
    <3>4. T[l + 3] = Dashes
      BY <1>7, Zenon
    <3> QED BY <3>2, <3>3, <3>4
  <2> QED BY <1>1, <1>4, <1>7, <1>11, <1>12, <1>13, <2>1 DEF Layout
<1> QED BY <1>8, <1>14

-----------------------------------------------------------------------------
(* Searches.  What find() looks for, at the place h of t. *)
BoundaryAt(t, h) == t[h + 1] = Dashes /\ t[h + 2] = "bound"
BreaksAt(t, h) ==
    t[h + 1] = "CR" /\ t[h + 2] = "LF" /\ t[h + 3] = "CR" /\ t[h + 4] = "LF"

(* Where it is. *)
PlacesOf(t, piece) ==
    {h \in 0..Len(t) - Len(piece) : SubSeq(t, h + 1, h + Len(piece)) = piece}
BoundariesIn(t) == {h \in 0..Len(t) - 2 : BoundaryAt(t, h)}
BreaksIn(t) == {h \in 0..Len(t) - 4 : BreaksAt(t, h)}

(* Some numbers have a least one. *)
LEMMA LeastExists ==
    ASSUME NEW A, A \subseteq Nat, A # {}
    PROVE  \E i \in A : \A j \in A : i <= j
<1>1. PICK i \in A : \A j \in A : ~ (<<j, i>> \in Less)
  BY WFMin, LessIsWellFounded
<1>2. ASSUME NEW j \in A PROVE i <= j
  <2>1. i \in Nat /\ j \in Nat
    OBVIOUS
  <2>2. ~(j < i)
    BY <1>1, <2>1 DEF Less
  <2> QED BY <2>1, <2>2
<1> QED BY <1>2

(* find() is the first of the places, or -1. *)
FirstOf(A, i) ==
    IF A = {} THEN i = -1 ELSE i \in A /\ \A j \in A : i <= j

LEMMA FindIs ==
    ASSUME NEW t, NEW piece, PlacesOf(t, piece) \subseteq Nat
    PROVE  FirstOf(PlacesOf(t, piece), Find(t, piece))
<1> DEFINE A == PlacesOf(t, piece)
<1>1. Find(t, piece) = IF A = {} THEN -1
                       ELSE CHOOSE i \in A : \A j \in A : i <= j
  BY DEF Find, PlacesOf
<1> SUFFICES FirstOf(A, Find(t, piece))
  OBVIOUS
<1> HIDE DEF A
<1>2. CASE A = {}
  BY <1>1, <1>2 DEF FirstOf
<1>3. CASE A # {}
  <2>1. A \subseteq Nat
    BY DEF A
  <2>2. \E i \in A : \A j \in A : i <= j
    BY <1>3, <2>1, LeastExists
  <2>3. Find(t, piece) \in A /\ \A j \in A : Find(t, piece) <= j
    BY <1>1, <1>3, <2>2
  <2> QED BY <1>3, <2>3 DEF FirstOf
<1> QED BY <1>2, <1>3

(* A part of a text is what its symbols say. *)
IsPart(t, h, l, piece) ==
    SubSeq(t, h + 1, h + l) = piece <=> \A k \in 1..l : t[h + k] = piece[k]

LEMMA SamePart ==
    ASSUME NEW M, NEW t \in Seq(M), NEW n \in Nat, n = Len(t),
           NEW piece \in Seq(M), NEW l \in Nat, l = Len(piece),
           NEW h \in 0..n - l
    PROVE  IsPart(t, h, l, piece)
<1>1. PICK d \in Nat : d = h + l /\ d - h = l
  OBVIOUS
<1>2. h \in 0..Len(t) /\ d \in h..Len(t)
  BY <1>1
<1>3. PICK s : s = SubSeq(t, h + 1, d)
  OBVIOUS
<1>4. /\ s \in Seq(M) /\ Len(s) = d - h
      /\ \A j \in 1..d - h : s[j] = t[h + j]
  BY <1>2, <1>3, PartIs
<1>5. s \in Seq(M) /\ Len(s) = l /\ \A j \in 1..l : s[j] = t[h + j]
  BY <1>1, <1>4
<1>6. s = piece <=> \A k \in 1..l : s[k] = piece[k]
  <2>1. ASSUME \A k \in 1..l : s[k] = piece[k] PROVE s = piece
    BY <1>5, <2>1
  <2> QED BY <2>1
<1> QED BY <1>1, <1>3, <1>5, <1>6 DEF IsPart

LEMMA BoundaryPlaces ==
    ASSUME NEW M, Alphabet(M), NEW t \in Seq(M)
    PROVE  /\ PlacesOf(t, StartBoundary) = BoundariesIn(t)
           /\ BoundariesIn(t) \subseteq Nat
           /\ FirstOf(BoundariesIn(t), Find(t, StartBoundary))
<1>1. PICK n \in Nat : n = Len(t)
  OBVIOUS
<1>2. /\ StartBoundary \in Seq(M) /\ Len(StartBoundary) = 2
      /\ StartBoundary[1] = Dashes /\ StartBoundary[2] = "bound"
  BY DEF StartBoundary, Alphabet
<1>3. ASSUME NEW h \in 0..n - 2
      PROVE SubSeq(t, h + 1, h + 2) = StartBoundary <=> BoundaryAt(t, h)
  <2>1. SubSeq(t, h + 1, h + 2) = StartBoundary
        <=> \A k \in 1..2 : t[h + k] = StartBoundary[k]
    <3>1. IsPart(t, h, 2, StartBoundary)
      BY <1>1, <1>2, SamePart
    <3> QED BY <3>1 DEF IsPart
  <2>2. 1..2 = {1, 2}
    OBVIOUS
  <2>3. (\A k \in 1..2 : t[h + k] = StartBoundary[k])
        <=> t[h + 1] = StartBoundary[1] /\ t[h + 2] = StartBoundary[2]
    BY <2>2
  <2> QED BY <1>2, <2>1, <2>3 DEF BoundaryAt
<1>4. PlacesOf(t, StartBoundary) = BoundariesIn(t)
  BY <1>1, <1>2, <1>3 DEF PlacesOf, BoundariesIn
<1>5. BoundariesIn(t) \subseteq Nat
  BY <1>1 DEF BoundariesIn
<1> QED BY <1>4, <1>5, FindIs

LEMMA BreakPlaces ==
    ASSUME NEW M, Alphabet(M), NEW t \in Seq(M)
    PROVE  FirstOf(BreaksIn(t), Find(t, CRLF \o CRLF))
<1>1. PICK n \in Nat : n = Len(t)
  OBVIOUS
<1>2. PICK z \in Seq(M) : /\ z = CRLF \o CRLF /\ Len(z) = 4
                          /\ z[1] = "CR" /\ z[2] = "LF"
                          /\ z[3] = "CR" /\ z[4] = "LF"
  <2>1. CRLF \in Seq(M) /\ Len(CRLF) = 2 /\ CRLF[1] = "CR" /\ CRLF[2] = "LF"
    BY DEF CRLF, Alphabet
  <2>2. PICK z : z = CRLF \o CRLF
    OBVIOUS
  <2>3. Broken(M, z, CRLF, 2)
    BY <2>1, <2>2, WithBreak
  <2>4. z \in Seq(M) /\ Len(z) = 2 + 2 /\ z[2 + 1] = "CR" /\ z[2 + 2] = "LF"
        /\ \A j \in 1..2 : z[j] = CRLF[j]
    BY <2>3, Zenon DEF Broken
  <2>5. /\ Len(z) = 4 /\ z[1] = "CR" /\ z[2] = "LF"
        /\ z[3] = "CR" /\ z[4] = "LF"
    BY <2>1, <2>4
  <2> QED BY <2>2, <2>4, <2>5, Zenon
<1>3. ASSUME NEW h \in 0..n - 4
      PROVE SubSeq(t, h + 1, h + 4) = z <=> BreaksAt(t, h)
  <2>1. SubSeq(t, h + 1, h + 4) = z <=> \A k \in 1..4 : t[h + k] = z[k]
    <3>1. IsPart(t, h, 4, z)
      BY <1>1, <1>2, SamePart
    <3> QED BY <3>1 DEF IsPart
  <2>2. 1..4 = {1, 2, 3, 4}
    OBVIOUS
  <2>3. (\A k \in 1..4 : t[h + k] = z[k])
        <=> /\ t[h + 1] = z[1] /\ t[h + 2] = z[2]
            /\ t[h + 3] = z[3] /\ t[h + 4] = z[4]
    BY <2>2
  <2> QED BY <1>2, <2>1, <2>3 DEF BreaksAt
<1>4. PlacesOf(t, z) = BreaksIn(t)
  BY <1>1, <1>2, <1>3 DEF PlacesOf, BreaksIn
<1>5. BreaksIn(t) \subseteq Nat
  BY <1>1 DEF BreaksIn
<1>6. FirstOf(BreaksIn(t), Find(t, z))
  BY <1>4, <1>5, FindIs
<1> QED BY <1>2, <1>6

(* What a search for a boundary or an empty line returns. *)
LEMMA BoundaryFound ==
    ASSUME NEW M, Alphabet(M), NEW t \in Seq(M), NEW i \in Nat,
           i + 2 <= Len(t), BoundaryAt(t, i),
           \A h \in 0..i - 1 : ~ BoundaryAt(t, h)
    PROVE  Find(t, StartBoundary) = i
<1>1. PICK n \in Nat : n = Len(t) /\ i \in 0..n - 2
  OBVIOUS
<1>2. i \in BoundariesIn(t) /\ \A h \in 0..i - 1 : h \notin BoundariesIn(t)
  BY <1>1 DEF BoundariesIn
<1>3. BoundariesIn(t) \subseteq Nat
      /\ FirstOf(BoundariesIn(t), Find(t, StartBoundary))
  BY BoundaryPlaces
<1>4. Find(t, StartBoundary) \in BoundariesIn(t)
      /\ Find(t, StartBoundary) <= i
  BY <1>2, <1>3 DEF FirstOf
<1>5. PICK f \in Nat : f = Find(t, StartBoundary)
  BY <1>3, <1>4
<1>6. f <= i /\ f \notin 0..i - 1
  BY <1>2, <1>4, <1>5
<1> QED BY <1>5, <1>6

LEMMA NoBoundaryFound ==
    ASSUME NEW M, Alphabet(M), NEW t \in Seq(M),
           \A h \in 0..Len(t) - 2 : ~ BoundaryAt(t, h)
    PROVE  Find(t, StartBoundary) = -1
<1>1. BoundariesIn(t) = {}
  BY DEF BoundariesIn
<1>2. FirstOf(BoundariesIn(t), Find(t, StartBoundary))
  BY BoundaryPlaces
<1> QED BY <1>1, <1>2 DEF FirstOf

LEMMA BoundaryNotFound ==
    ASSUME NEW M, Alphabet(M), NEW t \in Seq(M),
           Find(t, StartBoundary) = -1, NEW h \in 0..Len(t) - 2
    PROVE  ~ BoundaryAt(t, h)
<1>1. BoundariesIn(t) \subseteq Nat
      /\ FirstOf(BoundariesIn(t), Find(t, StartBoundary))
  BY BoundaryPlaces
<1>2. -1 \notin Nat
  OBVIOUS
<1>3. BoundariesIn(t) = {}
  BY <1>1, <1>2 DEF FirstOf
<1> QED BY <1>3 DEF BoundariesIn

LEMMA BreaksFound ==
    ASSUME NEW M, Alphabet(M), NEW t \in Seq(M), NEW i \in Nat,
           i + 4 <= Len(t), BreaksAt(t, i),
           \A h \in 0..i - 1 : ~ BreaksAt(t, h)
    PROVE  Find(t, CRLF \o CRLF) = i
<1>1. PICK n \in Nat : n = Len(t) /\ i \in 0..n - 4
  OBVIOUS
<1>2. i \in BreaksIn(t) /\ \A h \in 0..i - 1 : h \notin BreaksIn(t)
  BY <1>1 DEF BreaksIn
<1>3. FirstOf(BreaksIn(t), Find(t, CRLF \o CRLF))
  BY BreakPlaces
<1>4. PICK f : f = Find(t, CRLF \o CRLF)
  OBVIOUS
<1>5. f \in BreaksIn(t) /\ f <= i
  BY <1>2, <1>3, <1>4 DEF FirstOf
<1>6. f \in Nat
  BY <1>1, <1>5 DEF BreaksIn
<1>7. f <= i /\ f \notin 0..i - 1
  BY <1>2, <1>5
<1> QED BY <1>4, <1>6, <1>7

LEMMA NoBreaksFound ==
    ASSUME NEW M, Alphabet(M), NEW t \in Seq(M),
           \A h \in 0..Len(t) - 4 : ~ BreaksAt(t, h)
    PROVE  Find(t, CRLF \o CRLF) = -1
<1>1. BreaksIn(t) = {}
  BY DEF BreaksIn
<1>2. FirstOf(BreaksIn(t), Find(t, CRLF \o CRLF))
  BY BreakPlaces
<1> QED BY <1>1, <1>2 DEF FirstOf
-----------------------------------------------------------------------------
(* What a parser holds of a form, when all before c was taken, and n       *)
(* symbols have arrived.                                                   *)
Data(T, c, n) == SubSeq(T, c + 1, n)

LEMMA DataIs ==
    ASSUME NEW M, NEW T \in Seq(M), NEW n \in 0..Len(T), NEW c \in 0..n
    PROVE  /\ Data(T, c, n) \in Seq(M) /\ Len(Data(T, c, n)) = n - c
           /\ \A k \in 1..n - c : Data(T, c, n)[k] = T[c + k]
<1>1. PICK l \in Nat : l = Len(T)
  OBVIOUS
<1>2. n \in Nat /\ c \in Nat /\ c \in 0..l /\ n \in c..l
  BY <1>1
<1> QED BY <1>1, <1>2, PartIs DEF Data

(* Texts of the same symbols are the same. *)
LEMMA SameText ==
    ASSUME NEW M, NEW s \in Seq(M), NEW t \in Seq(M), NEW n \in Nat,
           Len(s) = n, Len(t) = n, \A k \in 1..n : s[k] = t[k]
    PROVE  s = t
OBVIOUS

LEMMA DataFrom ==
    ASSUME NEW M, NEW T \in Seq(M), NEW n \in 0..Len(T), NEW c \in 0..n,
           NEW d \in 0..n - c
    PROVE  From(Data(T, c, n), d) = Data(T, c + d, n)
<1>1. PICK l \in Nat : l = Len(T)
  OBVIOUS
<1>2. /\ n \in Nat /\ c \in Nat /\ d \in Nat /\ n <= l /\ c + d <= n
      /\ c + d \in 0..n /\ n - c \in Nat /\ n - (c + d) \in Nat
      /\ (n - c) - d = n - (c + d)
  BY <1>1
<1>3. PICK x : x = Data(T, c, n)
  OBVIOUS
<1>4. /\ x \in Seq(M) /\ Len(x) = n - c
      /\ \A k \in 1..n - c : x[k] = T[c + k]
  BY <1>3, DataIs
<1>5. PICK y : y = Data(T, c + d, n)
  OBVIOUS
<1>6. /\ y \in Seq(M) /\ Len(y) = n - (c + d)
      /\ \A k \in 1..n - (c + d) : y[k] = T[(c + d) + k]
  BY <1>2, <1>5, DataIs
<1>7. PICK z : z = SubSeq(x, d + 1, n - c)
  OBVIOUS
<1>8. /\ z \in Seq(M) /\ Len(z) = (n - c) - d
      /\ \A k \in 1..(n - c) - d : z[k] = x[d + k]
  <2>1. n - c \in d..Len(x) /\ d \in 0..Len(x)
    BY <1>2, <1>4
  <2> QED BY <1>4, <1>7, <2>1, PartIs
<1>9. ASSUME NEW k \in 1..n - (c + d) PROVE z[k] = y[k]
  <2>1. /\ k \in 1..(n - c) - d /\ d + k \in 1..n - c
        /\ c + (d + k) = (c + d) + k
    BY <1>2
  <2> QED BY <1>4, <1>6, <1>8, <2>1
<1>10. z = y
  BY <1>2, <1>6, <1>8, <1>9, SameText
<1> QED BY <1>3, <1>4, <1>5, <1>7, <1>10 DEF From

LEMMA DataBefore ==
    ASSUME NEW M, NEW T \in Seq(M), NEW n \in 0..Len(T), NEW c \in 0..n,
           NEW d \in 0..n - c
    PROVE  Before(Data(T, c, n), d) = Data(T, c, c + d)
<1>1. PICK l \in Nat : l = Len(T)
  OBVIOUS
<1>2. /\ n \in Nat /\ c \in Nat /\ d \in Nat /\ n <= l /\ c + d <= n
      /\ c + d \in 0..l /\ c \in 0..(c + d) /\ n - c \in Nat
      /\ (c + d) - c = d /\ ~(d < 0)
  BY <1>1
<1>3. PICK x : x = Data(T, c, n)
  OBVIOUS
<1>4. /\ x \in Seq(M) /\ Len(x) = n - c
      /\ \A k \in 1..n - c : x[k] = T[c + k]
  BY <1>3, DataIs
<1>5. PICK y : y = Data(T, c, c + d)
  OBVIOUS
<1>6. /\ y \in Seq(M) /\ Len(y) = d
      /\ \A k \in 1..d : y[k] = T[c + k]
  BY <1>1, <1>2, <1>5, DataIs
<1>7. PICK z : z = SubSeq(x, 1, d)
  OBVIOUS
<1>8. z \in Seq(M) /\ Len(z) = d /\ \A k \in 1..d : z[k] = x[k]
  <2>1. d \in 0..Len(x)
    BY <1>2, <1>4
  <2> QED BY <1>4, <1>7, <2>1, StartIs
<1>9. ASSUME NEW k \in 1..d PROVE z[k] = y[k]
  <2>1. k \in 1..n - c
    BY <1>2
  <2> QED BY <1>4, <1>6, <1>8, <2>1
<1>10. z = y
  <2>1. \A k \in 1..d : z[k] = y[k]
    BY <1>9
  <2>2. d \in Nat /\ Len(z) = d /\ Len(y) = d /\ z \in Seq(M) /\ y \in Seq(M)
    BY <1>2, <1>6, <1>8
  <2> QED BY <2>1, <2>2, SameText
<1> QED BY <1>2, <1>3, <1>5, <1>7, <1>10 DEF Before

LEMMA DataGrows ==
    ASSUME NEW M, NEW T \in Seq(M), NEW m \in 0..Len(T), NEW n \in 0..m,
           NEW c \in 0..n
    PROVE  Data(T, c, n) \o Data(T, n, m) = Data(T, c, m)
<1>1. PICK l \in Nat : l = Len(T)
  OBVIOUS
<1>2. /\ n \in Nat /\ c \in Nat /\ m \in Nat /\ m \in 0..l /\ n \in 0..l
      /\ c \in 0..m /\ n - c \in Nat /\ m - n \in Nat
      /\ m - c = (n - c) + (m - n) /\ m - c \in Nat
  BY <1>1
<1>3. PICK x : x = Data(T, c, n)
  OBVIOUS
<1>4. /\ x \in Seq(M) /\ Len(x) = n - c
      /\ \A k \in 1..n - c : x[k] = T[c + k]
  BY <1>1, <1>2, <1>3, DataIs
<1>5. PICK y : y = Data(T, n, m)
  OBVIOUS
<1>6. /\ y \in Seq(M) /\ Len(y) = m - n
      /\ \A k \in 1..m - n : y[k] = T[n + k]
  BY <1>1, <1>2, <1>5, DataIs
<1>7. PICK z : z = Data(T, c, m)
  OBVIOUS
<1>8. /\ z \in Seq(M) /\ Len(z) = m - c
      /\ \A k \in 1..m - c : z[k] = T[c + k]
  BY <1>1, <1>2, <1>7, DataIs
<1>9. PICK u : u = x \o y
  OBVIOUS
<1>10. Follows(M, u, x, n - c, y)
  BY <1>2, <1>4, <1>6, <1>9, Following
<1>11. ASSUME NEW k \in 1..m - c PROVE u[k] = z[k]
  <2>1. CASE k \in 1..n - c
    <3>1. u[k] = x[k]
      BY <1>10, <2>1 DEF Follows
    <3> QED BY <1>4, <1>8, <2>1, <3>1
  <2>2. CASE k \notin 1..n - c
    <3>1. PICK i \in 1..m - n : k = (n - c) + i /\ n + i = c + k
      <4>1. k - (n - c) \in 1..m - n /\ k = (n - c) + (k - (n - c))
            /\ n + (k - (n - c)) = c + k
        BY <1>2, <2>2
      <4> QED BY <4>1
    <3>2. i \in 1..Len(y)
      BY <1>6
    <3>3. u[(n - c) + i] = y[i]
      BY <1>10, <3>2 DEF Follows
    <3>4. y[i] = T[n + i] /\ z[k] = T[c + k]
      BY <1>6, <1>8, <3>1
    <3> QED BY <3>1, <3>3, <3>4
  <2> QED BY <2>1, <2>2
<1>12. u \in Seq(M) /\ Len(u) = m - c
  BY <1>2, <1>6, <1>10 DEF Follows
<1>13. u = z
  BY <1>2, <1>8, <1>11, <1>12, SameText
<1> QED BY <1>3, <1>5, <1>7, <1>9, <1>13

(* No content of a form has a boundary. *)
Clean(p) == \A j \in 1..Len(p) : Find(p[j].content, StartBoundary) = -1

(* Then no boundary begins in a part but the first of its symbols. *)
LEMMA NoBoundaryInside ==
    ASSUME NEW M, Alphabet(M), NEW q \in PartType(M), NEW T, NEW a, NEW b,
           PartAt(q, T, a, b), Find(q.content, StartBoundary) = -1,
           NEW x \in a + 9..b - 1
    PROVE  ~ BoundaryAt(T, x)
<1>1. PICK t \in Seq(M) : t = q.content
  BY DEF PartType
<1>2. PICK n \in Nat : n = Len(t)
  OBVIOUS
<1>3. a \in Nat /\ b \in Nat /\ b = a + 11 + n
  BY <1>1, <1>2 DEF PartAt
<1>4. \A i \in 1..n : T[a + 9 + i] = t[i]
  BY <1>1, <1>2 DEF PartAt, TailAt
<1>5. T[b - 1] = "CR" /\ T[b] = "LF"
  BY DEF PartAt, TailAt
<1>6. PICK y \in 0..n + 1 : x = a + 9 + y
  <2>1. x - (a + 9) \in 0..n + 1 /\ x = a + 9 + (x - (a + 9))
    BY <1>2, <1>3
  <2> QED BY <2>1
<1>7. CASE y <= n - 2
  <2>1. y \in 0..Len(t) - 2
    BY <1>2, <1>6, <1>7
  <2>2. ~ BoundaryAt(t, y)
    BY <1>1, <2>1, BoundaryNotFound
  <2>3. /\ y + 1 \in 1..n /\ y + 2 \in 1..n
        /\ x + 1 = a + 9 + (y + 1) /\ x + 2 = a + 9 + (y + 2)
    BY <1>2, <1>3, <1>6, <1>7
  <2>4. T[x + 1] = t[y + 1] /\ T[x + 2] = t[y + 2]
    BY <1>4, <2>3
  <2> QED BY <2>2, <2>4 DEF BoundaryAt
<1>8. CASE y = n - 1
  <2>1. x + 2 = b - 1
    BY <1>2, <1>3, <1>6, <1>8
  <2> QED BY <1>5, <2>1 DEF BoundaryAt
<1>9. CASE y = n
  <2>1. x + 1 = b - 1
    BY <1>2, <1>3, <1>6, <1>9
  <2> QED BY <1>5, <2>1 DEF BoundaryAt, Dashes
<1>10. CASE y = n + 1
  <2>1. x + 1 = b
    BY <1>2, <1>3, <1>6, <1>10
  <2> QED BY <1>5, <2>1 DEF BoundaryAt, Dashes
<1>11. y <= n - 2 \/ y = n - 1 \/ y = n \/ y = n + 1
  BY <1>2, <1>6
<1> QED BY <1>7, <1>8, <1>9, <1>10, <1>11

(* Where parts are. *)
LEMMA PartsAre ==
    ASSUME NEW M, NEW p, NEW T, NEW S, Layout(M, p, T, S),
           NEW j \in 1..Len(p)
    PROVE  /\ p[j] \in PartType(M) /\ PartAt(p[j], T, S[j], S[j + 1])
           /\ S[j] \in Nat /\ S[j + 1] \in Nat /\ Len(p[j].content) \in Nat
           /\ S[j + 1] = S[j] + 11 + Len(p[j].content)
           /\ S[j + 1] + 3 <= Len(T)
<1>1. p \in Seq(PartType(M)) /\ PartAt(p[j], T, S[j], S[j + 1])
  BY DEF Layout
<1>2. p[j] \in PartType(M)
  BY <1>1
<1>3. p[j].content \in Seq(M)
  BY <1>2 DEF PartType
<1> QED BY <1>1, <1>2, <1>3 DEF PartAt

(* Every part, and the end, begins with a boundary. *)
LEMMA BoundariesAre ==
    ASSUME NEW M, NEW p, NEW T, NEW S, Layout(M, p, T, S),
           NEW j \in 1..Len(p) + 1
    PROVE  S[j] \in Nat /\ S[j] + 3 <= Len(T) /\ BoundaryAt(T, S[j])
<1>1. PICK N \in Nat : N = Len(p)
  BY DEF Layout
<1>2. CASE j \in 1..N
  <2> j \in 1..Len(p)
    BY <1>1, <1>2
  <2>1. PartAt(p[j], T, S[j], S[j + 1])
    BY PartsAre
  <2>2. /\ S[j] \in Nat /\ S[j + 1] \in Nat /\ Len(p[j].content) \in Nat
        /\ S[j + 1] = S[j] + 11 + Len(p[j].content)
        /\ S[j + 1] + 3 <= Len(T)
    BY PartsAre
  <2>3. BoundaryAt(T, S[j])
    BY <2>1 DEF PartAt, HeadAt, BoundaryAt
  <2>4. PICK l \in Nat : l = Len(T)
    BY DEF Layout
  <2>5. S[j] + 3 <= l
    <3>1. PICK a \in Nat, b \in Nat, k \in Nat :
              a = S[j] /\ b = S[j + 1] /\ k = Len(p[j].content)
      BY <2>2
    <3>2. b = a + 11 + k /\ b + 3 <= l
      BY <2>2, <2>4, <3>1
    <3>3. a + 3 <= l
      BY <2>4, <3>2
    <3> QED BY <3>1, <3>3
  <2> QED BY <2>2, <2>3, <2>4, <2>5
<1>3. CASE j = N + 1
  BY <1>1, <1>3 DEF Layout, BoundaryAt
<1> QED BY <1>1, <1>2, <1>3

(* Data that begins at a boundary. *)
LEMMA BoundaryFirst ==
    ASSUME NEW M, NEW p, NEW T, NEW S, Layout(M, p, T, S),
           NEW j \in 1..Len(p) + 1, NEW n \in 0..Len(T), S[j] + 2 <= n
    PROVE  Find(Data(T, S[j], n), StartBoundary) = 0
<1>1. S[j] \in Nat /\ BoundaryAt(T, S[j])
  BY BoundariesAre
<1>2. PICK a \in Nat : a = S[j]
  BY <1>1
<1>3. Alphabet(M) /\ T \in Seq(M)
  BY DEF Layout
<1>4. PICK l \in Nat : l = Len(T)
  BY <1>3
<1>5. n \in Nat /\ a \in 0..n /\ 1 \in 1..n - a /\ 2 \in 1..n - a
  BY <1>2, <1>4
<1>6. PICK t : t = Data(T, a, n)
  OBVIOUS
<1>7. /\ t \in Seq(M) /\ Len(t) = n - a
      /\ \A k \in 1..n - a : t[k] = T[a + k]
  BY <1>3, <1>5, <1>6, DataIs
<1>8. BoundaryAt(t, 0)
  <2>1. t[1] = T[a + 1] /\ t[2] = T[a + 2]
    BY <1>5, <1>7
  <2>2. 0 + 1 = 1 /\ 0 + 2 = 2
    OBVIOUS
  <2> QED BY <1>1, <1>2, <2>1, <2>2 DEF BoundaryAt
<1>9. 0 \in Nat /\ 0 + 2 <= Len(t) /\ \A h \in 0..0 - 1 : ~ BoundaryAt(t, h)
  BY <1>2, <1>5, <1>7
<1> QED BY <1>2, <1>3, <1>6, <1>7, <1>8, <1>9, BoundaryFound

(* Data that begins in the content of a part: its end is found once the    *)
(* boundary is there.                                                      *)
LEMMA BoundaryNext ==
    ASSUME NEW M, NEW p, NEW T, NEW S, Layout(M, p, T, S), Clean(p),
           NEW j \in 1..Len(p), NEW n \in 0..Len(T),
           NEW c \in S[j] + 9..S[j + 1] - 1, c <= n
    PROVE  Find(Data(T, c, n), StartBoundary)
           = IF S[j + 1] + 2 <= n THEN S[j + 1] - c ELSE -1
<1>1. PICK a \in Nat, b \in Nat : a = S[j] /\ b = S[j + 1]
  BY PartsAre
<1>2. /\ p[j] \in PartType(M) /\ PartAt(p[j], T, a, b)
      /\ Find(p[j].content, StartBoundary) = -1
  BY <1>1, PartsAre DEF Clean
<1>3. Alphabet(M) /\ T \in Seq(M)
  BY DEF Layout
<1>4. PICK l \in Nat : l = Len(T)
  BY <1>3
<1>5. n \in Nat /\ c \in Nat /\ c \in 0..n /\ c \in a + 9..b - 1
  BY <1>1, <1>4
<1>6. PICK t : t = Data(T, c, n)
  OBVIOUS
<1>7. /\ t \in Seq(M) /\ Len(t) = n - c
      /\ \A k \in 1..n - c : t[k] = T[c + k]
  BY <1>3, <1>5, <1>6, DataIs
<1>8. ASSUME NEW h \in 0..(n - c) - 2
      PROVE  BoundaryAt(t, h) <=> BoundaryAt(T, c + h)
  <2>1. /\ h + 1 \in 1..n - c /\ h + 2 \in 1..n - c
        /\ c + (h + 1) = (c + h) + 1 /\ c + (h + 2) = (c + h) + 2
    BY <1>5
  <2>2. t[h + 1] = T[(c + h) + 1] /\ t[h + 2] = T[(c + h) + 2]
    BY <1>7, <2>1
  <2> QED BY <2>2 DEF BoundaryAt
<1>9. ASSUME NEW h \in 0..(n - c) - 2, c + h < b PROVE ~ BoundaryAt(t, h)
  <2>1. c + h \in a + 9..b - 1
    BY <1>1, <1>5, <1>9
  <2>2. ~ BoundaryAt(T, c + h)
    BY <1>2, <1>3, <2>1, NoBoundaryInside
  <2> QED BY <1>8, <2>2
<1>10. CASE b + 2 <= n
  <2>1. PICK i \in Nat : i = b - c
    BY <1>1, <1>5
  <2>2. i \in 0..(n - c) - 2 /\ c + i = b /\ i + 2 <= n - c
    <3>1. c + i = b
      BY <1>1, <1>5, <2>1
    <3>2. (c + i) + 2 <= n
      BY <1>10, <3>1
    <3>3. i + 2 <= n - c
      BY <1>5, <2>1, <3>2
    <3>4. i \in 0..(n - c) - 2
      BY <1>5, <2>1, <3>3
    <3> QED BY <3>1, <3>3, <3>4
  <2>3. BoundaryAt(T, b)
    BY <1>2 DEF PartAt, BoundaryAt
  <2>4. BoundaryAt(t, i)
    BY <1>8, <2>2, <2>3
  <2>5. ASSUME NEW h \in 0..i - 1 PROVE ~ BoundaryAt(t, h)
    <3>1. h \in 0..(n - c) - 2 /\ c + h < b
      <4>1. h < i /\ h \in Nat
        BY <2>1
      <4>2. c + h < c + i
        BY <1>5, <2>1, <4>1
      <4>3. h \in 0..(n - c) - 2
        BY <1>5, <2>1, <2>2, <4>1
      <4> QED BY <2>2, <4>2, <4>3
    <3> QED BY <1>9, <3>1
  <2>6. i + 2 <= Len(t)
    BY <1>7, <2>2
  <2>7. Find(t, StartBoundary) = i
    BY <1>3, <1>7, <2>1, <2>4, <2>5, <2>6, BoundaryFound
  <2> QED BY <1>1, <1>6, <1>10, <2>1, <2>7
<1>11. CASE ~(b + 2 <= n)
  <2>1. ASSUME NEW h \in 0..Len(t) - 2 PROVE ~ BoundaryAt(t, h)
    <3>1. h \in 0..(n - c) - 2
      BY <1>7
    <3>2. c + h < b
      BY <1>1, <1>5, <1>11, <3>1
    <3> QED BY <1>9, <3>1, <3>2
  <2>2. Find(t, StartBoundary) = -1
    BY <1>3, <1>7, <2>1, NoBoundaryFound
  <2> QED BY <1>1, <1>6, <1>11, <2>2
<1> QED BY <1>10, <1>11

(* Data that begins with the header of a part. *)
LEMMA BreaksNext ==
    ASSUME NEW M, NEW p, NEW T, NEW S, Layout(M, p, T, S),
           NEW j \in 1..Len(p), NEW n \in 0..Len(T), S[j] + 2 <= n
    PROVE  Find(Data(T, S[j] + 2, n), CRLF \o CRLF)
           = IF S[j] + 9 <= n THEN 3 ELSE -1
<1>1. PICK a \in Nat, b \in Nat : a = S[j] /\ b = S[j + 1]
  BY PartsAre
<1>2. p[j] \in PartType(M) /\ HeadAt(p[j], T, a)
  BY <1>1, PartsAre DEF PartAt
<1>3. Alphabet(M) /\ T \in Seq(M)
  BY DEF Layout
<1>4. p[j].header # "CR"
  <2>1. p[j].header \in DOMAIN Disposition
    BY <1>2 DEF PartType
  <2> QED BY <2>1, DispositionAssumption
<1>5. PICK l \in Nat : l = Len(T)
  BY <1>3
<1>6. PICK c \in Nat : c = a + 2
  OBVIOUS
<1>7. n \in Nat /\ c \in 0..n
  BY <1>1, <1>5, <1>6
<1>8. PICK t : t = Data(T, c, n)
  OBVIOUS
<1>9. /\ t \in Seq(M) /\ Len(t) = n - c
      /\ \A k \in 1..n - c : t[k] = T[c + k]
  BY <1>3, <1>7, <1>8, DataIs
<1>10. PICK h : h = p[j].header /\ h # "CR"
  BY <1>4
<1>11. /\ T[c + 1] = "CR" /\ T[c + 2] = "LF" /\ T[c + 3] = h
       /\ T[c + 4] = "CR" /\ T[c + 5] = "LF" /\ T[c + 6] = "CR"
       /\ T[c + 7] = "LF"
  <2>1. /\ c + 1 = a + 3 /\ c + 2 = a + 4 /\ c + 3 = a + 5 /\ c + 4 = a + 6
        /\ c + 5 = a + 7 /\ c + 6 = a + 8 /\ c + 7 = a + 9
    BY <1>6
  <2> QED BY <1>2, <1>10, <2>1 DEF HeadAt
<1>12. ASSUME NEW i \in 0..2, i + 4 <= n - c PROVE ~ BreaksAt(t, i)
  <2>1. i = 0 \/ i = 1 \/ i = 2
    OBVIOUS
  <2>2. CASE i = 0
    <3>1. t[3] = T[c + 3] /\ 0 + 3 = 3
      BY <1>7, <1>9, <1>12, <2>2
    <3> QED BY <1>10, <1>11, <2>2, <3>1 DEF BreaksAt
  <2>3. CASE i = 1
    <3>1. t[2] = T[c + 2] /\ 1 + 1 = 2
      BY <1>7, <1>9, <1>12, <2>3
    <3> QED BY <1>11, <2>3, <3>1 DEF BreaksAt
  <2>4. CASE i = 2
    <3>1. t[3] = T[c + 3] /\ 2 + 1 = 3
      BY <1>7, <1>9, <1>12, <2>4
    <3> QED BY <1>10, <1>11, <2>4, <3>1 DEF BreaksAt
  <2> QED BY <2>1, <2>2, <2>3, <2>4
<1>13. CASE a + 9 <= n
  <2>1. 4 \in 1..n - c /\ 5 \in 1..n - c /\ 6 \in 1..n - c /\ 7 \in 1..n - c
    BY <1>6, <1>7, <1>13
  <2>2. t[4] = "CR" /\ t[5] = "LF" /\ t[6] = "CR" /\ t[7] = "LF"
    BY <1>9, <1>11, <2>1
  <2>3. 3 + 1 = 4 /\ 3 + 2 = 5 /\ 3 + 3 = 6 /\ 3 + 4 = 7
    OBVIOUS
  <2>4. BreaksAt(t, 3)
    BY <2>2, <2>3 DEF BreaksAt
  <2>5. ASSUME NEW i \in 0..3 - 1 PROVE ~ BreaksAt(t, i)
    <3>1. i \in 0..2 /\ i + 4 <= n - c
      BY <1>6, <1>7, <1>13
    <3> QED BY <1>12, <3>1
  <2>6. 3 \in Nat /\ 3 + 4 <= Len(t)
    BY <1>6, <1>7, <1>9, <1>13
  <2>7. Find(t, CRLF \o CRLF) = 3
    BY <1>3, <1>9, <2>4, <2>5, <2>6, BreaksFound
  <2> QED BY <1>1, <1>6, <1>8, <1>13, <2>7
<1>14. CASE ~(a + 9 <= n)
  <2>1. ASSUME NEW i \in 0..Len(t) - 4 PROVE ~ BreaksAt(t, i)
    <3>1. i \in 0..2 /\ i + 4 <= n - c
      BY <1>6, <1>7, <1>9, <1>14
    <3> QED BY <1>12, <3>1
  <2>2. Find(t, CRLF \o CRLF) = -1
    BY <1>3, <1>9, <2>1, NoBreaksFound
  <2> QED BY <1>1, <1>6, <1>8, <1>14, <2>2
<1> QED BY <1>13, <1>14

(* What follows the last boundary is no header. *)
LEMMA NoBreaksAtEnd ==
    ASSUME NEW M, NEW p, NEW T, NEW S, Layout(M, p, T, S),
           NEW n \in 0..Len(T), S[Len(p) + 1] + 2 <= n
    PROVE  Find(Data(T, S[Len(p) + 1] + 2, n), CRLF \o CRLF) = -1
<1>1. PICK a \in Nat : a = S[Len(p) + 1] /\ Len(T) = a + 3
  BY DEF Layout
<1>2. Alphabet(M) /\ T \in Seq(M)
  BY DEF Layout
<1>3. PICK c \in Nat : c = a + 2
  OBVIOUS
<1>4. n \in Nat /\ c \in 0..n /\ n - c <= 1
  BY <1>1, <1>3
<1>5. PICK t : t = Data(T, c, n)
  OBVIOUS
<1>6. t \in Seq(M) /\ Len(t) = n - c
  BY <1>2, <1>4, <1>5, DataIs
<1>7. \A h \in 0..Len(t) - 4 : ~ BreaksAt(t, h)
  BY <1>4, <1>6
<1>8. Find(t, CRLF \o CRLF) = -1
  BY <1>2, <1>6, <1>7, NoBreaksFound
<1> QED BY <1>1, <1>3, <1>5, <1>8

-----------------------------------------------------------------------------
(* Values.  What a parser has of the first j parts of a form, of the last  *)
(* of them the text t.                                                     *)
NameOf(q) == Disposition[q.header].name
FileOf(header, t) == [file |-> Disposition[header].file, buffer |-> t]
InMemory(t) == Len(t) <= MemoryLimit

NamesTo(p, j) == {NameOf(p[i]) : i \in 1..j}
LastOfName(p, j, i) == \A k \in i + 1..j : NameOf(p[k]) # NameOf(p[i])

HasParts(v, p, j, t) ==
    /\ DOMAIN v = NamesTo(p, j)
    /\ \A i \in 1..j : InMemory(IF i = j THEN t ELSE p[i].content)
    /\ \A i \in 1..j : LastOfName(p, j, i) =>
          v[NameOf(p[i])]
          = FileOf(p[i].header, IF i = j THEN t ELSE p[i].content)

(* A new part takes the place of one with its name.                        *)
WithFile(v, name, file) ==
    [n \in DOMAIN v \cup {name} |-> IF n = name THEN file ELSE v[n]]

LEMMA NewPart ==
    ASSUME NEW M, NEW p, NEW j \in Nat, j # 0, NEW v,
           HasParts(v, p, j - 1, p[j - 1].content)
    PROVE  HasParts(WithFile(v, NameOf(p[j]), NewFile(p[j].header)), p, j, <<>>)
<1>1. PICK x : x = NameOf(p[j])
  OBVIOUS
<1>2. PICK w : w = WithFile(v, x, NewFile(p[j].header))
  OBVIOUS
<1>3. /\ DOMAIN w = DOMAIN v \cup {x} /\ w[x] = NewFile(p[j].header)
      /\ \A n \in DOMAIN v : n # x => w[n] = v[n]
  BY <1>2 DEF WithFile
<1>4. DOMAIN w = NamesTo(p, j)
  <2>1. 1..j = (1..j - 1) \cup {j}
    OBVIOUS
  <2>2. NamesTo(p, j) = NamesTo(p, j - 1) \cup {x}
    BY <1>1, <2>1 DEF NamesTo
  <2> QED BY <1>3, <2>2 DEF HasParts
<1>5. NewFile(p[j].header) = FileOf(p[j].header, <<>>)
  BY DEF NewFile, FileOf
<1>6. ASSUME NEW i \in 1..j, LastOfName(p, j, i)
      PROVE  w[NameOf(p[i])]
             = FileOf(p[i].header, IF i = j THEN <<>> ELSE p[i].content)
  <2>1. CASE i = j
    BY <1>1, <1>3, <1>5, <2>1
  <2>2. CASE i # j
    <3>1. i \in 1..j - 1 /\ j \in i + 1..j
      BY <2>2
    <3>2. NameOf(p[i]) # x
      BY <1>1, <1>6, <3>1 DEF LastOfName
    <3>3. LastOfName(p, j - 1, i)
      <4>1. \A k \in i + 1..j - 1 : k \in i + 1..j
        OBVIOUS
      <4> QED BY <1>6, <4>1 DEF LastOfName
    <3>4. v[NameOf(p[i])]
          = FileOf(p[i].header,
                   IF i = j - 1 THEN p[j - 1].content ELSE p[i].content)
      BY <3>1, <3>3 DEF HasParts
    <3>5. NameOf(p[i]) \in DOMAIN v
      BY <3>1 DEF HasParts, NamesTo
    <3>6. w[NameOf(p[i])] = v[NameOf(p[i])]
      BY <1>3, <3>2, <3>5
    <3>7. (IF i = j - 1 THEN p[j - 1].content ELSE p[i].content) = p[i].content
      OBVIOUS
    <3> QED BY <2>2, <3>4, <3>6, <3>7
  <2> QED BY <2>1, <2>2
<1>7. ASSUME NEW i \in 1..j
      PROVE  InMemory(IF i = j THEN <<>> ELSE p[i].content)
  <2>1. CASE i = j
    BY <2>1, MultipartAssumption DEF InMemory
  <2>2. CASE i # j
    <3>1. i \in 1..j - 1
      BY <2>2
    <3>2. InMemory(IF i = j - 1 THEN p[j - 1].content ELSE p[i].content)
      BY <3>1 DEF HasParts
    <3>3. (IF i = j - 1 THEN p[j - 1].content ELSE p[i].content) = p[i].content
      OBVIOUS
    <3> QED BY <2>2, <3>2, <3>3
  <2> QED BY <2>1, <2>2
<1>8. HasParts(w, p, j, <<>>)
  BY <1>4, <1>6, <1>7 DEF HasParts
<1> QED BY <1>1, <1>2, <1>8

(* What is written comes after what was. *)
LEMMA WrittenIs ==
    ASSUME NEW header, NEW t, NEW u
    PROVE  /\ Written(FileOf(header, t), u) = FileOf(header, t \o u)
           /\ FileOf(header, t).buffer = t
<1>1. PICK d, w : d = Disposition[header].file /\ w = t \o u
  OBVIOUS
<1>2. PICK f : f = FileOf(header, t)
  OBVIOUS
<1>3. f = [file |-> d, buffer |-> t] /\ f.buffer = t
  BY <1>1, <1>2 DEF FileOf
<1>4. Written(f, u) = [f EXCEPT !.buffer = w]
  BY <1>1, <1>3, Zenon DEF Written
<1>5. [f EXCEPT !.buffer = w] = [file |-> d, buffer |-> w]
  BY <1>3
<1> QED BY <1>1, <1>2, <1>3, <1>4, <1>5, Zenon DEF FileOf

LEMMA MoreOfPart ==
    ASSUME NEW M, NEW p, NEW j \in Nat, j # 0, NEW v, NEW t \in Seq(M),
           NEW u \in Seq(M), HasParts(v, p, j, t), InMemory(t \o u)
    PROVE  LET x == NameOf(p[j])
           IN  HasParts([v EXCEPT ![x] = Written(v[x], u)], p, j, t \o u)
<1>1. PICK x : x = NameOf(p[j])
  OBVIOUS
<1>2. j \in 1..j /\ LastOfName(p, j, j)
  BY DEF LastOfName
<1>3. x \in DOMAIN v /\ v[x] = FileOf(p[j].header, t)
  BY <1>1, <1>2 DEF HasParts, NamesTo
<1>4. Written(v[x], u) = FileOf(p[j].header, t \o u)
  BY <1>3, WrittenIs
<1>5. PICK w : w = [v EXCEPT ![x] = Written(v[x], u)]
  OBVIOUS
<1>6. /\ DOMAIN w = DOMAIN v /\ w[x] = FileOf(p[j].header, t \o u)
      /\ \A n \in DOMAIN v : n # x => w[n] = v[n]
  BY <1>3, <1>4, <1>5
<1>7. ASSUME NEW i \in 1..j, LastOfName(p, j, i)
      PROVE  w[NameOf(p[i])]
             = FileOf(p[i].header, IF i = j THEN t \o u ELSE p[i].content)
  <2>1. CASE i = j
    BY <1>1, <1>6, <2>1
  <2>2. CASE i # j
    <3>1. j \in i + 1..j
      BY <2>2
    <3>2. NameOf(p[i]) # x
      BY <1>1, <1>7, <3>1 DEF LastOfName
    <3>3. v[NameOf(p[i])] = FileOf(p[i].header, p[i].content)
          /\ NameOf(p[i]) \in DOMAIN v
      BY <1>7, <2>2 DEF HasParts, NamesTo
    <3> QED BY <1>6, <2>2, <3>2, <3>3
  <2> QED BY <2>1, <2>2
<1>8. ASSUME NEW i \in 1..j
      PROVE  InMemory(IF i = j THEN t \o u ELSE p[i].content)
  <2>1. InMemory(IF i = j THEN t ELSE p[i].content)
    BY DEF HasParts
  <2> QED BY <2>1
<1>9. HasParts(w, p, j, t \o u)
  BY <1>6, <1>7, <1>8 DEF HasParts
<1> QED BY <1>1, <1>5, <1>9

-----------------------------------------------------------------------------
(* What feed() compares with. *)
LEMMA BoundaryLength == L = 2
BY DEF L, StartBoundary

LEMMA EndIs ==
    ASSUME NEW M, Alphabet(M)
    PROVE  /\ EndBoundary \in Seq(M) /\ Len(EndBoundary) = 5
           /\ EndBoundary[1] = Dashes /\ EndBoundary[2] = "bound"
           /\ EndBoundary[3] = Dashes
<1>1. /\ StartBoundary \in Seq(M) /\ Len(StartBoundary) = 2
      /\ StartBoundary[1] = Dashes /\ StartBoundary[2] = "bound"
  BY DEF StartBoundary, Alphabet
<1>2. PICK s \in Seq(M) : s = <<Dashes>> /\ Len(s) = 1 /\ s[1] = Dashes
  <2>1. <<Dashes>> \in Seq(M) /\ Len(<<Dashes>>) = 1 /\ <<Dashes>>[1] = Dashes
    BY DEF Alphabet
  <2> QED BY <2>1, Zenon
<1>3. PICK y : y = StartBoundary \o s
  OBVIOUS
<1>4. Follows(M, y, StartBoundary, 2, s)
  BY <1>1, <1>2, <1>3, Following
<1>5. y \in Seq(M) /\ Len(y) = 3 /\ y[1] = Dashes /\ y[2] = "bound"
      /\ y[3] = Dashes
  <2>1. /\ y \in Seq(M) /\ Len(y) = 2 + Len(s)
        /\ \A j \in 1..2 : y[j] = StartBoundary[j]
        /\ \A j \in 1..Len(s) : y[2 + j] = s[j]
    BY <1>4, Zenon DEF Follows
  <2>2. 1 \in 1..Len(s) /\ 2 + 1 = 3 /\ 1 \in 1..2 /\ 2 \in 1..2
    BY <1>2
  <2>3. Len(y) = 3
    BY <1>2, <2>1
  <2> QED BY <1>1, <1>2, <2>1, <2>2, <2>3
<1>6. PICK z : z = y \o CRLF
  OBVIOUS
<1>7. Broken(M, z, y, 3)
  BY <1>5, <1>6, WithBreak
<1>8. z \in Seq(M) /\ Len(z) = 3 + 2 /\ \A j \in 1..3 : z[j] = y[j]
  BY <1>7, Zenon DEF Broken
<1>9. z \in Seq(M) /\ Len(z) = 5 /\ z[1] = Dashes /\ z[2] = "bound"
      /\ z[3] = Dashes
  BY <1>5, <1>8
<1>10. EndBoundary = z
  BY <1>2, <1>3, <1>6, Zenon DEF EndBoundary
<1> QED BY <1>9, <1>10

LEMMA IsText ==
    ASSUME NEW M, NEW k \in Nat, NEW v \in [1..k -> M]
    PROVE  v \in Seq(M) /\ Len(v) = k
OBVIOUS

(* A text that ends with a line break and the first symbol of a boundary.  *)
LEMMA EndsCut ==
    ASSUME NEW M, Alphabet(M), NEW t \in Seq(M), NEW k \in Nat, k = Len(t),
           k >= 3, t[k - 2] = "CR", t[k - 1] = "LF", t[k] = Dashes
    PROVE  IsSuffix(Front(Delimiter), t)
<1>1. CRLF \in Seq(M) /\ Len(CRLF) = 2 /\ CRLF[1] = "CR" /\ CRLF[2] = "LF"
  BY DEF CRLF, Alphabet
<1>2. /\ StartBoundary \in Seq(M) /\ Len(StartBoundary) = 2
      /\ StartBoundary[1] = Dashes
  BY DEF StartBoundary, Alphabet
<1>3. PICK d : d = CRLF \o StartBoundary
  OBVIOUS
<1>4. Follows(M, d, CRLF, 2, StartBoundary)
  BY <1>1, <1>2, <1>3, Following
<1>5. d \in Seq(M) /\ Len(d) = 4 /\ d[1] = "CR" /\ d[2] = "LF"
      /\ d[3] = Dashes
  <2>1. /\ d \in Seq(M) /\ Len(d) = 2 + Len(StartBoundary)
        /\ \A j \in 1..2 : d[j] = CRLF[j]
        /\ \A j \in 1..Len(StartBoundary) : d[2 + j] = StartBoundary[j]
    BY <1>4, Zenon DEF Follows
  <2>2. 1 \in 1..Len(StartBoundary) /\ 2 + 1 = 3 /\ 1 \in 1..2 /\ 2 \in 1..2
    BY <1>2
  <2>3. Len(d) = 4
    BY <1>2, <2>1
  <2> QED BY <1>1, <1>2, <2>1, <2>2, <2>3
<1>6. PICK c : c = Front(d)
  OBVIOUS
<1>7. c \in Seq(M) /\ Len(c) = 3 /\ c[1] = "CR" /\ c[2] = "LF" /\ c[3] = Dashes
  <2>1. c = SubSeq(d, 1, 3)
    BY <1>5, <1>6 DEF Front
  <2>2. 3 \in 0..Len(d)
    BY <1>5
  <2>3. c \in Seq(M) /\ Len(c) = 3 /\ \A j \in 1..3 : c[j] = d[j]
    BY <1>5, <2>1, <2>2, StartIs
  <2> QED BY <1>5, <2>3
<1>8. PICK r : r = Reverse(c)
  OBVIOUS
<1>9. r \in Seq(M) /\ Len(r) = 3 /\ r[1] = Dashes /\ r[2] = "LF" /\ r[3] = "CR"
  <2>1. r = [i \in 1..3 |-> c[(3 - i) + 1]]
    BY <1>7, <1>8 DEF Reverse
  <2>2. \A i \in 1..3 : (3 - i) + 1 \in 1..3
    OBVIOUS
  <2>3. \A i \in 1..3 : c[i] \in M
    BY <1>7
  <2>4. r \in [1..3 -> M]
    BY <2>1, <2>2, <2>3
  <2>5. r \in Seq(M) /\ Len(r) = 3
    BY <2>4, IsText
  <2>6. /\ (3 - 1) + 1 = 3 /\ (3 - 2) + 1 = 2 /\ (3 - 3) + 1 = 1
        /\ 1 \in 1..3 /\ 2 \in 1..3 /\ 3 \in 1..3
    OBVIOUS
  <2>7. r[1] = c[3] /\ r[2] = c[2] /\ r[3] = c[1]
    BY <2>1, <2>6
  <2> QED BY <1>7, <2>5, <2>7
<1>10. PICK v : v = Reverse(t)
  OBVIOUS
<1>11. v \in Seq(M) /\ Len(v) = k /\ v[1] = Dashes /\ v[2] = "LF"
       /\ v[3] = "CR"
  <2>1. v = [i \in 1..k |-> t[(k - i) + 1]]
    BY <1>10 DEF Reverse
  <2>2. \A i \in 1..k : (k - i) + 1 \in 1..k
    OBVIOUS
  <2>3. \A i \in 1..k : t[i] \in M
    OBVIOUS
  <2>4. v \in [1..k -> M]
    BY <2>1, <2>2, <2>3
  <2>5. v \in Seq(M) /\ Len(v) = k
    <3>1. k \in Nat
      OBVIOUS
    <3> QED BY <2>4, <3>1, IsText, Zenon
  <2>6. /\ (k - 1) + 1 = k /\ (k - 2) + 1 = k - 1 /\ (k - 3) + 1 = k - 2
        /\ 1 \in 1..k /\ 2 \in 1..k /\ 3 \in 1..k
    OBVIOUS
  <2>7. v[1] = t[k] /\ v[2] = t[k - 1] /\ v[3] = t[k - 2]
    BY <2>1, <2>6
  <2> QED BY <2>5, <2>7
<1>12. SubSeq(r, 1, 3) = SubSeq(v, 1, 3)
  <2>1. 3 \in 0..Len(r) /\ 3 \in 0..Len(v)
    BY <1>9, <1>11
  <2>2. PICK x : x = SubSeq(r, 1, 3)
    OBVIOUS
  <2>3. PICK y : y = SubSeq(v, 1, 3)
    OBVIOUS
  <2>4. x \in Seq(M) /\ Len(x) = 3 /\ \A j \in 1..3 : x[j] = r[j]
    BY <1>9, <2>1, <2>2, StartIs
  <2>5. y \in Seq(M) /\ Len(y) = 3 /\ \A j \in 1..3 : y[j] = v[j]
    BY <1>11, <2>1, <2>3, StartIs
  <2>6. 1..3 = {1, 2, 3}
    OBVIOUS
  <2>7. \A j \in 1..3 : x[j] = y[j]
    BY <1>9, <1>11, <2>4, <2>5, <2>6
  <2>8. x = y
    BY <2>4, <2>5, <2>7, SameText
  <2> QED BY <2>2, <2>3, <2>8
<1>13. IsPrefix(r, v)
  BY <1>9, <1>11, <1>12 DEF IsPrefix
<1> QED BY <1>3, <1>6, <1>8, <1>10, <1>13, Zenon DEF IsSuffix, Delimiter

(* The symbols of a header. *)
LEMMA HeaderIs ==
    ASSUME NEW M, NEW t \in Seq(M), Len(t) = 3, t[1] = "CR", t[2] = "LF",
           t[3] \in DOMAIN Disposition
    PROVE  {h \in DOMAIN Disposition : \E i \in DOMAIN t : t[i] = h} = {t[3]}
<1>1. DOMAIN t = {1, 2, 3}
  OBVIOUS
<1>2. "CR" \notin DOMAIN Disposition /\ "LF" \notin DOMAIN Disposition
  BY DispositionAssumption
<1>3. ASSUME NEW h \in DOMAIN Disposition, NEW i \in DOMAIN t, t[i] = h
      PROVE  h = t[3]
  BY <1>1, <1>2, <1>3
<1> QED BY <1>1, <1>3

(* Fields of a parser. *)
IsForm(M, f) ==
    /\ DOMAIN f = {"data", "values", "current", "status", "returned",
                   "error", "hurt"}
    /\ f.data \in Seq(M) /\ f.error = "none"
    /\ f.returned \in BOOLEAN /\ f.hurt \in BOOLEAN

(* g is f with these fields. *)
Altered(f, g, data, status, current, values, hurt, returned) ==
    /\ g.data = data /\ g.status = status /\ g.values = values
    /\ g.current = current /\ g.hurt = hurt /\ g.returned = returned
    /\ g.error = f.error /\ DOMAIN g = DOMAIN f

LEMMA PartMade ==
    ASSUME NEW M, NEW q \in PartType(M), NEW t \in Seq(M), Len(t) = 3,
           t[1] = "CR", t[2] = "LF", t[3] = q.header, NEW f, IsForm(M, f)
    PROVE  Altered(f, WithPart(f, t), f.data, f.status, NameOf(q),
                   WithFile(f.values, NameOf(q), NewFile(q.header)), f.hurt,
                   f.returned)
<1>1. PICK h \in DOMAIN Disposition : h = q.header
  BY DEF PartType
<1>2. PICK hs : hs = {x \in DOMAIN Disposition : \E i \in DOMAIN t : t[i] = x}
  OBVIOUS
<1>3. hs = {h}
  BY <1>1, <1>2, HeaderIs
<1>4. (CHOOSE x \in hs : TRUE) = h /\ hs # {}
  BY <1>3
<1>5. PICK name : name = Disposition[h].name
  OBVIOUS
<1>9. PICK d : d = (CHOOSE x \in hs : TRUE)
  OBVIOUS
<1>10. WithPart(f, t)
       = IF hs = {} THEN f
         ELSE [f EXCEPT !.current = Disposition[d].name,
                        !.values = [n \in DOMAIN f.values
                                              \cup {Disposition[d].name} |->
                                       IF n = Disposition[d].name
                                       THEN NewFile(d) ELSE f.values[n]]]
  BY <1>2, <1>9, Zenon DEF WithPart
<1>6. WithPart(f, t)
      = [f EXCEPT !.current = name,
                  !.values = [n \in DOMAIN f.values \cup {name} |->
                                 IF n = name THEN NewFile(h)
                                 ELSE f.values[n]]]
  <2>1. d = h /\ hs # {}
    BY <1>4, <1>9
  <2> QED BY <1>5, <1>10, <2>1
<1>7. WithPart(f, t) = [f EXCEPT !.current = name,
                                 !.values = WithFile(f.values, name, NewFile(h))]
  BY <1>6 DEF WithFile
<1>8. NameOf(q) = name
  BY <1>1, <1>5 DEF NameOf
<1> QED BY <1>1, <1>7, <1>8 DEF Altered, IsForm
-----------------------------------------------------------------------------
(* The steps of feed(), field by field. *)
LEMMA ReturnIs ==
    ASSUME NEW M, NEW f, IsForm(M, f)
    PROVE  Altered(f, Return(f), f.data, f.status, f.current, f.values, f.hurt,
                   TRUE)
BY DEF Return, Altered, IsForm

LEMMA WriteIs ==
    ASSUME NEW M, NEW f, IsForm(M, f), f.current # "none", NEW u,
           ~ Overflows(f.values[f.current], u)
    PROVE  Altered(f, Write(f, u), f.data, f.status, f.current,
                   [f.values EXCEPT
                       ![f.current] = Written(f.values[f.current], u)],
                   f.hurt, f.returned)
<1>1. PICK v : v = Written(f.values[f.current], u)
  OBVIOUS
<1>2. Write(f, u) = [f EXCEPT !.values[f.current] = v]
  BY <1>1 DEF Write
<1> QED BY <1>1, <1>2 DEF Altered, IsForm

LEMMA WriteFails ==
    ASSUME NEW M, NEW f, IsForm(M, f), NEW u,
           Overflows(f.values[f.current], u)
    PROVE  /\ Write(f, u).error = "AttributeError" /\ Write(f, u).returned
           /\ Write(f, u).hurt = f.hurt /\ Write(f, u).data = f.data
           /\ DOMAIN Write(f, u) = DOMAIN f
<1>1. Write(f, u) = [f EXCEPT !.returned = TRUE, !.error = "AttributeError"]
  BY DEF Write, Raise
<1> QED BY <1>1 DEF IsForm

(* A parser that failed, as it must if it is not hurt. *)
Overflown(p, f) ==
    /\ f.error = "AttributeError" /\ f.returned /\ f.hurt \in BOOLEAN
    /\ ~ f.hurt => \E i \in 1..Len(p) : ~ InMemory(p[i].content)

(* A form of the parts p, written as T, the parts from the places S on; n  *)
(* symbols of it have arrived.                                             *)
Sent(M, p, T, S, n) == Layout(M, p, T, S) /\ Clean(p) /\ n \in 0..Len(T)

(* The parser has taken the c first symbols: it expects the boundary or    *)
(* the header of part j, or is in its content.                             *)
Done(p, f, j) == ~ f.hurt => HasParts(f.values, p, j, p[j].content)
AtBoundary(p, S, f, j, c) ==
    f.status = "boundary" /\ c = S[j] /\ Done(p, f, j - 1)
BeforeHeader(p, S, f, j, c) ==
    f.status = "headers" /\ c = S[j] + 2 /\ Done(p, f, j - 1)
InBuffer(p, T, S, f, j, c) ==
    /\ f.status = "buffer" /\ j <= Len(p) /\ c \in S[j] + 9..S[j + 1] - 1
    /\ f.current = NameOf(p[j])
    /\ ~ f.hurt => /\ c <= S[j + 1] - 2
                   /\ HasParts(f.values, p, j, Data(T, S[j] + 9, c))

Place(M, p, T, S, n, f, j, c) ==
    /\ IsForm(M, f) /\ j \in 1..Len(p) + 1 /\ c \in 0..n
    /\ f.data = Data(T, c, n)
    /\ AtBoundary(p, S, f, j, c) \/ BeforeHeader(p, S, f, j, c)
          \/ InBuffer(p, T, S, f, j, c)

(* What it expects has not arrived. *)
Stuck(p, S, n, f, j) ==
    /\ f.status = "boundary" => n < S[j] + 2
    /\ f.status = "headers" /\ j <= Len(p) => n < S[j] + 9
    /\ f.status = "buffer" => n < S[j + 1] + 2

(* The parser has come further, or returned since it could not, or failed. *)
Further(M, p, T, S, n, g, c) ==
    \/ Overflown(p, g)
    \/ \E j2 \in 1..Len(p) + 1, c2 \in 0..n :
           /\ Place(M, p, T, S, n, g, j2, c2)
           /\ g.returned => Stuck(p, S, n, g, j2)
           /\ ~ g.returned => c2 > c

(* The length of a form, and where its parts are, once more. *)
LEMMA SentIs ==
    ASSUME NEW M, NEW p, NEW T, NEW S, NEW n, Sent(M, p, T, S, n)
    PROVE  /\ Alphabet(M) /\ T \in Seq(M) /\ Len(T) \in Nat /\ n \in Nat
           /\ n <= Len(T) /\ Len(p) \in Nat
           /\ \A j \in 1..Len(p) + 1 : S[j] \in Nat
           /\ S[Len(p) + 1] + 3 = Len(T)
<1>1. Alphabet(M) /\ T \in Seq(M) /\ p \in Seq(PartType(M))
      /\ S[Len(p) + 1] + 3 = Len(T) /\ n \in 0..Len(T)
  BY DEF Sent, Layout
<1>2. Len(T) \in Nat /\ Len(p) \in Nat
  BY <1>1
<1>3. \A j \in 1..Len(p) + 1 : S[j] \in Nat
  BY BoundariesAre DEF Sent
<1> QED BY <1>1, <1>2, <1>3

(* The data are what has arrived. *)
LEMMA PlaceData ==
    ASSUME NEW M, NEW p, NEW T, NEW S, NEW n, Sent(M, p, T, S, n), NEW f,
           NEW j, NEW c, Place(M, p, T, S, n, f, j, c)
    PROVE  /\ c \in Nat /\ c <= n /\ f.data \in Seq(M)
           /\ Len(f.data) = n - c
           /\ \A k \in 1..n - c : f.data[k] = T[c + k]
<1>1. T \in Seq(M) /\ n \in 0..Len(T) /\ n \in Nat
  BY SentIs DEF Sent
<1>2. c \in 0..n /\ f.data = Data(T, c, n)
  BY DEF Place
<1>3. c \in Nat /\ c <= n
  BY <1>1, <1>2
<1> QED BY <1>1, <1>2, <1>3, DataIs

(* A place is one of the fields, but not of returned. *)
LEMMA PlaceStays ==
    ASSUME NEW M, NEW p, NEW T, NEW S, NEW n, NEW f, NEW j, NEW c,
           Place(M, p, T, S, n, f, j, c), NEW g, NEW r \in BOOLEAN,
           Altered(f, g, f.data, f.status, f.current, f.values, f.hurt, r)
    PROVE  /\ Place(M, p, T, S, n, g, j, c) /\ g.returned = r
           /\ g.status = f.status
<1>1. /\ g.data = f.data /\ g.status = f.status /\ g.values = f.values
      /\ g.current = f.current /\ g.hurt = f.hurt /\ g.returned = r
      /\ g.error = f.error /\ DOMAIN g = DOMAIN f
  BY DEF Altered
<1>2. IsForm(M, g)
  BY <1>1 DEF Place, IsForm
<1>3. AtBoundary(p, S, f, j, c) => AtBoundary(p, S, g, j, c)
  BY <1>1, Zenon DEF AtBoundary, Done
<1>4. BeforeHeader(p, S, f, j, c) => BeforeHeader(p, S, g, j, c)
  BY <1>1, Zenon DEF BeforeHeader, Done
<1>5. InBuffer(p, T, S, f, j, c) => InBuffer(p, T, S, g, j, c)
  BY <1>1, Zenon DEF InBuffer
<1> QED BY <1>1, <1>2, <1>3, <1>4, <1>5, Zenon DEF Place

LEMMA Returns ==
    ASSUME NEW M, NEW p, NEW T, NEW S, NEW n, NEW f, NEW j, NEW c,
           Place(M, p, T, S, n, f, j, c), Stuck(p, S, n, f, j), NEW d
    PROVE  Further(M, p, T, S, n, Return(f), d)
<1>1. PICK g : g = Return(f)
  OBVIOUS
<1>2. IsForm(M, f) /\ j \in 1..Len(p) + 1 /\ c \in 0..n
  BY DEF Place
<1>3. Altered(f, g, f.data, f.status, f.current, f.values, f.hurt, TRUE)
  BY <1>1, <1>2, ReturnIs
<1>4. /\ Place(M, p, T, S, n, g, j, c) /\ g.returned = TRUE
      /\ g.status = f.status
  BY <1>3, PlaceStays
<1>5. Stuck(p, S, n, g, j)
  BY <1>4 DEF Stuck
<1> QED BY <1>1, <1>2, <1>4, <1>5 DEF Further
-----------------------------------------------------------------------------
(* One turn of the loop of feed().  A form has no place where its data are *)
(* "--bound--" and a line break, for no line break follows the last        *)
(* boundary.                                                               *)
LEMMA NoEnd ==
    ASSUME NEW M, NEW p, NEW T, NEW S, NEW n, Sent(M, p, T, S, n), NEW f,
           NEW j, NEW c, Place(M, p, T, S, n, f, j, c)
    PROVE  f.data # EndBoundary
<1> SUFFICES ASSUME f.data = EndBoundary PROVE FALSE
  OBVIOUS
<1>1. /\ Alphabet(M) /\ n \in Nat /\ n <= Len(T) /\ Len(T) \in Nat
      /\ Len(p) \in Nat /\ \A i \in 1..Len(p) + 1 : S[i] \in Nat
      /\ S[Len(p) + 1] + 3 = Len(T)
  BY SentIs
<1>2. /\ Len(f.data) = 5 /\ f.data[1] = Dashes /\ f.data[2] = "bound"
      /\ f.data[3] = Dashes
  BY <1>1, EndIs
<1>3. /\ c \in Nat /\ c <= n /\ Len(f.data) = n - c
      /\ \A k \in 1..n - c : f.data[k] = T[c + k]
  BY PlaceData
<1>4. n = c + 5
  <2>1. n - c = 5
    BY <1>2, <1>3, Zenon
  <2> QED BY <1>1, <1>3, <2>1
<1>5. T[c + 1] = Dashes /\ T[c + 2] = "bound" /\ T[c + 3] = Dashes
  <2>1. 1 \in 1..n - c /\ 2 \in 1..n - c /\ 3 \in 1..n - c
    BY <1>2, <1>3
  <2> QED BY <1>2, <1>3, <2>1
<1>6. j \in 1..Len(p) + 1
  BY DEF Place
<1>7. PICK a \in Nat : a = S[j]
  BY <1>1, <1>6
<1>8. ASSUME j <= Len(p) PROVE T[a + 3] = "CR" /\ T[a + 4] = "LF"
  <2>1. j \in 1..Len(p)
    BY <1>1, <1>6, <1>8
  <2>2. PartAt(p[j], T, a, S[j + 1])
    BY <1>7, <2>1, PartsAre DEF Sent
  <2> QED BY <2>2 DEF PartAt, HeadAt
<1>9. ASSUME ~(j <= Len(p)) PROVE a + 3 = Len(T)
  <2>1. j = Len(p) + 1
    BY <1>1, <1>6, <1>9
  <2> QED BY <1>1, <1>7, <2>1
<1>10. CASE AtBoundary(p, S, f, j, c)
  <2>1. c = a
    BY <1>7, <1>10 DEF AtBoundary
  <2>2. CASE j <= Len(p)
    BY <1>5, <1>8, <2>1, <2>2 DEF Dashes
  <2>3. CASE ~(j <= Len(p))
    BY <1>1, <1>3, <1>4, <1>9, <2>1, <2>3
  <2> QED BY <2>2, <2>3
<1>11. CASE BeforeHeader(p, S, f, j, c)
  <2>1. c = a + 2
    BY <1>7, <1>11 DEF BeforeHeader
  <2>2. CASE j <= Len(p)
    <3>1. c + 1 = a + 3
      BY <1>7, <2>1
    <3> QED BY <1>5, <1>8, <2>2, <3>1 DEF Dashes
  <2>3. CASE ~(j <= Len(p))
    <3>1. PICK l \in Nat : l = Len(T)
      BY <1>1
    <3>2. n = (a + 2) + 5
      BY <1>4, <2>1, Zenon
    <3>3. a + 3 = l /\ n <= l
      BY <1>1, <1>9, <2>3, <3>1
    <3> QED BY <1>7, <3>2, <3>3
  <2> QED BY <2>2, <2>3
<1>12. CASE InBuffer(p, T, S, f, j, c)
  <2>1. j \in 1..Len(p) /\ c \in S[j] + 9..S[j + 1] - 1
    BY <1>1, <1>6, <1>12 DEF InBuffer
  <2>2. /\ p[j] \in PartType(M) /\ PartAt(p[j], T, S[j], S[j + 1])
        /\ Find(p[j].content, StartBoundary) = -1
    BY <2>1, PartsAre DEF Sent, Clean
  <2>3. ~ BoundaryAt(T, c)
    BY <1>1, <2>1, <2>2, NoBoundaryInside
  <2> QED BY <1>5, <2>3 DEF BoundaryAt
<1> QED BY <1>10, <1>11, <1>12 DEF Place

LEMMA FinishIs ==
    ASSUME NEW M, NEW p, NEW T, NEW S, NEW n, Sent(M, p, T, S, n), NEW f,
           NEW j, NEW c, Place(M, p, T, S, n, f, j, c)
    PROVE  Finish(f) = f \/ (Finish(f) = Return(f) /\ Stuck(p, S, n, f, j))
<1>1. CASE f.data = <<>>
  <2>1. Finish(f) = Return(f)
    BY <1>1 DEF Finish
  <2>2. c = n /\ n \in Nat
    <3>1. Len(f.data) = 0
      BY <1>1
    <3>2. c \in Nat /\ Len(f.data) = n - c /\ n \in Nat
      BY PlaceData, SentIs
    <3> QED BY <3>1, <3>2
  <2>3. /\ j \in 1..Len(p) + 1 /\ S[j] \in Nat /\ Len(p) \in Nat
        /\ j <= Len(p) => S[j + 1] \in Nat
    <3>1. /\ \A i \in 1..Len(p) + 1 : S[i] \in Nat
          /\ Len(p) \in Nat
      BY SentIs
    <3>2. j \in 1..Len(p) + 1
      BY DEF Place
    <3> QED BY <3>1, <3>2
  <2>4. f.status = "boundary" => n < S[j] + 2
    <3>1. f.status = "boundary" => c = S[j]
      BY DEF Place, AtBoundary, BeforeHeader, InBuffer
    <3> QED BY <2>2, <2>3, <3>1
  <2>5. f.status = "headers" => n < S[j] + 9
    <3>1. f.status = "headers" => c = S[j] + 2
      BY DEF Place, AtBoundary, BeforeHeader, InBuffer
    <3> QED BY <2>2, <2>3, <3>1
  <2>6. f.status = "buffer" => n < S[j + 1] + 2
    <3>1. f.status = "buffer" => j <= Len(p) /\ c \in S[j] + 9..S[j + 1] - 1
      BY DEF Place, AtBoundary, BeforeHeader, InBuffer
    <3> QED BY <2>2, <2>3, <3>1
  <2>7. Stuck(p, S, n, f, j)
    BY <2>4, <2>5, <2>6 DEF Stuck
  <2> QED BY <2>1, <2>7
<1>2. CASE f.data # <<>>
  <2>1. Finish(f) = f
    BY <1>2, NoEnd DEF Finish
  <2> QED BY <2>1
<1> QED BY <1>1, <1>2

(* _expect_boundary() *)
LEMMA FromBoundary ==
    ASSUME NEW M, NEW p, NEW T, NEW S, NEW n, Sent(M, p, T, S, n), NEW f,
           NEW j, NEW c, Place(M, p, T, S, n, f, j, c), ~ f.returned,
           f.status = "boundary"
    PROVE  Further(M, p, T, S, n, ExpectBoundary(f), c)
<1>1. /\ Alphabet(M) /\ n \in Nat /\ n <= Len(T) /\ Len(T) \in Nat
      /\ T \in Seq(M) /\ \A i \in 1..Len(p) + 1 : S[i] \in Nat
  BY SentIs
<1>2. /\ c \in Nat /\ c <= n /\ Len(f.data) = n - c
  BY PlaceData
<1>3. j \in 1..Len(p) + 1 /\ IsForm(M, f) /\ f.data = Data(T, c, n)
  BY DEF Place
<1>4. c = S[j] /\ Done(p, f, j - 1)
  BY DEF Place, AtBoundary, BeforeHeader, InBuffer
<1>5. CASE n - c < 2
  <2>1. ExpectBoundary(f) = Return(f)
    BY <1>2, <1>5, BoundaryLength DEF ExpectBoundary
  <2>2. Stuck(p, S, n, f, j)
    BY <1>1, <1>2, <1>4, <1>5 DEF Stuck
  <2> QED BY <2>1, <2>2, Returns
<1>6. CASE ~(n - c < 2)
  <2>1. S[j] + 2 <= n /\ c + 2 \in 0..n /\ 2 \in 0..n - c /\ c + 2 > c
    BY <1>1, <1>2, <1>4, <1>6
  <2>2. Find(f.data, StartBoundary) = 0
    BY <1>1, <1>3, <1>4, <2>1, BoundaryFirst DEF Sent
  <2>3. From(f.data, 0 + L) = Data(T, c + 2, n)
    <3>1. 0 + L = 2 /\ n \in 0..Len(T) /\ c \in 0..n
      BY <1>1, <1>2, BoundaryLength
    <3>2. From(Data(T, c, n), 2) = Data(T, c + 2, n)
      BY <1>1, <2>1, <3>1, DataFrom
    <3> QED BY <1>3, <3>1, <3>2
  <2>4. PICK g : g = ExpectBoundary(f)
    OBVIOUS
  <2>5. g = [f EXCEPT !.data = Data(T, c + 2, n), !.status = "headers"]
    <3>1. ~(Len(f.data) < L) /\ 0 # -1
      BY <1>2, <1>6, BoundaryLength
    <3>2. g = [f EXCEPT !.data = From(f.data, 0 + L), !.status = "headers"]
      BY <2>2, <2>4, <3>1 DEF ExpectBoundary
    <3> QED BY <2>3, <3>2
  <2>6. Altered(f, g, Data(T, c + 2, n), "headers", f.current, f.values,
                f.hurt, f.returned)
    BY <1>3, <2>5 DEF Altered, IsForm
  <2>7. Data(T, c + 2, n) \in Seq(M)
    <3>1. n \in 0..Len(T)
      BY <1>1
    <3> QED BY <1>1, <2>1, <3>1, DataIs
  <2>8. IsForm(M, g)
    BY <1>3, <2>6, <2>7 DEF IsForm, Altered
  <2>9. BeforeHeader(p, S, g, j, c + 2)
    <3>1. Done(p, g, j - 1)
      BY <1>4, <2>6, Zenon DEF Done, Altered
    <3>2. g.status = "headers" /\ c + 2 = S[j] + 2
      BY <1>4, <2>6 DEF Altered
    <3> QED BY <3>1, <3>2 DEF BeforeHeader
  <2>10. Place(M, p, T, S, n, g, j, c + 2)
    <3>1. g.data = Data(T, c + 2, n)
      BY <2>6 DEF Altered
    <3> QED BY <1>3, <2>1, <2>8, <2>9, <3>1 DEF Place
  <2>11. ~ g.returned
    BY <2>6 DEF Altered
  <2> QED BY <1>3, <2>1, <2>4, <2>10, <2>11, Zenon DEF Further
<1> QED BY <1>5, <1>6
(* _expect_headers() *)
LEMMA FromHeaders ==
    ASSUME NEW M, NEW p, NEW T, NEW S, NEW n, Sent(M, p, T, S, n), NEW f,
           NEW j, NEW c, Place(M, p, T, S, n, f, j, c), ~ f.returned,
           f.status = "headers"
    PROVE  Further(M, p, T, S, n, ExpectHeaders(f), c)
<1>1. /\ Alphabet(M) /\ n \in Nat /\ n <= Len(T) /\ Len(T) \in Nat
      /\ T \in Seq(M) /\ \A i \in 1..Len(p) + 1 : S[i] \in Nat
      /\ Len(p) \in Nat /\ n \in 0..Len(T)
  BY SentIs DEF Sent
<1>2. /\ c \in Nat /\ c <= n /\ Len(f.data) = n - c
      /\ \A k \in 1..n - c : f.data[k] = T[c + k]
  BY PlaceData
<1>3. j \in 1..Len(p) + 1 /\ IsForm(M, f) /\ f.data = Data(T, c, n)
  BY DEF Place
<1>4. c = S[j] + 2 /\ Done(p, f, j - 1)
  BY DEF Place, AtBoundary, BeforeHeader, InBuffer
<1>5. PICK a \in Nat : a = S[j] /\ c = a + 2 /\ a + 2 <= n
  BY <1>1, <1>2, <1>3, <1>4
<1>6. CASE ~(j <= Len(p) /\ a + 9 <= n)
  <2>1. Find(f.data, CRLF \o CRLF) = -1
    <3>1. CASE j <= Len(p)
      <4>1. j \in 1..Len(p) /\ ~(S[j] + 9 <= n) /\ S[j] + 2 <= n
        BY <1>1, <1>3, <1>5, <1>6, <3>1
      <4> QED BY <1>1, <1>3, <1>4, <4>1, BreaksNext DEF Sent
    <3>2. CASE ~(j <= Len(p))
      <4>1. j = Len(p) + 1
        BY <1>1, <1>3, <3>2
      <4>2. S[Len(p) + 1] + 2 <= n
        BY <1>5, <4>1
      <4> QED BY <1>1, <1>3, <1>4, <4>1, <4>2, NoBreaksAtEnd DEF Sent
    <3> QED BY <3>1, <3>2
  <2>2. ExpectHeaders(f) = Return(f)
    BY <2>1 DEF ExpectHeaders
  <2>3. Stuck(p, S, n, f, j)
    BY <1>1, <1>5, <1>6 DEF Stuck
  <2> QED BY <2>2, <2>3, Returns
<1>7. CASE j <= Len(p) /\ a + 9 <= n
  <2>1. j \in 1..Len(p) /\ S[j] + 9 <= n /\ S[j] + 2 <= n
    BY <1>1, <1>3, <1>5, <1>7
  <2>2. Find(f.data, CRLF \o CRLF) = 3
    BY <1>1, <1>3, <1>4, <2>1, BreaksNext DEF Sent
  <2>3. /\ p[j] \in PartType(M) /\ PartAt(p[j], T, a, S[j + 1])
        /\ S[j + 1] \in Nat /\ S[j + 1] = a + 11 + Len(p[j].content)
        /\ Len(p[j].content) \in Nat
    BY <1>5, <2>1, PartsAre DEF Sent
  <2>4. /\ 3 \in 0..n - c /\ 7 \in 0..n - c /\ c + 3 \in 0..Len(T)
        /\ c + 7 \in 0..n /\ c \in 0..n /\ c + 7 = a + 9 /\ c + 7 > c
        /\ c \in 0..c + 3 /\ (c + 3) - c = 3
    <3>1. PICK l \in Nat : l = Len(T)
      BY <1>1
    <3>2. a + 9 <= n /\ n <= l /\ n \in Nat
      BY <1>1, <1>7, <3>1
    <3>3. /\ 3 \in 0..n - (a + 2) /\ 7 \in 0..n - (a + 2)
          /\ (a + 2) + 3 \in 0..l /\ (a + 2) + 7 \in 0..n
          /\ a + 2 \in 0..n /\ (a + 2) + 7 = a + 9
          /\ (a + 2) + 7 > a + 2 /\ a + 2 \in 0..(a + 2) + 3
          /\ ((a + 2) + 3) - (a + 2) = 3
      BY <3>2
    <3> QED BY <1>5, <3>1, <3>3, Zenon
  <2>5. PICK t : t = Before(f.data, 3)
    OBVIOUS
  <2>6. t \in Seq(M) /\ Len(t) = 3 /\ t[1] = "CR" /\ t[2] = "LF"
        /\ t[3] = p[j].header
    <3>1. t = Data(T, c, c + 3)
      BY <1>1, <1>3, <2>4, <2>5, DataBefore
    <3>2. t \in Seq(M) /\ Len(t) = 3 /\ \A k \in 1..3 : t[k] = T[c + k]
      <4>1. PICK e : e = c + 3
        OBVIOUS
      <4>2. e \in 0..Len(T) /\ c \in 0..e /\ e - c = 3
        BY <2>4, <4>1, Zenon
      <4>3. Data(T, c, e) \in Seq(M) /\ Len(Data(T, c, e)) = e - c
            /\ \A k \in 1..e - c : Data(T, c, e)[k] = T[c + k]
        BY <1>1, <4>2, DataIs
      <4> QED BY <3>1, <4>1, <4>2, <4>3
    <3>3. T[a + 3] = "CR" /\ T[a + 4] = "LF" /\ T[a + 5] = p[j].header
      BY <2>3 DEF PartAt, HeadAt
    <3>4. c + 1 = a + 3 /\ c + 2 = a + 4 /\ c + 3 = a + 5
          /\ 1 \in 1..3 /\ 2 \in 1..3 /\ 3 \in 1..3
      BY <1>5
    <3>5. t[1] = T[a + 3] /\ t[2] = T[a + 4] /\ t[3] = T[a + 5]
      BY <3>2, <3>4
    <3> QED BY <3>2, <3>3, <3>5
  <2>7. PICK w : w = WithPart(f, t)
    OBVIOUS
  <2>8. PICK v : v = WithFile(f.values, NameOf(p[j]), NewFile(p[j].header))
    OBVIOUS
  <2>9. Altered(f, w, f.data, f.status, NameOf(p[j]), v, f.hurt, f.returned)
    BY <1>3, <2>3, <2>6, <2>7, <2>8, PartMade
  <2>10. From(f.data, 3 + 4) = Data(T, c + 7, n)
    <3>1. From(Data(T, c, n), 7) = Data(T, c + 7, n)
      BY <1>1, <2>4, DataFrom
    <3> QED BY <1>3, <3>1
  <2>11. PICK g : g = ExpectHeaders(f)
    OBVIOUS
  <2>12. g = [w EXCEPT !.data = Data(T, c + 7, n), !.status = "buffer"]
    <3>1. g = [WithPart(f, Before(f.data, 3)) EXCEPT
                  !.data = From(f.data, 3 + 4), !.status = "buffer"]
      <4>1. WithPart(f, Before(f.data, 3)).data = f.data
        BY <2>5, <2>7, <2>9 DEF Altered
      <4>2. 3 # -1
        OBVIOUS
      <4> QED BY <2>2, <2>11, <4>1, <4>2 DEF ExpectHeaders
    <3> QED BY <2>5, <2>7, <2>10, <3>1
  <2>13. Altered(f, g, Data(T, c + 7, n), "buffer", NameOf(p[j]), v, f.hurt,
                 f.returned)
    BY <1>3, <2>9, <2>12 DEF Altered, IsForm
  <2>14. Data(T, c + 7, n) \in Seq(M)
    BY <1>1, <2>4, DataIs
  <2>15. IsForm(M, g)
    BY <1>3, <2>13, <2>14 DEF IsForm, Altered
  <2>16. ~ g.hurt => HasParts(g.values, p, j, Data(T, S[j] + 9, c + 7))
    <3> SUFFICES ASSUME ~ g.hurt
                 PROVE  HasParts(g.values, p, j, Data(T, S[j] + 9, c + 7))
      OBVIOUS
    <3>1. ~ f.hurt
      BY <2>13 DEF Altered
    <3>2. HasParts(f.values, p, j - 1, p[j - 1].content)
      BY <1>4, <3>1 DEF Done
    <3>3. j \in Nat /\ j # 0
      BY <1>1, <2>1
    <3>4. HasParts(v, p, j, <<>>)
      BY <2>8, <3>2, <3>3, NewPart
    <3>5. Data(T, S[j] + 9, c + 7) = <<>>
      <4>1. PICK d \in Nat : d = c + 7 /\ d = S[j] + 9 /\ d \in 0..Len(T)
        <5>1. a + 9 \in Nat /\ a + 9 <= n
          BY <1>1, <1>7
        <5>2. PICK l \in Nat : l = Len(T)
          BY <1>1
        <5>3. a + 9 \in 0..l
          BY <1>1, <5>1, <5>2
        <5> QED BY <1>5, <2>4, <5>1, <5>2, <5>3
      <4>2. Data(T, d, d) \in Seq(M) /\ Len(Data(T, d, d)) = d - d
        <5>1. d \in 0..d
          BY <4>1
        <5> QED BY <1>1, <4>1, <5>1, DataIs
      <4>3. Data(T, d, d) = <<>>
        BY <4>1, <4>2
      <4> QED BY <4>1, <4>3
    <3> QED BY <2>13, <3>4, <3>5 DEF Altered
  <2>17. InBuffer(p, T, S, g, j, c + 7)
    <3>1. g.status = "buffer" /\ g.current = NameOf(p[j])
      BY <2>13 DEF Altered
    <3>2. c + 7 \in S[j] + 9..S[j + 1] - 1 /\ c + 7 <= S[j + 1] - 2
      <4>1. PICK b \in Nat, k \in Nat : b = S[j + 1] /\ b = a + 11 + k
        BY <2>3
      <4>2. a + 9 \in a + 9..b - 1 /\ a + 9 <= b - 2
        BY <4>1
      <4>3. c + 7 = a + 9
        BY <2>4
      <4> QED BY <1>5, <4>1, <4>2, <4>3, Zenon
    <3> QED BY <1>7, <2>16, <3>1, <3>2 DEF InBuffer
  <2>18. Place(M, p, T, S, n, g, j, c + 7)
    <3>1. g.data = Data(T, c + 7, n)
      BY <2>13 DEF Altered
    <3> QED BY <1>3, <2>4, <2>15, <2>17, <3>1 DEF Place
  <2>19. ~ g.returned
    BY <2>13 DEF Altered
  <2> QED BY <1>3, <2>4, <2>11, <2>18, <2>19, Zenon DEF Further
<1> QED BY <1>6, <1>7
(* The content of a part, where it is. *)
LEMMA ContentIs ==
    ASSUME NEW M, NEW T \in Seq(M), NEW q \in PartType(M), NEW a, NEW b,
           PartAt(q, T, a, b)
    PROVE  Data(T, a + 9, b - 2) = q.content
<1>1. q.content \in Seq(M)
  BY DEF PartType
<1>2. PICK t \in Seq(M) : t = q.content
  BY <1>1
<1>3. PICK k \in Nat : k = Len(t)
  OBVIOUS
<1>4. PICK l \in Nat : l = Len(T)
  OBVIOUS
<1>5. a \in Nat /\ b = a + 11 + k /\ b + 3 <= l
  BY <1>2, <1>3, <1>4 DEF PartAt
<1>6. PICK c \in Nat, e \in Nat : c = a + 9 /\ e = b - 2
  BY <1>5
<1>7. e = c + k /\ e \in 0..l /\ c \in 0..e /\ e - c = k
  BY <1>5, <1>6
<1>8. PICK x : x = Data(T, c, e)
  OBVIOUS
<1>9. x \in Seq(M) /\ Len(x) = e - c /\ \A i \in 1..e - c : x[i] = T[c + i]
  BY <1>4, <1>7, <1>8, DataIs
<1>10. \A i \in 1..k : T[c + i] = t[i]
  BY <1>2, <1>3, <1>6 DEF PartAt, TailAt
<1>11. x \in Seq(M) /\ Len(x) = k /\ \A i \in 1..k : x[i] = t[i]
  BY <1>7, <1>9, <1>10
<1>12. x = t
  BY <1>3, <1>11, SameText
<1> QED BY <1>2, <1>6, <1>8, <1>12

(* What a parser in the content of a part has when it writes what follows. *)
Writing(f, x, u) == [f.values EXCEPT ![x] = Written(f.values[x], u)]

LEMMA BufferGrows ==
    ASSUME NEW M, NEW p, NEW T, NEW S, NEW n, Sent(M, p, T, S, n), NEW f,
           NEW j, NEW c, c \in Nat, InBuffer(p, T, S, f, j, c), ~ f.hurt,
           j \in 1..Len(p), NEW e \in Nat, c <= e, e <= Len(T)
    PROVE  LET x == NameOf(p[j])
               u == Data(T, c, e)
               whole == Data(T, S[j] + 9, e)
           IN  IF Overflows(f.values[x], u) THEN ~ InMemory(whole)
               ELSE HasParts(Writing(f, x, u), p, j, whole)
<1>1. T \in Seq(M) /\ Len(T) \in Nat /\ Len(p) \in Nat
  BY SentIs
<1>2. S[j] \in Nat
  BY PartsAre DEF Sent
<1>3. PICK o \in Nat : o = S[j] + 9
  BY <1>2
<1>4. c \in o..S[j + 1] - 1 /\ HasParts(f.values, p, j, Data(T, o, c))
  BY <1>3 DEF InBuffer
<1>5. o <= c
  BY <1>3, <1>4
<1>6. PICK t : t = Data(T, o, c)
  OBVIOUS
<1>7. PICK u : u = Data(T, c, e)
  OBVIOUS
<1>8. PICK l \in Nat : l = Len(T)
  BY <1>1
<1>9. c \in 0..l /\ e \in 0..l /\ o \in 0..c /\ c \in 0..e
  BY <1>3, <1>5, <1>8
<1>10. t \in Seq(M) /\ u \in Seq(M)
  BY <1>1, <1>6, <1>7, <1>8, <1>9, DataIs
<1>11. t \o u = Data(T, o, e)
  BY <1>1, <1>6, <1>7, <1>8, <1>9, DataGrows
<1>12. j \in Nat /\ j # 0
  BY <1>1
<1>13. PICK x : x = NameOf(p[j])
  OBVIOUS
<1>14. HasParts(f.values, p, j, t)
  BY <1>4, <1>6
<1>15. PICK v : v = f.values
  OBVIOUS
<1>16. Overflows(v[x], u) = ~ InMemory(t \o u)
  <2>1. j \in 1..j /\ LastOfName(p, j, j)
    BY <1>12 DEF LastOfName
  <2>2. v[x] = FileOf(p[j].header, t)
    BY <1>13, <1>14, <1>15, <2>1 DEF HasParts
  <2>3. v[x].buffer = t
    BY <2>2, WrittenIs
  <2>4. Len(t \o u) = Len(t) + Len(u) /\ Len(t) \in Nat /\ Len(u) \in Nat
    BY <1>10
  <2>5. MemoryLimit \in Nat
    BY MultipartAssumption
  <2>6. PICK y \in Nat : y = Len(t) + Len(u)
    BY <2>4
  <2>7. (y > MemoryLimit) = ~ (y <= MemoryLimit)
    BY <2>5
  <2> QED BY <2>3, <2>4, <2>6, <2>7, Zenon DEF Overflows, InMemory
<1>17. CASE Overflows(v[x], u)
  BY <1>3, <1>7, <1>11, <1>13, <1>15, <1>16, <1>17
<1>18. CASE ~ Overflows(v[x], u)
  <2>1. HasParts([v EXCEPT ![x] = Written(v[x], u)], p, j, t \o u)
    BY <1>10, <1>12, <1>13, <1>14, <1>15, <1>16, <1>18, MoreOfPart
  <2> QED BY <1>3, <1>7, <1>11, <1>13, <1>15, <1>18, <2>1 DEF Writing
<1> QED BY <1>17, <1>18

(* A parser that is not hurt fails for a part that is too large. *)
LEMMA TooLarge ==
    ASSUME NEW M, NEW p, NEW T, NEW S, NEW n, Sent(M, p, T, S, n), NEW f,
           NEW j, NEW c, c \in Nat, InBuffer(p, T, S, f, j, c), ~ f.hurt,
           j \in 1..Len(p), NEW e \in Nat, c <= e, e <= S[j + 1] - 2,
           Overflows(f.values[NameOf(p[j])], Data(T, c, e))
    PROVE  ~ InMemory(p[j].content)
<1>1. T \in Seq(M) /\ Len(T) \in Nat /\ Len(p) \in Nat
  BY SentIs
<1>2. /\ S[j] \in Nat /\ S[j + 1] \in Nat /\ Len(p[j].content) \in Nat
      /\ S[j + 1] = S[j] + 11 + Len(p[j].content) /\ S[j + 1] + 3 <= Len(T)
  BY PartsAre DEF Sent
<1>3. PICK a \in Nat, b \in Nat, k \in Nat, l \in Nat :
          a = S[j] /\ b = S[j + 1] /\ k = Len(p[j].content) /\ l = Len(T)
  BY <1>1, <1>2, Zenon
<1>4. b = a + 11 + k /\ b + 3 <= l /\ e <= b - 2
  BY <1>2, <1>3, Zenon
<1>5. PICK o \in Nat : o = a + 9
  OBVIOUS
<1>6. o = S[j] + 9 /\ o <= c
  <2>1. c \in o..b - 1
    BY <1>3, <1>5, Zenon DEF InBuffer
  <2> QED BY <1>3, <1>5, <2>1
<1>7. e <= l /\ e - o <= k /\ o \in 0..e /\ e \in 0..l
  <2>1. b = (o + 2) + k
    BY <1>4, <1>5
  <2> QED BY <1>4, <1>6, <2>1
<1>8. ~ InMemory(Data(T, o, e))
  BY <1>3, <1>7, <1>6, BufferGrows
<1>9. Len(Data(T, o, e)) = e - o
  BY <1>1, <1>3, <1>7, DataIs
<1>10. ~ (e - o <= MemoryLimit) /\ MemoryLimit \in Nat
  BY <1>8, <1>9, MultipartAssumption DEF InMemory
<1>11. ~ (k <= MemoryLimit)
  BY <1>7, <1>10
<1> QED BY <1>3, <1>11 DEF InMemory

LEMMA NamedPart ==
    ASSUME NEW M, NEW q \in PartType(M)
    PROVE  NameOf(q) # "none"
<1>1. q.header \in DOMAIN Disposition
  BY DEF PartType
<1> QED BY <1>1, DispositionAssumption DEF NameOf

Apart(b, c, n) ==
    /\ b \in 0..n /\ b - c \in 0..n - c /\ c + (b - c) = b /\ b - c # -1
    /\ c <= b - 2 => /\ (b - c) - 2 \in 0..n - c /\ b - 2 \in Nat
                     /\ c + ((b - c) - 2) = b - 2 /\ b - 2 <= n

LEMMA Distances ==
    ASSUME NEW b \in Nat, NEW c \in Nat, NEW n \in Nat, c < b, b + 2 <= n
    PROVE  Apart(b, c, n)
<1>1. b \in 0..n /\ c + (b - c) = b /\ b - c # -1
  OBVIOUS
<1>2. b - c \in 0..n - c
  <2>1. b - c \in Nat /\ b - c <= n - c
    OBVIOUS
  <2> QED BY <2>1
<1>3. ASSUME c <= b - 2
      PROVE  /\ (b - c) - 2 \in 0..n - c /\ b - 2 \in Nat
             /\ c + ((b - c) - 2) = b - 2 /\ b - 2 <= n
  <2>1. (b - c) - 2 \in Nat /\ (b - c) - 2 <= n - c /\ b - 2 \in Nat
    BY <1>3
  <2> QED BY <2>1
<1> QED BY <1>1, <1>2, <1>3 DEF Apart

(* _expect_buffer(), when the boundary has arrived. *)
LEMMA PartEnds ==
    ASSUME NEW M, NEW p, NEW T, NEW S, NEW n, Sent(M, p, T, S, n), NEW f,
           NEW j, NEW c, Place(M, p, T, S, n, f, j, c), ~ f.returned,
           f.status = "buffer", S[j + 1] + 2 <= n
    PROVE  Further(M, p, T, S, n, ExpectBuffer(f), c)
<1>1. /\ Alphabet(M) /\ n \in Nat /\ n <= Len(T) /\ Len(T) \in Nat
      /\ T \in Seq(M) /\ Len(p) \in Nat /\ n \in 0..Len(T)
  BY SentIs DEF Sent
<1>2. c \in Nat /\ c <= n /\ Len(f.data) = n - c
  BY PlaceData
<1>3. IsForm(M, f) /\ f.data = Data(T, c, n)
  BY DEF Place
<1>4. InBuffer(p, T, S, f, j, c)
  BY DEF Place, AtBoundary, BeforeHeader
<1>5. j \in 1..Len(p)
  <2>1. j \in 1..Len(p) + 1 /\ j <= Len(p)
    BY <1>4 DEF Place, InBuffer
  <2> QED BY <1>1, <2>1
<1>6. /\ p[j] \in PartType(M) /\ PartAt(p[j], T, S[j], S[j + 1])
      /\ S[j] \in Nat /\ S[j + 1] \in Nat
  BY <1>5, PartsAre DEF Sent
<1>7. PICK b \in Nat : b = S[j + 1]
  BY <1>6
<1>8. c \in S[j] + 9..b - 1 /\ f.current = NameOf(p[j])
  BY <1>4, <1>7 DEF InBuffer
<1>9. /\ b + 2 <= n /\ c < b /\ b \in 0..n /\ b - c \in 0..n - c
      /\ c + (b - c) = b /\ b - c # -1
  <2>1. b + 2 <= n /\ c < b
    BY <1>2, <1>6, <1>7, <1>8
  <2>2. Apart(b, c, n)
    BY <1>1, <1>2, <2>1, Distances
  <2> QED BY <2>1, <2>2 DEF Apart
<1>10. PICK d : d = b - c
  OBVIOUS
<1>11. Find(f.data, StartBoundary) = d /\ d # -1
  <2>1. Find(Data(T, c, n), StartBoundary)
        = IF S[j + 1] + 2 <= n THEN S[j + 1] - c ELSE -1
    BY <1>1, <1>2, <1>5, <1>7, <1>8, BoundaryNext DEF Sent
  <2> QED BY <1>3, <1>7, <1>9, <1>10, <2>1
<1>12. From(f.data, d) = Data(T, b, n)
  <2>1. c \in 0..n
    BY <1>1, <1>2
  <2> QED BY <1>1, <1>3, <1>9, <1>10, <2>1, DataFrom
<1>13. PICK u : u = Before(f.data, d - 2)
  OBVIOUS
<1>14. PICK x : x = NameOf(p[j])
  OBVIOUS
<1>15. x # "none" /\ f.current = x
  BY <1>6, <1>8, <1>14, NamedPart
<1>16. PICK w : w = Write(f, u)
  OBVIOUS
<1>17. ASSUME ~ f.hurt
       PROVE  \E e \in Nat : /\ u = Data(T, c, e) /\ c <= e /\ e = b - 2
                              /\ e <= Len(T)
  <2>1. c <= b - 2
    BY <1>4, <1>7, <1>17 DEF InBuffer
  <2>2. PICK e \in Nat : e = b - 2
    BY <1>2, <1>7, <2>1
  <2>3. c <= e /\ e <= Len(T) /\ d - 2 \in 0..n - c /\ c + (d - 2) = e
    <3>1. Apart(b, c, n)
      BY <1>1, <1>2, <1>9, Distances
    <3>2. /\ (b - c) - 2 \in 0..n - c /\ c + ((b - c) - 2) = b - 2
          /\ b - 2 <= n
      BY <2>1, <3>1 DEF Apart
    <3>3. b - 2 <= Len(T)
      BY <1>1, <1>7, <3>2
    <3> QED BY <1>10, <2>1, <2>2, <3>2, <3>3, Zenon
  <2>4. u = Data(T, c, e)
    <3>1. c \in 0..n
      BY <1>1, <1>2
    <3>2. Before(Data(T, c, n), d - 2) = Data(T, c, c + (d - 2))
      BY <1>1, <2>3, <3>1, DataBefore
    <3> QED BY <1>3, <1>13, <2>3, <3>2
  <2> QED BY <2>2, <2>3, <2>4
<1>18. PICK g : g = ExpectBuffer(f)
  OBVIOUS
<1>19. CASE Overflows(f.values[x], u)
  <2>1. /\ w.error = "AttributeError" /\ w.returned /\ w.hurt = f.hurt
        /\ w.data = f.data /\ DOMAIN w = DOMAIN f
    BY <1>3, <1>15, <1>16, <1>19, WriteFails
  <2>2. g = [w EXCEPT !.data = From(w.data, d), !.current = "none",
                      !.status = "boundary"]
    BY <1>11, <1>13, <1>16, <1>18 DEF ExpectBuffer
  <2>3. g.error = "AttributeError" /\ g.returned /\ g.hurt = f.hurt
    BY <1>3, <2>1, <2>2 DEF IsForm
  <2>4. ~ f.hurt => ~ InMemory(p[j].content)
    <3> SUFFICES ASSUME ~ f.hurt PROVE ~ InMemory(p[j].content)
      OBVIOUS
    <3>1. PICK e \in Nat : u = Data(T, c, e) /\ c <= e /\ e = S[j + 1] - 2
      BY <1>7, <1>17
    <3>2. e <= S[j + 1] - 2
      BY <1>6, <3>1
    <3> QED BY <1>2, <1>4, <1>5, <1>14, <1>19, <3>1, <3>2, TooLarge
  <2>5. Overflown(p, g)
    BY <1>3, <1>5, <2>3, <2>4 DEF Overflown, IsForm
  <2> QED BY <1>18, <2>5 DEF Further
<1>20. CASE ~ Overflows(f.values[x], u)
  <2>1. Altered(f, w, f.data, f.status, x, Writing(f, x, u), f.hurt,
                f.returned)
    <3>1. Altered(f, w, f.data, f.status, f.current,
                  [f.values EXCEPT
                      ![f.current] = Written(f.values[f.current], u)],
                  f.hurt, f.returned)
      BY <1>3, <1>15, <1>16, <1>20, WriteIs
    <3> QED BY <1>15, <3>1 DEF Writing
  <2>2. g = [w EXCEPT !.data = Data(T, b, n), !.current = "none",
                       !.status = "boundary"]
    <3>1. g = [Write(f, Before(f.data, d - 2)) EXCEPT
                  !.data = From(f.data, d), !.current = "none",
                  !.status = "boundary"]
      <4>1. Write(f, Before(f.data, d - 2)).data = f.data
        BY <1>13, <1>16, <2>1 DEF Altered
      <4> QED BY <1>11, <1>18, <4>1 DEF ExpectBuffer
    <3> QED BY <1>12, <1>13, <1>16, <3>1
  <2>3. Altered(f, g, Data(T, b, n), "boundary", "none", Writing(f, x, u),
                 f.hurt, f.returned)
    BY <1>3, <2>1, <2>2 DEF Altered, IsForm
  <2>4. Data(T, b, n) \in Seq(M)
    BY <1>1, <1>9, DataIs
  <2>5. IsForm(M, g)
    BY <1>3, <2>3, <2>4 DEF IsForm, Altered
  <2>6. ~ g.hurt => HasParts(g.values, p, j, p[j].content)
    <3> SUFFICES ASSUME ~ g.hurt PROVE HasParts(g.values, p, j, p[j].content)
      OBVIOUS
    <3>1. ~ f.hurt
      BY <2>3 DEF Altered
    <3>2. PICK e \in Nat : /\ u = Data(T, c, e) /\ c <= e /\ e = b - 2
                           /\ e <= Len(T)
      BY <1>17, <3>1
    <3>3. HasParts(Writing(f, x, u), p, j, Data(T, S[j] + 9, e))
      BY <1>2, <1>4, <1>5, <1>14, <1>20, <3>1, <3>2, BufferGrows
    <3>4. Data(T, S[j] + 9, e) = p[j].content
      BY <1>1, <1>6, <1>7, <3>2, ContentIs
    <3> QED BY <2>3, <3>3, <3>4 DEF Altered
  <2>7. AtBoundary(p, S, g, j + 1, b)
    <3>1. Done(p, g, j)
      BY <2>6 DEF Done
    <3>2. (j + 1) - 1 = j
      BY <1>1, <1>5
    <3> QED BY <1>7, <2>3, <3>1, <3>2 DEF AtBoundary, Altered
  <2>8. j + 1 \in 1..Len(p) + 1
    BY <1>1, <1>5
  <2>9. Place(M, p, T, S, n, g, j + 1, b)
    <3>1. g.data = Data(T, b, n)
      BY <2>3 DEF Altered
    <3> QED BY <1>9, <2>5, <2>7, <2>8, <3>1 DEF Place
  <2>10. ~ g.returned /\ b > c
    BY <1>2, <1>9, <2>3 DEF Altered
  <2> QED BY <1>9, <1>18, <2>8, <2>9, <2>10, Zenon DEF Further
<1> QED BY <1>19, <1>20

(* What is flushed is all but two symbols. *)
LeftOver(b, c, n) ==
    /\ n - 2 \in 0..n /\ n - 2 \in Nat /\ c <= n - 2
    /\ (n - c) - 2 \in 0..n - c /\ c + ((n - c) - 2) = n - 2
    /\ n - 2 <= b - 1
    /\ ~ (n - 2 <= b - 2) => n = b + 1
    /\ n = b + 1 /\ c <= b - 2 =>
          /\ n - c >= 3 /\ n - c \in Nat
          /\ (n - c) - 2 \in 1..n - c /\ (n - c) - 1 \in 1..n - c
          /\ n - c \in 1..n - c /\ c + ((n - c) - 2) = b - 1
          /\ c + ((n - c) - 1) = b /\ c + (n - c) = b + 1

LEMMA Keeping ==
    ASSUME NEW b \in Nat, NEW c \in Nat, NEW n \in Nat, c < b,
           ~(b + 2 <= n), 2 <= n - c
    PROVE  LeftOver(b, c, n)
<1>1. n - 2 \in Nat /\ n - 2 \in 0..n /\ c <= n - 2 /\ n - 2 <= b - 1
  OBVIOUS
<1>2. (n - c) - 2 \in Nat /\ (n - c) - 2 <= n - c /\ c + ((n - c) - 2) = n - 2
  OBVIOUS
<1>3. ~ (n - 2 <= b - 2) => n = b + 1
  OBVIOUS
<1>4. ASSUME n = b + 1, c <= b - 2
      PROVE  /\ n - c >= 3 /\ n - c \in Nat
             /\ (n - c) - 2 \in 1..n - c /\ (n - c) - 1 \in 1..n - c
             /\ n - c \in 1..n - c /\ c + ((n - c) - 2) = b - 1
             /\ c + ((n - c) - 1) = b /\ c + (n - c) = b + 1
  <2>1. PICK k \in Nat : k = n - c /\ k >= 3
    BY <1>4
  <2>2. k - 2 \in 1..k /\ k - 1 \in 1..k /\ k \in 1..k
    BY <2>1
  <2>3. c + k = n
    BY <2>1
  <2>4. c + (k - 2) = b - 1 /\ c + (k - 1) = b /\ c + k = b + 1
    BY <1>4, <2>3
  <2> QED BY <2>1, <2>2, <2>4
<1>5. (n - c) - 2 \in 0..n - c
  BY <1>2
<1> QED BY <1>1, <1>2, <1>3, <1>4, <1>5, Zenon DEF LeftOver

LEMMA FlushLength ==
    ASSUME NEW k \in Nat, k >= L * FlushFactor
    PROVE  2 <= k
<1>1. PICK m \in Nat : m = FlushFactor /\ m # 0
  BY MultipartAssumption
<1>2. L * FlushFactor = 2 * m
  BY <1>1, BoundaryLength
<1>3. 2 * m >= 2
  BY <1>1
<1>4. k >= 2 * m
  BY <1>2
<1> QED BY <1>1, <1>3, <1>4

(* _expect_buffer(), when it has not. *)
LEMMA PartGoesOn ==
    ASSUME NEW M, NEW p, NEW T, NEW S, NEW n, Sent(M, p, T, S, n), NEW f,
           NEW j, NEW c, Place(M, p, T, S, n, f, j, c), ~ f.returned,
           f.status = "buffer", ~(S[j + 1] + 2 <= n)
    PROVE  Further(M, p, T, S, n, ExpectBuffer(f), c)
<1>1. /\ Alphabet(M) /\ n \in Nat /\ n <= Len(T) /\ Len(T) \in Nat
      /\ T \in Seq(M) /\ Len(p) \in Nat /\ n \in 0..Len(T)
  BY SentIs DEF Sent
<1>2. /\ c \in Nat /\ c <= n /\ Len(f.data) = n - c /\ f.data \in Seq(M)
      /\ \A k \in 1..n - c : f.data[k] = T[c + k]
  BY PlaceData
<1>3. IsForm(M, f) /\ f.data = Data(T, c, n)
  BY DEF Place
<1>4. InBuffer(p, T, S, f, j, c)
  BY DEF Place, AtBoundary, BeforeHeader
<1>5. j \in 1..Len(p) /\ j \in 1..Len(p) + 1
  <2>1. j \in 1..Len(p) + 1 /\ j <= Len(p)
    BY <1>4 DEF Place, InBuffer
  <2> QED BY <1>1, <2>1
<1>6. /\ p[j] \in PartType(M) /\ PartAt(p[j], T, S[j], S[j + 1])
      /\ S[j] \in Nat /\ S[j + 1] \in Nat
  BY <1>5, PartsAre DEF Sent
<1>7. PICK b \in Nat : b = S[j + 1]
  BY <1>6
<1>8. c \in S[j] + 9..b - 1 /\ f.current = NameOf(p[j]) /\ c < b
      /\ S[j] + 9 <= c
  BY <1>2, <1>4, <1>6, <1>7 DEF InBuffer
<1>9. ~(b + 2 <= n) /\ n < b + 2
  BY <1>1, <1>7
<1>10. Find(f.data, StartBoundary) = -1
  <2>1. Find(Data(T, c, n), StartBoundary)
        = IF S[j + 1] + 2 <= n THEN S[j + 1] - c ELSE -1
    BY <1>1, <1>2, <1>5, <1>7, <1>8, BoundaryNext DEF Sent
  <2> QED BY <1>3, <2>1
<1>11. CASE ~(Len(f.data) >= L * FlushFactor)
  <2>1. ExpectBuffer(f) = Return(f)
    BY <1>10, <1>11 DEF ExpectBuffer
  <2>2. Stuck(p, S, n, f, j)
    BY <1>7, <1>9 DEF Stuck
  <2> QED BY <2>1, <2>2, Returns
<1>12. CASE Len(f.data) >= L * FlushFactor
  <2>1. PICK k \in Nat : k = n - c /\ k = Len(f.data)
    BY <1>2
  <2>2. 2 <= n - c
    <3>1. 2 <= k
      BY <1>12, <2>1, FlushLength
    <3> QED BY <2>1, <3>1
  <2>3. LeftOver(b, c, n)
    BY <1>1, <1>2, <1>7, <1>8, <1>9, <2>2, Keeping
  <2>4. PICK e \in Nat : e = n - 2
    BY <2>3 DEF LeftOver
  <2>5. PICK d : d = (n - c) - 2
    OBVIOUS
  <2>6. /\ d \in 0..n - c /\ c + d = e /\ e \in 0..n /\ c <= e /\ e <= b - 1
        /\ c \in 0..n
    BY <1>1, <1>2, <2>3, <2>4, <2>5 DEF LeftOver
  <2>7. Len(f.data) - L = d
    BY <1>2, <2>5, BoundaryLength
  <2>8. From(f.data, d) = Data(T, e, n)
    BY <1>1, <1>3, <2>6, DataFrom
  <2>9. PICK u : u = Before(f.data, d)
    OBVIOUS
  <2>10. u = Data(T, c, e)
    BY <1>1, <1>3, <2>6, <2>9, DataBefore
  <2>11. PICK x : x = NameOf(p[j])
    OBVIOUS
  <2>12. x # "none" /\ f.current = x
    BY <1>6, <1>8, <2>11, NamedPart
  <2>13. PICK w : w = Write(f, u)
    OBVIOUS
  <2>14. PICK h : h = (f.hurt \/ IsSuffix(Front(Delimiter), f.data))
    OBVIOUS
  <2>15. h \in BOOLEAN
    BY <2>14
  <2>16. ASSUME ~ h PROVE ~ f.hurt /\ e <= b - 2
    <3>1. ~ f.hurt /\ ~ IsSuffix(Front(Delimiter), f.data)
      BY <2>14, <2>16
    <3>2. c <= b - 2
      BY <1>4, <1>7, <3>1 DEF InBuffer
    <3>3. e <= b - 2
      <4> SUFFICES ASSUME ~(e <= b - 2) PROVE FALSE
        OBVIOUS
      <4>1. n = b + 1
        BY <2>3, <2>4 DEF LeftOver
      <4>2. /\ k >= 3 /\ k - 2 \in 1..k /\ k - 1 \in 1..k /\ k \in 1..k
            /\ c + (k - 2) = b - 1 /\ c + (k - 1) = b /\ c + k = b + 1
        BY <2>1, <2>3, <3>2, <4>1 DEF LeftOver
      <4>3. T[b - 1] = "CR" /\ T[b] = "LF" /\ T[b + 1] = Dashes
        BY <1>6, <1>7 DEF PartAt, TailAt
      <4>4. \A i \in 1..k : f.data[i] = T[c + i]
        BY <1>2, <2>1
      <4>5. f.data[k - 2] = "CR" /\ f.data[k - 1] = "LF" /\ f.data[k] = Dashes
        BY <4>2, <4>3, <4>4
      <4>6. IsSuffix(Front(Delimiter), f.data)
        BY <1>1, <1>2, <2>1, <4>2, <4>5, EndsCut
      <4> QED BY <3>1, <4>6
    <3> QED BY <3>1, <3>3
  <2>17. CASE Overflows(f.values[x], u)
    <3>1. /\ w.error = "AttributeError" /\ w.returned /\ w.hurt = f.hurt
          /\ w.data = f.data /\ DOMAIN w = DOMAIN f
      BY <1>3, <2>12, <2>13, <2>17, WriteFails
    <3>2. PICK r : r = [w EXCEPT !.data = Data(T, e, n), !.hurt = h]
      OBVIOUS
    <3>3. ExpectBuffer(f) = Return(r)
      <4>1. ExpectBuffer(f) = Flush(f)
        BY <1>10, <1>12 DEF ExpectBuffer
      <4>2. Write(f, Before(f.data, Len(f.data) - L)) = w
        BY <2>7, <2>9, <2>13
      <4>3. Flush(f) = Return([w EXCEPT
                          !.data = From(w.data, Len(f.data) - L),
                          !.hurt = w.hurt
                                   \/ IsSuffix(Front(Delimiter), f.data)])
        BY <4>2, Zenon DEF Flush
      <4>4. From(w.data, Len(f.data) - L) = Data(T, e, n)
        BY <2>7, <2>8, <3>1
      <4>5. (w.hurt \/ IsSuffix(Front(Delimiter), f.data)) = h
        BY <2>14, <3>1, Zenon
      <4> QED BY <3>2, <4>1, <4>3, <4>4, <4>5, Zenon
    <3>4. r.error = "AttributeError" /\ r.hurt = h /\ DOMAIN r = DOMAIN f
      BY <1>3, <3>1, <3>2 DEF IsForm
    <3>5. PICK g : g = Return(r)
      OBVIOUS
    <3>6. g.error = "AttributeError" /\ g.hurt = h /\ g.returned
      BY <1>3, <3>4, <3>5 DEF Return, IsForm
    <3>7. ~ h => ~ InMemory(p[j].content)
      <4> SUFFICES ASSUME ~ h PROVE ~ InMemory(p[j].content)
        OBVIOUS
      <4>1. ~ f.hurt /\ e <= S[j + 1] - 2
        BY <1>7, <2>16
      <4> QED BY <1>2, <1>4, <1>5, <2>6, <2>10, <2>11, <2>17, <4>1, TooLarge
    <3>8. Overflown(p, g)
      BY <1>5, <2>15, <3>6, <3>7 DEF Overflown
    <3> QED BY <3>3, <3>5, <3>8 DEF Further
  <2>18. CASE ~ Overflows(f.values[x], u)
    <3>1. Altered(f, w, f.data, f.status, x, Writing(f, x, u), f.hurt,
                   f.returned)
      <4>1. Altered(f, w, f.data, f.status, f.current,
                    [f.values EXCEPT
                        ![f.current] = Written(f.values[f.current], u)],
                    f.hurt, f.returned)
        BY <1>3, <2>18, <2>12, <2>13, WriteIs
      <4> QED BY <2>12, <4>1 DEF Writing
    <3>2. PICK r : r = [w EXCEPT !.data = Data(T, e, n), !.hurt = h]
      OBVIOUS
    <3>3. ExpectBuffer(f) = Return(r)
      <4>1. ExpectBuffer(f) = Flush(f)
        BY <1>10, <1>12 DEF ExpectBuffer
      <4>2. Write(f, Before(f.data, Len(f.data) - L)) = w
        BY <2>7, <2>9, <2>13
      <4>3. w.data = f.data /\ w.hurt = f.hurt
        BY <3>1 DEF Altered
      <4>4. Flush(f) = Return([w EXCEPT
                          !.data = From(w.data, Len(f.data) - L),
                          !.hurt = w.hurt \/ IsSuffix(Front(Delimiter), f.data)])
        BY <4>2, Zenon DEF Flush
      <4>5. From(w.data, Len(f.data) - L) = Data(T, e, n)
        BY <2>7, <2>8, <4>3
      <4>6. (w.hurt \/ IsSuffix(Front(Delimiter), f.data)) = h
        BY <2>14, <4>3, Zenon
      <4> QED BY <3>2, <4>1, <4>4, <4>5, <4>6, Zenon
    <3>4. Altered(f, r, Data(T, e, n), "buffer", x, Writing(f, x, u), h,
                   f.returned)
      BY <1>3, <3>1, <3>2 DEF Altered, IsForm
    <3>5. Data(T, e, n) \in Seq(M)
      BY <1>1, <2>6, DataIs
    <3>6. IsForm(M, r)
      BY <1>3, <2>15, <3>4, <3>5 DEF IsForm, Altered
    <3>7. ASSUME ~ r.hurt
           PROVE  /\ e <= b - 2
                  /\ HasParts(r.values, p, j, Data(T, S[j] + 9, e))
      <4>1. ~ h
        BY <3>4, <3>7 DEF Altered
      <4>2. ~ f.hurt /\ e <= b - 2
        BY <2>16, <4>1
      <4>3. HasParts(Writing(f, x, u), p, j, Data(T, S[j] + 9, e))
        <5>1. e <= Len(T)
          BY <1>1, <2>4, <2>6
        <5> QED BY <1>2, <1>4, <1>5, <2>6, <2>10, <2>11, <2>18, <4>2, <5>1,
                   BufferGrows
      <4>4. r.values = Writing(f, x, u)
        BY <3>4 DEF Altered
      <4> QED BY <4>2, <4>3, <4>4
    <3>8. InBuffer(p, T, S, r, j, e)
      <4>1. r.status = "buffer" /\ r.current = NameOf(p[j])
        BY <2>11, <3>4 DEF Altered
      <4>2. e \in S[j] + 9..S[j + 1] - 1
        BY <1>2, <1>6, <1>7, <1>8, <2>6
      <4>3. j <= Len(p)
        BY <1>4 DEF InBuffer
      <4> QED BY <1>7, <3>7, <4>1, <4>2, <4>3 DEF InBuffer
    <3>9. Place(M, p, T, S, n, r, j, e)
      <4>1. r.data = Data(T, e, n)
        BY <3>4 DEF Altered
      <4> QED BY <1>5, <2>6, <3>6, <3>8, <4>1 DEF Place
    <3>10. Stuck(p, S, n, r, j)
      <4>1. r.status = "buffer"
        BY <3>4 DEF Altered
      <4> QED BY <1>7, <1>9, <4>1 DEF Stuck
    <3> QED BY <3>3, <3>9, <3>10, Returns
  <2> QED BY <2>17, <2>18
<1> QED BY <1>11, <1>12

LEMMA FromBuffer ==
    ASSUME NEW M, NEW p, NEW T, NEW S, NEW n, Sent(M, p, T, S, n), NEW f,
           NEW j, NEW c, Place(M, p, T, S, n, f, j, c), ~ f.returned,
           f.status = "buffer"
    PROVE  Further(M, p, T, S, n, ExpectBuffer(f), c)
<1>1. CASE S[j + 1] + 2 <= n
  BY <1>1, PartEnds
<1>2. CASE ~(S[j + 1] + 2 <= n)
  BY <1>2, PartGoesOn
<1> QED BY <1>1, <1>2
-----------------------------------------------------------------------------
(* A turn of the loop comes further, or returns. *)
LEMMA FurtherStill ==
    ASSUME NEW M, NEW p, NEW T, NEW S, NEW n \in Nat, NEW g, NEW c \in Nat,
           NEW d \in 0..n, d > c, Further(M, p, T, S, n, g, d)
    PROVE  Further(M, p, T, S, n, g, c)
<1>1. CASE Overflown(p, g)
  BY <1>1 DEF Further
<1>2. CASE ~ Overflown(p, g)
  <2>1. PICK j2 \in 1..Len(p) + 1, c2 \in 0..n :
            /\ Place(M, p, T, S, n, g, j2, c2)
            /\ g.returned => Stuck(p, S, n, g, j2)
            /\ ~ g.returned => c2 > d
    BY <1>2 DEF Further
  <2>2. ~ g.returned => c2 > c
    BY <2>1
  <2> QED BY <2>1, <2>2 DEF Further
<1> QED BY <1>1, <1>2

LEMMA HeadersCarry ==
    ASSUME NEW M, NEW p, NEW T, NEW S, NEW n, Sent(M, p, T, S, n), NEW g,
           NEW c \in Nat, Further(M, p, T, S, n, g, c)
    PROVE  Further(M, p, T, S, n, ExpectHeaders(g), c)
<1>1. n \in Nat
  BY SentIs
<1>2. CASE g.returned \/ g.status # "headers"
  <2>1. ExpectHeaders(g) = g
    BY <1>2 DEF ExpectHeaders
  <2> QED BY <2>1
<1>3. CASE ~ g.returned /\ g.status = "headers"
  <2>1. PICK j2 \in 1..Len(p) + 1, c2 \in 0..n :
            /\ Place(M, p, T, S, n, g, j2, c2)
            /\ ~ g.returned => c2 > c
    BY <1>3 DEF Further, Overflown
  <2>2. Further(M, p, T, S, n, ExpectHeaders(g), c2)
    BY <1>3, <2>1, FromHeaders
  <2> QED BY <1>1, <1>3, <2>1, <2>2, FurtherStill
<1> QED BY <1>2, <1>3

LEMMA BufferCarries ==
    ASSUME NEW M, NEW p, NEW T, NEW S, NEW n, Sent(M, p, T, S, n), NEW g,
           NEW c \in Nat, Further(M, p, T, S, n, g, c)
    PROVE  Further(M, p, T, S, n, ExpectBuffer(g), c)
<1>1. n \in Nat
  BY SentIs
<1>2. CASE g.returned \/ g.status # "buffer"
  <2>1. ExpectBuffer(g) = g
    BY <1>2 DEF ExpectBuffer
  <2> QED BY <2>1
<1>3. CASE ~ g.returned /\ g.status = "buffer"
  <2>1. PICK j2 \in 1..Len(p) + 1, c2 \in 0..n :
            /\ Place(M, p, T, S, n, g, j2, c2)
            /\ ~ g.returned => c2 > c
    BY <1>3 DEF Further, Overflown
  <2>2. Further(M, p, T, S, n, ExpectBuffer(g), c2)
    BY <1>3, <2>1, FromBuffer
  <2> QED BY <1>1, <1>3, <2>1, <2>2, FurtherStill
<1> QED BY <1>2, <1>3

LEMMA TurnGoesOn ==
    ASSUME NEW M, NEW p, NEW T, NEW S, NEW n, Sent(M, p, T, S, n), NEW f,
           NEW j, NEW c, Place(M, p, T, S, n, f, j, c), ~ f.returned
    PROVE  Further(M, p, T, S, n, Turn(f), c)
<1>1. n \in Nat /\ c \in Nat
  BY SentIs, PlaceData
<1>2. PICK g1 : g1 = Finish(f)
  OBVIOUS
<1>3. PICK g2 : g2 = ExpectBoundary(g1)
  OBVIOUS
<1>4. PICK g3 : g3 = ExpectHeaders(g2)
  OBVIOUS
<1>5. PICK g4 : g4 = ExpectBuffer(g3)
  OBVIOUS
<1>6. Turn(f) = g4
  BY <1>2, <1>3, <1>4, <1>5, Zenon DEF Turn
<1>7. g1 = f \/ (g1 = Return(f) /\ Stuck(p, S, n, f, j))
  BY <1>2, FinishIs
<1>8. CASE g1 = Return(f) /\ Stuck(p, S, n, f, j)
  <2>1. Further(M, p, T, S, n, g1, c)
    BY <1>8, Returns
  <2>2. g1.returned
    <3>1. IsForm(M, f)
      BY DEF Place
    <3> QED BY <1>8, <3>1, ReturnIs DEF Altered
  <2>3. g2 = g1
    BY <1>3, <2>2 DEF ExpectBoundary
  <2>4. g3 = g1
    BY <1>4, <2>2, <2>3 DEF ExpectHeaders
  <2>5. g4 = g1
    BY <1>5, <2>2, <2>4 DEF ExpectBuffer
  <2> QED BY <1>6, <2>1, <2>5
<1>9. CASE g1 = f
  <2>1. f.status = "boundary" \/ f.status = "headers" \/ f.status = "buffer"
    BY DEF Place, AtBoundary, BeforeHeader, InBuffer
  <2>2. CASE f.status = "boundary"
    <3>1. Further(M, p, T, S, n, g2, c)
      BY <1>3, <1>9, <2>2, FromBoundary
    <3>2. Further(M, p, T, S, n, g3, c)
      BY <1>1, <1>4, <3>1, HeadersCarry
    <3>3. Further(M, p, T, S, n, g4, c)
      BY <1>1, <1>5, <3>2, BufferCarries
    <3> QED BY <1>6, <3>3
  <2>3. CASE f.status = "headers"
    <3>1. g2 = f
      BY <1>3, <1>9, <2>3 DEF ExpectBoundary
    <3>2. Further(M, p, T, S, n, g3, c)
      BY <1>4, <2>3, <3>1, FromHeaders
    <3>3. Further(M, p, T, S, n, g4, c)
      BY <1>1, <1>5, <3>2, BufferCarries
    <3> QED BY <1>6, <3>3
  <2>4. CASE f.status = "buffer"
    <3>1. g2 = f
      BY <1>3, <1>9, <2>4 DEF ExpectBoundary
    <3>2. g3 = f
      BY <1>4, <2>4, <3>1 DEF ExpectHeaders
    <3>3. Further(M, p, T, S, n, g4, c)
      BY <1>5, <2>4, <3>2, FromBuffer
    <3> QED BY <1>6, <3>3
  <2> QED BY <2>1, <2>2, <2>3, <2>4
<1> QED BY <1>7, <1>8, <1>9

(* The turns are taken one by one. *)
Turns(g, f, n) ==
    /\ g[0] = f
    /\ \A i \in 1..n : g[i] = TurnUnlessReturned(g[i - 1], i)

LEMMA TurnsTaken ==
    ASSUME NEW q, NEW n \in Nat, DOMAIN q = 1..n, NEW s
    PROVE  \E f : /\ Turns(f, s, n)
                  /\ FoldLeftDomain(TurnUnlessReturned, s, q) = f[n]
<1> DEFINE Fine(k, g) ==
               g = [x \in SUBSET (1..k) |->
                       IF x = {} THEN s
                       ELSE TurnUnlessReturned(g[x \ {Max(x)}], Max(x))]
           D == {k \in 0..n : \E g : Fine(k, g)}
<1>1. 0 \in D
  <2> DEFINE g == [x \in SUBSET (1..0) |-> s]
  <2>1. 0 \in 0..n /\ \A x \in SUBSET (1..0) : x = {}
    OBVIOUS
  <2>2. Fine(0, g)
    BY <2>1
  <2> HIDE DEF g, Fine
  <2> QED BY <2>1, <2>2
<1>2. ASSUME NEW k \in 1..n, k - 1 \in D PROVE k \in D
  <2>1. PICK g : Fine(k - 1, g)
    BY <1>2
  <2> DEFINE h == [x \in SUBSET (1..k) |->
                      IF k \in x THEN TurnUnlessReturned(g[x \ {k}], k)
                      ELSE g[x]]
  <2>2. ASSUME NEW x \in SUBSET (1..k)
        PROVE  /\ x \ {k} \in SUBSET (1..k - 1)
               /\ k \notin x => x \in SUBSET (1..k - 1)
    OBVIOUS
  <2>3. ASSUME NEW x \in SUBSET (1..k)
        PROVE  h[x] = IF x = {} THEN s
                      ELSE TurnUnlessReturned(h[x \ {Max(x)}], Max(x))
    <3>1. k \in Nat
      OBVIOUS
    <3>2. ASSUME NEW y PROVE x \ {y} \in SUBSET (1..k)
      OBVIOUS
    <3>3. x # {} => Max(x) \in x /\ \A y \in x : y <= Max(x)
      BY <3>1, MaxExists
    <3>4. CASE k \in x
      <4>1. Max(x) = k
        <5>1. Max(x) \in 1..k /\ k <= Max(x)
          BY <3>3, <3>4
        <5> QED BY <5>1
      <4>2. h[x \ {k}] = g[x \ {k}]
        OBVIOUS
      <4>3. h[x] = TurnUnlessReturned(g[x \ {k}], k)
        BY <3>4
      <4> QED BY <3>4, <4>1, <4>2, <4>3
    <3>5. CASE k \notin x
      <4>1. x \in SUBSET (1..k - 1) /\ h[x] = g[x]
        BY <2>2, <3>5
      <4>2. h[x \ {Max(x)}] = g[x \ {Max(x)}]
        BY <3>2, <3>5
      <4>3. g[x] = IF x = {} THEN s
                   ELSE TurnUnlessReturned(g[x \ {Max(x)}], Max(x))
        BY <2>1, <4>1
      <4> QED BY <4>1, <4>2, <4>3
    <3> QED BY <3>4, <3>5
  <2>4. Fine(k, h)
    BY <2>3
  <2>5. k \in 0..n
    OBVIOUS
  <2> HIDE DEF h, Fine
  <2> QED BY <2>4, <2>5
<1>3. 0..n \subseteq D
  <2> HIDE DEF D
  <2> QED BY <1>1, <1>2, InductionTo
<1>4. \E g : Fine(n, g)
  <2>1. n \in 0..n
    OBVIOUS
  <2> HIDE DEF Fine
  <2> QED BY <1>3, <2>1
<1>5. PICK r : r = [i \in 1..n |-> i]
  OBVIOUS
<1>6. FoldLeftDomain(TurnUnlessReturned, s, q)
      = FoldLeft(TurnUnlessReturned, s, r)
  BY <1>5 DEF FoldLeftDomain
<1> DEFINE Good(g) ==
               g = [x \in SUBSET (1..n) |->
                       IF x = {} THEN s
                       ELSE TurnUnlessReturned(g[x \ {Max(x)}], r[Max(x)])]
<1>7. \A x \in SUBSET (1..n) : x # {} => r[Max(x)] = Max(x)
  <2>1. \A x \in SUBSET (1..n) : x # {} => Max(x) \in x
    BY MaxExists
  <2> QED BY <1>5, <2>1
<1>8. \A g : Good(g) <=> Fine(n, g)
  <2> SUFFICES ASSUME NEW g PROVE Good(g) <=> Fine(n, g)
    OBVIOUS
  <2>1. [x \in SUBSET (1..n) |->
            IF x = {} THEN s
            ELSE TurnUnlessReturned(g[x \ {Max(x)}], r[Max(x)])]
        = [x \in SUBSET (1..n) |->
              IF x = {} THEN s
              ELSE TurnUnlessReturned(g[x \ {Max(x)}], Max(x))]
    BY <1>7
  <2> QED BY <2>1
<1>9. Good(CHOOSE g : Good(g))
  <2> HIDE DEF Good, Fine
  <2> QED BY <1>4, <1>8
<1>10. FoldLeft(TurnUnlessReturned, s, r) = (CHOOSE g : Good(g))[1..n]
  <2>1. DOMAIN r = 1..n
    BY <1>5
  <2> QED BY <2>1 DEF FoldLeft, MapThenFoldSet
<1>11. PICK g : Fine(n, g) /\ FoldLeft(TurnUnlessReturned, s, r) = g[1..n]
  <2> HIDE DEF Good, Fine
  <2> QED BY <1>8, <1>9, <1>10
<1> DEFINE f == [i \in 0..n |-> g[1..i]]
<1>12. f[0] = s
  <2>1. 1..0 = {} /\ 0 \in 0..n /\ {} \in SUBSET (1..n)
    OBVIOUS
  <2>2. g[{}] = s
    BY <1>11, <2>1
  <2> QED BY <2>1, <2>2
<1>13. ASSUME NEW i \in 1..n PROVE f[i] = TurnUnlessReturned(f[i - 1], i)
  <2>1. /\ 1..i \in SUBSET (1..n) /\ 1..i # {}
        /\ Max(1..i) = i /\ (1..i) \ {i} = 1..i - 1
    BY FoldSteps
  <2>2. i \in 0..n /\ i - 1 \in 0..n
    OBVIOUS
  <2>3. g[1..i] = TurnUnlessReturned(g[1..i - 1], i)
    BY <1>11, <2>1
  <2> QED BY <2>2, <2>3
<1>14. f[n] = g[1..n]
  OBVIOUS
<1> HIDE DEF f, Fine
<1>15. Turns(f, s, n)
  BY <1>12, <1>13 DEF Turns
<1> QED BY <1>6, <1>11, <1>14, <1>15

(* After some turns the parser has come as far, or returned, or failed. *)
AsFar(M, p, T, S, n, g, d) ==
    \/ Overflown(p, g)
    \/ \E j2 \in 1..Len(p) + 1, c2 \in 0..n :
           /\ Place(M, p, T, S, n, g, j2, c2)
           /\ g.returned => Stuck(p, S, n, g, j2)
           /\ ~ g.returned => c2 >= d

LEMMA OneTurn ==
    ASSUME NEW M, NEW p, NEW T, NEW S, NEW n, Sent(M, p, T, S, n), NEW g,
           NEW i, NEW d \in Nat, AsFar(M, p, T, S, n, g, d)
    PROVE  AsFar(M, p, T, S, n, TurnUnlessReturned(g, i), d + 1)
<1>1. n \in Nat
  BY SentIs
<1>2. CASE g.returned
  <2>1. TurnUnlessReturned(g, i) = g
    BY <1>2 DEF TurnUnlessReturned
  <2>2. CASE Overflown(p, g)
    BY <2>1, <2>2 DEF AsFar
  <2>3. CASE ~ Overflown(p, g)
    <3>1. PICK j2 \in 1..Len(p) + 1, c2 \in 0..n :
              /\ Place(M, p, T, S, n, g, j2, c2)
              /\ Stuck(p, S, n, g, j2)
      BY <1>2, <2>3 DEF AsFar
    <3> QED BY <1>2, <2>1, <3>1 DEF AsFar
  <2> QED BY <2>2, <2>3
<1>3. CASE ~ g.returned
  <2>1. PICK t : t = TurnUnlessReturned(g, i)
    OBVIOUS
  <2>2. t = Turn(g)
    BY <1>3, <2>1 DEF TurnUnlessReturned
  <2>3. PICK j2 \in 1..Len(p) + 1, c2 \in 0..n :
            /\ Place(M, p, T, S, n, g, j2, c2)
            /\ c2 >= d
    BY <1>3 DEF AsFar, Overflown
  <2>4. Further(M, p, T, S, n, t, c2)
    BY <1>3, <2>2, <2>3, TurnGoesOn
  <2>5. CASE Overflown(p, t)
    BY <2>1, <2>5 DEF AsFar
  <2>6. CASE ~ Overflown(p, t)
    <3>1. PICK j3 \in 1..Len(p) + 1, c3 \in 0..n :
              /\ Place(M, p, T, S, n, t, j3, c3)
              /\ t.returned => Stuck(p, S, n, t, j3)
              /\ ~ t.returned => c3 > c2
      BY <2>4, <2>6 DEF Further
    <3>2. ~ t.returned => c3 >= d + 1
      BY <1>1, <2>3, <3>1
    <3> QED BY <2>1, <3>1, <3>2 DEF AsFar
  <2> QED BY <2>5, <2>6
<1> QED BY <1>2, <1>3

(* As many turns as there are data, and one, are enough. *)
LEMMA LoopEnds ==
    ASSUME NEW M, NEW p, NEW T, NEW S, NEW n, Sent(M, p, T, S, n), NEW f,
           NEW j, NEW c, Place(M, p, T, S, n, f, j, c), ~ f.returned,
           NEW q, DOMAIN q = 1..(n - c) + 1,
           NEW g, g = FoldLeftDomain(TurnUnlessReturned, f, q)
    PROVE  \/ Overflown(p, g)
           \/ \E j2, c2 : /\ Place(M, p, T, S, n, g, j2, c2)
                          /\ Stuck(p, S, n, g, j2)
<1>1. n \in Nat /\ c \in Nat /\ c <= n /\ j \in 1..Len(p) + 1 /\ c \in 0..n
  BY SentIs, PlaceData DEF Place
<1>2. PICK N \in Nat : N = (n - c) + 1
  BY <1>1
<1>3. PICK h : Turns(h, f, N) /\ g = h[N]
  BY <1>2, TurnsTaken
<1> DEFINE D == {i \in 0..N : AsFar(M, p, T, S, n, h[i], c + i)}
<1>4. 0 \in D
  <2>1. h[0] = f /\ c + 0 = c /\ 0 \in 0..N
    BY <1>1, <1>3 DEF Turns
  <2>2. AsFar(M, p, T, S, n, f, c)
    <3>1. c >= c
      BY <1>1
    <3> QED BY <1>1, <3>1 DEF AsFar
  <2> QED BY <2>1, <2>2
<1>5. ASSUME NEW i \in 1..N, i - 1 \in D PROVE i \in D
  <2>1. h[i] = TurnUnlessReturned(h[i - 1], i)
    BY <1>3 DEF Turns
  <2>2. AsFar(M, p, T, S, n, h[i - 1], c + (i - 1)) /\ c + (i - 1) \in Nat
    BY <1>1, <1>5
  <2>3. AsFar(M, p, T, S, n, h[i], (c + (i - 1)) + 1)
    BY <2>1, <2>2, OneTurn
  <2>4. (c + (i - 1)) + 1 = c + i /\ i \in 0..N
    BY <1>1
  <2> QED BY <2>3, <2>4
<1>6. 0..N \subseteq D
  <2> HIDE DEF D
  <2> QED BY <1>4, <1>5, InductionTo
<1>7. AsFar(M, p, T, S, n, g, n + 1)
  <2>1. N \in 0..N /\ c + N = n + 1
    BY <1>1, <1>2
  <2> QED BY <1>3, <1>6, <2>1
<1>8. CASE ~ Overflown(p, g)
  <2>1. PICK j2 \in 1..Len(p) + 1, c2 \in 0..n :
            /\ Place(M, p, T, S, n, g, j2, c2)
            /\ g.returned => Stuck(p, S, n, g, j2)
            /\ ~ g.returned => c2 >= n + 1
    BY <1>7, <1>8 DEF AsFar
  <2>2. g.returned
    BY <1>1, <2>1
  <2> QED BY <2>1, <2>2
<1> QED BY <1>8
-----------------------------------------------------------------------------
(* What a parser has of a form of which n symbols have arrived. *)
ParsedSoFar(M, p, f, n) ==
    \E S, j, c : /\ Sent(M, p, Encoded(p), S, n)
                 /\ Place(M, p, Encoded(p), S, n, f, j, c)
                 /\ Stuck(p, S, n, f, j)
Parsed(M, p, f, n) ==
    \/ p \in Seq(PartType(M)) /\ Overflown(p, f)
    \/ ParsedSoFar(M, p, f, n)

(* A form whose contents have no boundary. *)
IsFormOf(M, p) == Alphabet(M) /\ p \in Seq(PartType(M)) /\ Clean(p)

LEMMA ParsedType ==
    ASSUME NEW M, NEW p, NEW f, NEW n, Parsed(M, p, f, n)
    PROVE  f.error \in {"none", "AttributeError"} /\ f.hurt \in BOOLEAN
BY DEF Parsed, ParsedSoFar, Overflown, Place, IsForm

(* Nothing, at first. *)
LEMMA ParsedFirst ==
    ASSUME NEW M, NEW p, IsFormOf(M, p)
    PROVE  Parsed(M, p, NewForm, 0)
<1>1. PICK T : T = Encoded(p)
  OBVIOUS
<1>2. PICK S : Layout(M, p, T, S)
  BY <1>1, EncodedHasLayout DEF IsFormOf
<1>3. T \in Seq(M) /\ S[1] = 0 /\ p \in Seq(PartType(M))
  BY <1>2 DEF Layout
<1>4. 0 \in 0..Len(T) /\ 0 \in 0..0 /\ 1 \in 1..Len(p) + 1
  BY <1>3
<1>5. Sent(M, p, T, S, 0)
  BY <1>2, <1>4 DEF Sent, IsFormOf
<1>6. PICK f : f = NewForm
  OBVIOUS
<1>7. /\ f.data = <<>> /\ f.values = <<>> /\ f.status = "boundary"
      /\ f.returned = FALSE /\ f.error = "none" /\ f.hurt = FALSE
      /\ DOMAIN f = {"data", "values", "current", "status", "returned",
                     "error", "hurt"}
  BY <1>6 DEF NewForm
<1>8. Data(T, 0, 0) = <<>>
  <2>1. Data(T, 0, 0) \in Seq(M) /\ Len(Data(T, 0, 0)) = 0 - 0
    BY <1>3, <1>4, DataIs
  <2> QED BY <2>1
<1>9. IsForm(M, f)
  <2>1. <<>> \in Seq(M) /\ FALSE \in BOOLEAN
    OBVIOUS
  <2> QED BY <1>7, <2>1, Zenon DEF IsForm
<1>10. AtBoundary(p, S, f, 1, 0)
  <2>1. HasParts(<<>>, p, 0, p[0].content)
    <3>1. DOMAIN <<>> = NamesTo(p, 0)
      <4>1. NamesTo(p, 0) = {}
        BY DEF NamesTo
      <4>2. DOMAIN <<>> = {}
        OBVIOUS
      <4> QED BY <4>1, <4>2
    <3>2. 1..0 = {}
      OBVIOUS
    <3> QED BY <3>1, <3>2 DEF HasParts
  <2>2. Done(p, f, 1 - 1)
    BY <1>7, <2>1 DEF Done
  <2> QED BY <1>3, <1>7, <2>2 DEF AtBoundary
<1>11. Place(M, p, T, S, 0, f, 1, 0)
  BY <1>4, <1>7, <1>8, <1>9, <1>10 DEF Place
<1>12. Stuck(p, S, 0, f, 1)
  BY <1>3, <1>7 DEF Stuck
<1> QED BY <1>1, <1>5, <1>6, <1>11, <1>12 DEF Parsed, ParsedSoFar

(* A text that is fed to it is parsed with what came before. *)
LEMMA ParsedFurther ==
    ASSUME NEW M, NEW p, NEW f, NEW n, ParsedSoFar(M, p, f, n),
           NEW m \in n..Len(Encoded(p))
    PROVE  Parsed(M, p, Feed(f, SubSeq(Encoded(p), n + 1, m)), m)
<1>1. PICK T : T = Encoded(p)
  OBVIOUS
<1>2. PICK S, j, c : /\ Sent(M, p, T, S, n)
                     /\ Place(M, p, T, S, n, f, j, c)
                     /\ Stuck(p, S, n, f, j)
  BY <1>1 DEF ParsedSoFar
<1>3. /\ T \in Seq(M) /\ n \in Nat /\ Len(T) \in Nat /\ n <= Len(T)
      /\ Alphabet(M)
  BY <1>2, SentIs
<1>4. /\ IsForm(M, f) /\ j \in 1..Len(p) + 1 /\ c \in Nat /\ c <= n
      /\ f.data = Data(T, c, n)
  BY <1>2, PlaceData DEF Place
<1>5. /\ m \in Nat /\ m \in 0..Len(T) /\ n \in 0..m /\ c \in 0..n
      /\ c \in 0..m /\ m - c \in Nat
  BY <1>1, <1>3, <1>4
<1>6. Sent(M, p, T, S, m)
  BY <1>2, <1>5 DEF Sent
<1>7. f.data \o SubSeq(T, n + 1, m) = Data(T, c, m)
  <2>1. Data(T, c, n) \o Data(T, n, m) = Data(T, c, m)
    BY <1>3, <1>5, DataGrows
  <2> QED BY <1>4, <2>1 DEF Data
<1>8. PICK d : d = Data(T, c, m)
  OBVIOUS
<1>9. d \in Seq(M) /\ Len(d) = m - c
  BY <1>3, <1>5, <1>8, DataIs
<1>10. PICK f1 : f1 = [f EXCEPT !.data = d, !.returned = FALSE]
  OBVIOUS
<1>11. PICK q : q = Append(d, "LF")
  OBVIOUS
<1>12. PICK g : g = Feed(f, SubSeq(T, n + 1, m))
  OBVIOUS
<1>13. g = FoldLeftDomain(TurnUnlessReturned, f1, q)
  <2>1. ~(f.error # "none")
    BY <1>4 DEF IsForm
  <2> QED BY <1>7, <1>8, <1>10, <1>11, <1>12, <2>1 DEF Feed
<1>14. DOMAIN q = 1..(m - c) + 1
  <2>1. "LF" \in M
    BY <1>3 DEF Alphabet
  <2>2. q \in Seq(M) /\ Len(q) = Len(d) + 1
    BY <1>9, <1>11, <2>1
  <2> QED BY <1>9, <2>2
<1>15. Altered(f, f1, d, f.status, f.current, f.values, f.hurt, FALSE)
  BY <1>4, <1>10 DEF Altered, IsForm
<1>16. IsForm(M, f1)
  BY <1>4, <1>9, <1>15 DEF IsForm, Altered
<1>17. Place(M, p, T, S, m, f1, j, c)
  <2>1. /\ f1.status = f.status /\ f1.values = f.values /\ f1.data = d
        /\ f1.current = f.current /\ f1.hurt = f.hurt
    BY <1>15 DEF Altered
  <2>2. AtBoundary(p, S, f, j, c) => AtBoundary(p, S, f1, j, c)
    BY <2>1, Zenon DEF AtBoundary, Done
  <2>3. BeforeHeader(p, S, f, j, c) => BeforeHeader(p, S, f1, j, c)
    BY <2>1, Zenon DEF BeforeHeader, Done
  <2>4. InBuffer(p, T, S, f, j, c) => InBuffer(p, T, S, f1, j, c)
    BY <2>1, Zenon DEF InBuffer
  <2>5. AtBoundary(p, S, f, j, c) \/ BeforeHeader(p, S, f, j, c)
            \/ InBuffer(p, T, S, f, j, c)
    BY <1>2 DEF Place
  <2> QED BY <1>4, <1>5, <1>8, <1>16, <2>1, <2>2, <2>3, <2>4, <2>5, Zenon
          DEF Place
<1>18. ~ f1.returned
  BY <1>15 DEF Altered
<1>19. \/ Overflown(p, g)
       \/ \E j2, c2 : Place(M, p, T, S, m, g, j2, c2) /\ Stuck(p, S, m, g, j2)
  BY <1>6, <1>13, <1>14, <1>17, <1>18, LoopEnds
<1>20. p \in Seq(PartType(M))
  BY <1>2 DEF Sent, Layout
<1> QED BY <1>1, <1>6, <1>12, <1>19, <1>20 DEF Parsed, ParsedSoFar

LEMMA ParsedFeed ==
    ASSUME NEW M, NEW p, NEW f, NEW n, Parsed(M, p, f, n),
           NEW m \in n..Len(Encoded(p))
    PROVE  Parsed(M, p, Feed(f, SubSeq(Encoded(p), n + 1, m)), m)
<1>1. CASE ParsedSoFar(M, p, f, n)
  BY <1>1, ParsedFurther
<1>2. CASE p \in Seq(PartType(M)) /\ Overflown(p, f)
  <2>1. Feed(f, SubSeq(Encoded(p), n + 1, m)) = f
    BY <1>2 DEF Feed, Overflown
  <2> QED BY <1>2, <2>1 DEF Parsed
<1> QED BY <1>1, <1>2 DEF Parsed

(* Once all of it has arrived, the parser expects what follows the last    *)
(* boundary, and has all parts.                                            *)
LEMMA ParsedAll ==
    ASSUME NEW M, NEW p, NEW f, ParsedSoFar(M, p, f, Len(Encoded(p)))
    PROVE  ~ f.hurt => HasParts(f.values, p, Len(p), p[Len(p)].content)
<1>1. PICK T, n : T = Encoded(p) /\ n = Len(T)
  OBVIOUS
<1>2. PICK S, j, c : /\ Sent(M, p, T, S, n)
                     /\ Place(M, p, T, S, n, f, j, c)
                     /\ Stuck(p, S, n, f, j)
  BY <1>1 DEF ParsedSoFar
<1>3. n \in Nat /\ Len(p) \in Nat
  BY <1>1, <1>2, SentIs
<1>4. PICK N \in Nat : N = Len(p)
  BY <1>3
<1>5. j \in 1..N + 1
  BY <1>2, <1>4 DEF Place
<1>6. S[j] \in Nat /\ S[j] + 3 <= n
  BY <1>1, <1>2, <1>4, <1>5, BoundariesAre DEF Sent
<1>7. ASSUME j <= N
      PROVE  /\ S[j + 1] \in Nat /\ S[j + 1] + 3 <= n
             /\ S[j] + 11 <= S[j + 1]
  <2>1. j \in 1..Len(p)
    BY <1>4, <1>5, <1>7
  <2>2. /\ S[j + 1] \in Nat /\ Len(p[j].content) \in Nat
        /\ S[j + 1] = S[j] + 11 + Len(p[j].content)
        /\ S[j + 1] + 3 <= Len(T)
    BY <1>2, <2>1, PartsAre DEF Sent
  <2>3. PICK a \in Nat, b \in Nat, k \in Nat :
            a = S[j] /\ b = S[j + 1] /\ k = Len(p[j].content)
    BY <1>6, <2>2
  <2>4. b = a + 11 + k
    BY <2>2, <2>3
  <2>5. a + 11 <= b
    BY <2>4
  <2> QED BY <1>1, <2>2, <2>3, <2>5
<1>8. f.status # "boundary"
  <2>1. f.status = "boundary" => n < S[j] + 2
    BY <1>2 DEF Stuck
  <2> QED BY <1>3, <1>6, <2>1
<1>9. ~ InBuffer(p, T, S, f, j, c)
  <2> SUFFICES ASSUME InBuffer(p, T, S, f, j, c) PROVE FALSE
    OBVIOUS
  <2>1. j <= N /\ n < S[j + 1] + 2
    BY <1>2, <1>4 DEF Stuck, InBuffer
  <2> QED BY <1>3, <1>7, <2>1
<1>10. BeforeHeader(p, S, f, j, c)
  BY <1>2, <1>8, <1>9 DEF Place, AtBoundary
<1>11. j = N + 1
  <2> SUFFICES ASSUME j <= N PROVE FALSE
    BY <1>5
  <2>1. n < S[j] + 9
    BY <1>2, <1>4, <1>10 DEF Stuck, BeforeHeader
  <2> QED BY <1>3, <1>6, <1>7, <2>1
<1>12. Done(p, f, N)
  <2>1. Done(p, f, j - 1) /\ j - 1 = N
    BY <1>10, <1>11 DEF BeforeHeader
  <2> QED BY <2>1
<1> QED BY <1>4, <1>12 DEF Done

(* The last part of a name. *)
LastPart(p, x) ==
    LET I == {i \in 1..Len(p) : NameOf(p[i]) = x}
    IN  IF I # {} THEN Max(I) ELSE 0

LEMMA LastPartIs ==
    ASSUME NEW p, NEW N \in Nat, N = Len(p), NEW x \in NamesTo(p, N)
    PROVE  /\ LastPart(p, x) \in 1..N /\ NameOf(p[LastPart(p, x)]) = x
           /\ LastOfName(p, N, LastPart(p, x))
<1>1. PICK I : I = {i \in 1..N : NameOf(p[i]) = x}
  OBVIOUS
<1>2. I \in SUBSET (1..N) /\ I # {}
  BY <1>1 DEF NamesTo
<1>3. Max(I) \in I /\ \A y \in I : y <= Max(I)
  BY <1>2, MaxExists
<1>4. PICK m : m = Max(I)
  OBVIOUS
<1>5. LastPart(p, x) = m
  BY <1>1, <1>2, <1>4 DEF LastPart
<1>6. m \in 1..N /\ NameOf(p[m]) = x
  BY <1>1, <1>3, <1>4
<1>7. ASSUME NEW k \in m + 1..N PROVE NameOf(p[k]) # NameOf(p[m])
  <2>1. k \in 1..N /\ ~(k <= m)
    BY <1>6
  <2>2. k \notin I
    BY <1>3, <1>4, <2>1
  <2> QED BY <1>1, <1>6, <2>1, <2>2
<1> QED BY <1>5, <1>6, <1>7 DEF LastOfName

ExpectedOf(q) ==
    [file |-> Disposition[q.header].file, content |-> q.content]

LEMMA ExpectedIs ==
    ASSUME NEW M, NEW r \in Seq(PartType(M))
    PROVE  Expected(r) = [x \in NamesTo(r, Len(r)) |->
                             ExpectedOf(r[LastPart(r, x)])]
<1>1. {Disposition[r[i].header].name : i \in DOMAIN r} = NamesTo(r, Len(r))
  <2>1. DOMAIN r = 1..Len(r)
    OBVIOUS
  <2> QED BY <2>1 DEF NamesTo, NameOf
<1>2. Expected(r)
      = [x \in {Disposition[r[i].header].name : i \in DOMAIN r} |->
            ExpectedOf(r[LastPart(r, x)])]
  BY Zenon DEF Expected, SelectLastInSeq, LastPart, NameOf, ExpectedOf
<1> QED BY <1>1, <1>2

ConsumedOf(v) == [file |-> v.file, content |-> v.buffer]

LEMMA ConsumedIs ==
    ASSUME NEW q, NEW v, v = FileOf(q.header, q.content)
    PROVE  ConsumedOf(v) = ExpectedOf(q)
BY DEF FileOf, ConsumedOf, ExpectedOf

(* A form whose parts fit into memory is parsed to its fields and files,   *)
(* unless it is hurt.                                                      *)
LEMMA ParsedWhole ==
    ASSUME NEW M, NEW p, NEW f, ParsedSoFar(M, p, f, Len(Encoded(p))),
           ~ f.hurt
    PROVE  /\ f.error = "none" /\ Consume(f) = Expected(p)
           /\ \A i \in 1..Len(p) : InMemory(p[i].content)
<1>1. p \in Seq(PartType(M)) /\ f.error = "none"
  BY DEF ParsedSoFar, Sent, Layout, Place, IsForm
<1>2. PICK N \in Nat : N = Len(p)
  BY <1>1
<1>3. HasParts(f.values, p, N, p[N].content)
  BY <1>2, ParsedAll
<1>4. PICK v : v = f.values
  OBVIOUS
<1>5. DOMAIN v = NamesTo(p, N)
  BY <1>3, <1>4 DEF HasParts
<1>6. ASSUME NEW x \in NamesTo(p, N)
      PROVE  ConsumedOf(v[x]) = ExpectedOf(p[LastPart(p, x)])
  <2>1. PICK i : i = LastPart(p, x)
    OBVIOUS
  <2>2. i \in 1..N /\ NameOf(p[i]) = x /\ LastOfName(p, N, i)
    BY <1>2, <2>1, LastPartIs
  <2>3. v[x] = FileOf(p[i].header, p[i].content)
    BY <1>3, <1>4, <2>2 DEF HasParts
  <2> QED BY <2>1, <2>3, ConsumedIs
<1>7. Consume(f) = [x \in NamesTo(p, N) |-> ConsumedOf(v[x])]
  BY <1>4, <1>5, Zenon DEF Consume, ConsumedOf
<1>8. Expected(p) = [x \in NamesTo(p, N) |-> ExpectedOf(p[LastPart(p, x)])]
  BY <1>1, <1>2, ExpectedIs
<1>9. ASSUME NEW i \in 1..N PROVE InMemory(p[i].content)
  <2>1. InMemory(IF i = N THEN p[N].content ELSE p[i].content)
    BY <1>3 DEF HasParts
  <2>2. (IF i = N THEN p[N].content ELSE p[i].content) = p[i].content
    OBVIOUS
  <2> QED BY <2>1, <2>2
<1> QED BY <1>1, <1>2, <1>6, <1>7, <1>8, <1>9

(* Else it fails. *)
LEMMA ParsedLast ==
    ASSUME NEW M, NEW p, NEW f, Parsed(M, p, f, Len(Encoded(p))), ~ f.hurt
    PROVE  IF AllFit(p) THEN f.error = "none" /\ Consume(f) = Expected(p)
           ELSE f.error = "AttributeError"
<1>1. p \in Seq(PartType(M))
  BY DEF Parsed, ParsedSoFar, Sent, Layout
<1>2. AllFit(p) <=> \A i \in 1..Len(p) : InMemory(p[i].content)
  <2>1. DOMAIN p = 1..Len(p)
    BY <1>1
  <2> QED BY <2>1 DEF AllFit, InMemory
<1>3. CASE Overflown(p, f)
  BY <1>2, <1>3 DEF Overflown
<1>4. CASE ParsedSoFar(M, p, f, Len(Encoded(p)))
  BY <1>2, <1>4, ParsedWhole
<1> QED BY <1>3, <1>4 DEF Parsed
=============================================================================
