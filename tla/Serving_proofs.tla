--------------------------- MODULE Serving_proofs ---------------------------
(***************************************************************************)
(* Theorems about Serving for every application, every sequence of         *)
(* requests and every size of the route cache.  The invariant has a part   *)
(* for each step of the way from a call that builds the application to an  *)
(* answer: TreeInv, the tree of blueprints; CacheInv and TablesInv, what   *)
(* the router knows; HooksPlaced, where hooks are called from; GuardInv,   *)
(* which of them a request still has to run; and AnswersInv, the answers   *)
(* to exceptions.  OwnInv, about components, stands for itself.            *)
(***************************************************************************)
EXTENDS Serving, SequencesExt, WellFoundedInduction, FiniteSetTheorems,
        TLAPS
-----------------------------------------------------------------------------
(* Induction and folds.  A property of the numbers up to a bound is a set  *)
(* of numbers here, since no lemma may have a parameter that is an         *)
(* operator; the function that a fold or a recursion computes is shown to  *)
(* exist, so that its CHOOSE has the defining equation.                    *)
Less == {p \in Nat \X Nat : p[1] < p[2]}

(* Every set of numbers has a least one. *)
LEMMA LessIsWellFounded == IsWellFoundedOn(Less, Nat)
<1>1. Less = OpToRel(<, Nat)
  BY DEF Less, OpToRel
<1> QED BY <1>1, NatLessThanWellFounded

(* Induction: a set with 0 and with the successors of its elements.        *)
LEMMA Induction ==
    ASSUME NEW T, T \subseteq Nat, 0 \in T, \A n \in T : n + 1 \in T
    PROVE  T = Nat
<1> DEFINE U == Nat \ T
<1> SUFFICES ASSUME U # {} PROVE FALSE
  OBVIOUS
<1>1. PICK x \in U : \A y \in U : ~ (<<y, x>> \in Less)
  <2>1. U \subseteq Nat
    OBVIOUS
  <2> HIDE DEF U
  <2> QED BY <2>1, WFMin, LessIsWellFounded
<1>2. x \in Nat /\ x # 0
  OBVIOUS
<1>3. x - 1 \in Nat /\ <<x - 1, x>> \in Less
  BY <1>2 DEF Less
<1>4. x - 1 \in T
  BY <1>1, <1>3
<1>5. (x - 1) + 1 = x
  BY <1>2
<1> QED BY <1>4, <1>5

(* The same up to a bound. *)
LEMMA InductionTo ==
    ASSUME NEW k \in Nat, NEW T, 0 \in T,
           \A n \in 1..k : n - 1 \in T => n \in T
    PROVE  0..k \subseteq T
<1> DEFINE U == {n \in Nat : n \in 0..k => n \in T}
<1>1. U \subseteq Nat /\ 0 \in U
  OBVIOUS
<1>2. ASSUME NEW n \in U PROVE n + 1 \in U
  <2>1. n \in Nat
    OBVIOUS
  <2>2. CASE n + 1 \in 0..k
    <3>1. n \in 0..k /\ n + 1 \in 1..k /\ (n + 1) - 1 = n
      BY <2>1, <2>2
    <3>2. n \in T
      BY <3>1, <1>2
    <3>3. n + 1 \in T
      BY <3>1, <3>2
    <3> QED BY <2>1, <3>3
  <2> QED BY <2>1, <2>2
<1>3. U = Nat
  <2> HIDE DEF U
  <2> QED BY <1>1, <1>2, Induction
<1> QED BY <1>3

-----------------------------------------------------------------------------
(* The largest of some numbers up to a bound is one of them. *)
LEMMA MaxExists ==
    ASSUME NEW k \in Nat
    PROVE  \A x \in SUBSET (1..k) : x # {} =>
               Max(x) \in x /\ \A y \in x : y <= Max(x)
<1> DEFINE T == {n \in Nat : \A x \in SUBSET (1..n) : x # {} =>
                    \E m \in x : \A y \in x : m >= y}
<1>1. 0 \in T
  <2>1. \A x \in SUBSET (1..0) : x = {}
    OBVIOUS
  <2> QED BY <2>1
<1>2. ASSUME NEW n \in T PROVE n + 1 \in T
  <2> SUFFICES ASSUME NEW x \in SUBSET (1..n + 1), x # {}
               PROVE  \E m \in x : \A y \in x : m >= y
    OBVIOUS
  <2>1. CASE n + 1 \in x
    BY <2>1
  <2>2. CASE n + 1 \notin x
    <3>1. x \in SUBSET (1..n)
      BY <2>2
    <3> QED BY <3>1
  <2> QED BY <2>1, <2>2
<1>3. T = Nat
  <2> HIDE DEF T
  <2>1. T \subseteq Nat
    BY DEF T
  <2> QED BY <1>1, <1>2, <2>1, Induction
<1>4. \A x \in SUBSET (1..k) : x # {} => \E m \in x : \A y \in x : m >= y
  BY <1>3
<1> SUFFICES ASSUME NEW x \in SUBSET (1..k), x # {}
             PROVE  Max(x) \in x /\ \A y \in x : y <= Max(x)
  OBVIOUS
<1>5. Max(x) \in x /\ \A y \in x : Max(x) >= y
  BY <1>4 DEF Max
<1>6. \A y \in x : y \in Nat
  OBVIOUS
<1> QED BY <1>5, <1>6

(* The largest of all numbers up to a bound is the bound. *)
LEMMA MaxOfAll ==
    ASSUME NEW k \in Nat, k # 0
    PROVE  Max(1..k) = k /\ (1..k) \ {k} = 1..k - 1
<1>1. 1..k \in SUBSET (1..k) /\ k \in 1..k
  OBVIOUS
<1>2. Max(1..k) \in 1..k /\ \A y \in 1..k : y <= Max(1..k)
  BY <1>1, MaxExists
<1>3. Max(1..k) = k
  BY <1>1, <1>2
<1>4. (1..k) \ {k} = 1..k - 1
  OBVIOUS
<1> QED BY <1>3, <1>4

(* The steps 1..k of a computation with results in S. *)
IsStep(step, k, S) == \A i \in 1..k, s \in S : step[i][s] \in S

(* g is the function by which MapThenFoldSet() folds: on the empty set it  *)
(* is the base, on others it makes a step from the set without its largest *)
(* number.                                                                 *)
FoldsBy(g, k, S, base, step) ==
    \A x \in SUBSET (1..k) :
        /\ g[x] \in S
        /\ g[x] = IF x = {} THEN base ELSE step[Max(x)][g[x \ {Max(x)}]]

(* Such a function exists. *)
LEMMA FoldExists ==
    ASSUME NEW k \in Nat, NEW S, NEW base \in S, NEW step,
           IsStep(step, k, S)
    PROVE  \E g : FoldsBy(g, k, S, base, step)
<1> DEFINE Good(n, g) == FoldsBy(g, n, S, base, step)
           T == {n \in 0..k : \E g : Good(n, g)}
<1>1. 0 \in T
  <2> DEFINE g == [x \in SUBSET (1..0) |-> base]
  <2>1. 0 \in 0..k /\ \A x \in SUBSET (1..0) : x = {}
    OBVIOUS
  <2>2. Good(0, g)
    BY <2>1 DEF FoldsBy
  <2> HIDE DEF g, Good
  <2> QED BY <2>1, <2>2
<1>2. ASSUME NEW n \in 1..k, n - 1 \in T PROVE n \in T
  <2>1. PICK g : Good(n - 1, g)
    BY <1>2
  <2> DEFINE h == [x \in SUBSET (1..n) |->
                      IF n \in x THEN step[n][g[x \ {n}]] ELSE g[x]]
  <2>2. ASSUME NEW x \in SUBSET (1..n)
        PROVE  /\ x \ {n} \in SUBSET (1..n - 1)
               /\ n \notin x => x \in SUBSET (1..n - 1)
    OBVIOUS
  <2>3. ASSUME NEW x \in SUBSET (1..n) PROVE h[x] \in S
    <3>1. CASE n \in x
      BY <2>1, <2>2, <3>1 DEF FoldsBy, IsStep
    <3>2. CASE n \notin x
      BY <2>1, <2>2, <3>2 DEF FoldsBy
    <3> QED BY <3>1, <3>2
  <2>4. ASSUME NEW x \in SUBSET (1..n)
        PROVE  h[x] = IF x = {} THEN base
                      ELSE step[Max(x)][h[x \ {Max(x)}]]
    <3>0. n \in Nat
      OBVIOUS
    <3>4. ASSUME NEW m PROVE x \ {m} \in SUBSET (1..n)
      OBVIOUS
    <3>1. x # {} => Max(x) \in x /\ \A y \in x : y <= Max(x)
      BY <3>0, MaxExists
    <3>2. CASE n \in x
      <4>1. Max(x) = n
        <5>1. Max(x) \in 1..n /\ n <= Max(x)
          BY <3>1, <3>2
        <5> QED BY <5>1
      <4>2. h[x \ {n}] = g[x \ {n}]
        OBVIOUS
      <4>3. h[x] = step[n][g[x \ {n}]]
        BY <3>2
      <4> QED BY <3>2, <4>1, <4>2, <4>3
    <3>3. CASE n \notin x
      <4>1. x \in SUBSET (1..n - 1) /\ h[x] = g[x]
        BY <2>2, <3>3
      <4>2. h[x \ {Max(x)}] = g[x \ {Max(x)}]
        BY <3>3, <3>4
      <4>3. g[x] = IF x = {} THEN base ELSE step[Max(x)][g[x \ {Max(x)}]]
        BY <2>1, <4>1 DEF FoldsBy
      <4> QED BY <4>1, <4>2, <4>3
    <3> QED BY <3>2, <3>3
  <2>5. Good(n, h)
    BY <2>3, <2>4 DEF FoldsBy
  <2>6. n \in 0..k
    OBVIOUS
  <2> HIDE DEF h, Good
  <2> QED BY <2>5, <2>6
<1>3. 0..k \subseteq T
  <2> HIDE DEF T
  <2> QED BY <1>1, <1>2, InductionTo
<1>4. k \in T
  <2>1. k \in 0..k
    OBVIOUS
  <2> HIDE DEF T
  <2> QED BY <1>3, <2>1
<1> QED BY <1>4

(* A function with that equation goes through the numbers one by one.      *)
LEMMA FoldSteps ==
    ASSUME NEW k \in Nat, NEW i \in 1..k
    PROVE  /\ 1..i \in SUBSET (1..k) /\ 1..i # {} /\ 1..0 = {}
           /\ Max(1..i) = i /\ (1..i) \ {i} = 1..i - 1
<1>1. i \in Nat /\ i # 0
  OBVIOUS
<1>2. Max(1..i) = i /\ (1..i) \ {i} = 1..i - 1
  BY <1>1, MaxOfAll
<1>3. 1..i \in SUBSET (1..k) /\ i \in 1..i /\ 1..0 = {}
  OBVIOUS
<1> QED BY <1>2, <1>3

-----------------------------------------------------------------------------
(* The least of some numbers is one of them. *)
LEMMA MinExists ==
    ASSUME NEW x, x \subseteq Nat, x # {}
    PROVE  Min(x) \in x /\ \A y \in x : Min(x) <= y
<1>1. PICK m \in x : \A y \in x : ~ (<<y, m>> \in Less)
  BY WFMin, LessIsWellFounded
<1>2. ASSUME NEW y \in x PROVE m <= y
  <2>1. y \in Nat /\ m \in Nat
    OBVIOUS
  <2>2. ~(y < m)
    BY <1>1, <2>1 DEF Less
  <2> QED BY <2>1, <2>2
<1> QED BY <1>2 DEF Min

(* f recurs over the numbers up to a bound. *)
Recurs(f, k, S, base, step) ==
    /\ f[0] = base
    /\ \A i \in 0..k : f[i] \in S
    /\ \A i \in 1..k : f[i] = step[i][f[i - 1]]

(* Such a function exists. *)
LEMMA Recursion ==
    ASSUME NEW k \in Nat, NEW S, NEW base \in S, NEW step,
           IsStep(step, k, S)
    PROVE  \E f : Recurs(f, k, S, base, step)
<1>1. PICK g : FoldsBy(g, k, S, base, step)
  BY FoldExists
<1> DEFINE f == [i \in 0..k |-> g[1..i]]
<1>2. \A i \in 0..k : f[i] \in S
  <2>1. \A i \in 0..k : 1..i \in SUBSET (1..k)
    OBVIOUS
  <2> QED BY <1>1, <2>1 DEF FoldsBy
<1>3. f[0] = base
  <2>1. 1..0 = {} /\ 0 \in 0..k /\ {} \in SUBSET (1..k)
    OBVIOUS
  <2>2. g[{}] = base
    BY <1>1, <2>1 DEF FoldsBy
  <2> QED BY <2>1, <2>2
<1>4. ASSUME NEW i \in 1..k PROVE f[i] = step[i][f[i - 1]]
  <2>1. /\ 1..i \in SUBSET (1..k) /\ 1..i # {}
        /\ Max(1..i) = i /\ (1..i) \ {i} = 1..i - 1
    BY FoldSteps
  <2>2. i \in 0..k /\ i - 1 \in 0..k
    OBVIOUS
  <2>3. g[1..i] = step[i][g[1..i - 1]]
    BY <1>1, <2>1 DEF FoldsBy
  <2> QED BY <2>2, <2>3
<1>5. Recurs(f, k, S, base, step)
  BY <1>2, <1>3, <1>4 DEF Recurs
<1> QED BY <1>5

(* f joins sequences over S one by one. *)
Joins(f, q, n, S) ==
    /\ \A i \in 1..n : f[i] \in Seq(S)
    /\ f[1] = q[1]
    /\ \A i \in 2..n : f[i] = f[i - 1] \o q[i]

(* FlattenSeq() does. *)
LEMMA FlattenSteps ==
    ASSUME NEW S, NEW q \in Seq(Seq(S)), NEW n \in Nat, n = Len(q), n # 0
    PROVE  \E f : Joins(f, q, n, S) /\ FlattenSeq(q) = f[n]
<1>0. DOMAIN q = 1..n /\ \A i \in 1..n : q[i] \in Seq(S)
  OBVIOUS
<1> DEFINE step == [i \in 1..n |-> [s \in Seq(S) |-> s \o q[i]]]
           Good(f) == f = [i \in 1..n |->
                              IF i = 1 THEN q[i] ELSE f[i - 1] \o q[i]]
<1>1. IsStep(step, n, Seq(S))
  BY <1>0 DEF IsStep
<1>2. <<>> \in Seq(S)
  OBVIOUS
<1>3. PICK f : Recurs(f, n, Seq(S), <<>>, step)
  <2> HIDE DEF step
  <2> QED BY <1>1, <1>2, Recursion
<1>4. ASSUME NEW i \in 1..n PROVE f[i] = f[i - 1] \o q[i] /\ f[i] \in Seq(S)
  <2>1. i - 1 \in 0..n /\ i \in 0..n
    OBVIOUS
  <2> QED BY <1>3, <2>1 DEF Recurs
<1> DEFINE g == [i \in 1..n |-> f[i]]
<1>5. Good(g)
  <2> SUFFICES ASSUME NEW i \in 1..n
               PROVE  g[i] = IF i = 1 THEN q[i] ELSE g[i - 1] \o q[i]
    OBVIOUS
  <2>1. CASE i = 1
    <3>1. f[1] = f[0] \o q[1] /\ f[0] = <<>>
      <4>1. 1 \in 1..n /\ 1 - 1 = 0
        OBVIOUS
      <4> QED BY <1>3, <1>4, <4>1 DEF Recurs
    <3>2. q[1] \in Seq(S)
      BY <1>0, <2>1
    <3> QED BY <2>1, <3>1, <3>2
  <2>2. CASE i # 1
    <3>1. i - 1 \in 1..n
      BY <2>2
    <3> QED BY <1>4, <2>2, <3>1
  <2> QED BY <2>1, <2>2
<1>6. Good(CHOOSE h : Good(h))
  BY <1>5
<1>7. FlattenSeq(q) = (CHOOSE h : Good(h))[n]
  BY DEF FlattenSeq
<1>8. PICK h : Good(h) /\ FlattenSeq(q) = h[n]
  <2> HIDE DEF Good
  <2> QED BY <1>6, <1>7
<1>9. \A i \in 1..n : h[i] = IF i = 1 THEN q[i] ELSE h[i - 1] \o q[i]
  BY <1>8
<1>10. \A i \in 1..n : h[i] \in Seq(S)
  <2> DEFINE T == {i \in 0..n : i \in 1..n => h[i] \in Seq(S)}
  <2>1. 0 \in T
    OBVIOUS
  <2>2. ASSUME NEW i \in 1..n, i - 1 \in T PROVE i \in T
    <3>1. CASE i = 1
      <4>1. h[i] = q[i]
        BY <1>9, <3>1
      <4> QED BY <1>0, <4>1
    <3>2. CASE i # 1
      <4>1. i - 1 \in 1..n /\ h[i - 1] \in Seq(S)
        BY <2>2, <3>2
      <4>2. h[i] = h[i - 1] \o q[i] /\ q[i] \in Seq(S)
        BY <1>0, <1>9, <3>2
      <4>3. h[i] \in Seq(S) /\ i \in 0..n
        BY <4>1, <4>2
      <4> QED BY <4>3
    <3> QED BY <3>1, <3>2
  <2>3. 0..n \subseteq T
    <3> HIDE DEF T
    <3> QED BY <2>1, <2>2, InductionTo
  <2>4. \A i \in 1..n : i \in 0..n
    OBVIOUS
  <2> QED BY <2>3, <2>4
<1>11. h[1] = q[1] /\ \A i \in 2..n : h[i] = h[i - 1] \o q[i]
  <2>1. 1 \in 1..n /\ \A i \in 2..n : i \in 1..n /\ i # 1
    OBVIOUS
  <2> QED BY <1>9, <2>1
<1>12. Joins(h, q, n, S)
  BY <1>10, <1>11 DEF Joins
<1> QED BY <1>8, <1>12

(* So it keeps the type of the elements. *)
LEMMA FlattenType ==
    ASSUME NEW S, NEW q \in Seq(Seq(S))
    PROVE  FlattenSeq(q) \in Seq(S)
<1>1. CASE Len(q) = 0
  <2>1. FlattenSeq(q) = q
    BY <1>1 DEF FlattenSeq
  <2>2. q = <<>>
    BY <1>1
  <2> QED BY <2>1, <2>2
<1>2. CASE Len(q) # 0
  <2>1. PICK n : n = Len(q)
    OBVIOUS
  <2>2. n \in Nat /\ n # 0 /\ n \in 1..n
    BY <1>2, <2>1
  <2>3. PICK f : Joins(f, q, n, S) /\ FlattenSeq(q) = f[n]
    BY <2>1, <2>2, FlattenSteps
  <2> QED BY <2>2, <2>3 DEF Joins
<1> QED BY <1>1, <1>2

-----------------------------------------------------------------------------
(* The route cache. *)

(* Two requests with the same key find the same route: a key leaves out    *)
(* nothing that the lookup depends on.                                     *)
LEMMA KeyDecides ==
    ASSUME NEW t, NEW p, NEW q, KeyOf(t, p) = KeyOf(t, q)
    PROVE  Lookup(t, p) = Lookup(t, q)
<1>1. CASE t.hosts = <<>>
  <2>1. ~HasHost(t, p) /\ ~HasHost(t, q)
    BY <1>1 DEF HasHost
  <2>2. p.url = q.url /\ p.method = q.method
    BY <2>1 DEF KeyOf
  <2> QED BY <1>1, <2>2 DEF Lookup
<1>2. CASE t.hosts # <<>> /\ HasHost(t, p) /\ HasHost(t, q)
  <2>1. p.url = q.url /\ p.method = q.method /\ p.host = q.host
    BY <1>2 DEF KeyOf
  <2> QED BY <1>2, <2>1 DEF Lookup
<1>3. CASE t.hosts # <<>> /\ ~HasHost(t, p) /\ ~HasHost(t, q)
  <2>1. p.url = q.url /\ p.method = q.method
    BY <1>3 DEF KeyOf
  <2>2. ASSUME NEW x, ~HasHost(t, x)
        PROVE  Lookup(t, x) = FindRoute(t, x.url, x.method)
    BY <1>3, <2>2 DEF Lookup, HasHost, FindRouteByHost
  <2> QED BY <1>3, <2>1, <2>2
<1>4. ASSUME NEW x, NEW y, HasHost(t, x), ~HasHost(t, y)
      PROVE  KeyOf(t, x) # KeyOf(t, y)
  <2>1. Len(KeyOf(t, x)) = 3
    BY <1>4 DEF KeyOf
  <2>2. Len(KeyOf(t, y)) = 2
    BY <1>4 DEF KeyOf
  <2> QED BY <2>1, <2>2
<1> QED BY <1>1, <1>2, <1>3, <1>4

Found(t) == {Lookup(t, q) : q \in setup.queries}
Routings(t) == [query : setup.queries, route : Found(t)]

(* What is stored agrees with the tables until the cache is full.          *)
Agrees(t, c) ==
    c.size <= MaxSize + 1 =>
        \A q \in setup.queries :
            KeyOf(t, q) \in DOMAIN c.values =>
                c.values[KeyOf(t, q)] = Lookup(t, q)

CacheOk(t, c) ==
    /\ c.size \in Nat
    /\ \A k \in DOMAIN c.values : c.values[k] \in Found(t)
    /\ Agrees(t, c)

CacheInv ==
    /\ ~serving => cache = EmptyCache /\ asked = <<>>
    /\ CacheOk(tables, cache)
    /\ asked \in Seq(Routings(tables))
    /\ RouteIsTheTables

(* The empty cache agrees with all tables. *)
LEMMA EmptyIsOk == ASSUME NEW t PROVE CacheOk(t, EmptyCache)
<1>1. EmptyCache.size = 0 /\ DOMAIN EmptyCache.values = {}
  BY DEF EmptyCache
<1> QED BY <1>1 DEF CacheOk, Agrees

(* What the tables say may be stored. *)
LEMMA StoreIsOk ==
    ASSUME NEW t, NEW c, NEW q \in setup.queries, CacheOk(t, c)
    PROVE  CacheOk(t, Store(c, KeyOf(t, q), Lookup(t, q)))
<1> DEFINE d == Store(c, KeyOf(t, q), Lookup(t, q))
<1>1. PICK key : /\ d.values = With(c.values, {key}, Lookup(t, q))
                 /\ ~Overflows(c) => key = KeyOf(t, q)
                 /\ d.size = c.size + 1
  BY DEF Store
<1>2. /\ DOMAIN d.values = DOMAIN c.values \cup {key}
      /\ \A k \in DOMAIN d.values :
            d.values[k] = IF k = key THEN Lookup(t, q) ELSE c.values[k]
  BY <1>1 DEF With
<1>3. d.size \in Nat
  BY <1>1 DEF CacheOk
<1>4. \A k \in DOMAIN d.values : d.values[k] \in Found(t)
  BY <1>2 DEF CacheOk, Found
<1>5. Agrees(t, d)
  <2> SUFFICES ASSUME d.size <= MaxSize + 1, NEW p \in setup.queries,
                      KeyOf(t, p) \in DOMAIN d.values
               PROVE  d.values[KeyOf(t, p)] = Lookup(t, p)
    BY DEF Agrees
  <2>1. c.size <= MaxSize
    BY <1>1, MaxSizeAssumption DEF CacheOk
  <2>2. key = KeyOf(t, q)
    BY <1>1, <2>1, MaxSizeAssumption DEF Overflows, CacheOk
  <2>3. c.size <= MaxSize + 1
    BY <2>1, MaxSizeAssumption DEF CacheOk
  <2>4. CASE KeyOf(t, p) = key
    BY <1>2, <2>2, <2>4, KeyDecides
  <2>5. CASE KeyOf(t, p) # key
    BY <1>2, <2>3, <2>5 DEF CacheOk, Agrees
  <2> QED BY <2>4, <2>5
<1> QED BY <1>3, <1>4, <1>5 DEF CacheOk

(* get_route(): an agreeing cache stays so, and answers like the tables.   *)
LEMMA GetRouteIsOk ==
    ASSUME NEW t, NEW c, NEW q \in setup.queries, CacheOk(t, c)
    PROVE  LET got == GetRoute(t, c, q)
           IN  /\ CacheOk(t, got.cache)
               /\ got.route \in Found(t)
               /\ got.cache.size <= MaxSize + 1 => got.route = Lookup(t, q)
<1>1. CASE KeyOf(t, q) \in DOMAIN c.values
  <2>1. GetRoute(t, c, q) = [route |-> c.values[KeyOf(t, q)], cache |-> c]
    BY <1>1 DEF GetRoute
  <2> QED BY <1>1, <2>1 DEF CacheOk, Agrees
<1>2. CASE KeyOf(t, q) \notin DOMAIN c.values
  <2>1. GetRoute(t, c, q).route = Lookup(t, q)
    BY <1>2 DEF GetRoute
  <2>2. \/ GetRoute(t, c, q).cache = c
        \/ GetRoute(t, c, q).cache = Store(c, KeyOf(t, q), Lookup(t, q))
    BY <1>2 DEF GetRoute
  <2>3. CacheOk(t, GetRoute(t, c, q).cache)
    BY <2>2, StoreIsOk
  <2> QED BY <2>1, <2>3 DEF Found
<1> QED BY <1>1, <1>2

(* An empty cache holds no wrong route.                                     *)
LEMMA CacheInit == Init => CacheInv
<1> SUFFICES ASSUME Init PROVE CacheInv
  OBVIOUS
<1>1. cache = EmptyCache /\ asked = <<>>
  BY DEF Init
<1>2. RouteIsTheTables
  BY <1>1 DEF RouteIsTheTables
<1> QED BY <1>1, <1>2, EmptyIsOk DEF CacheInv

(* The tables change only before the first request. *)
LEMMA RegisterKeeps ==
    ASSUME CacheInv, Register
    PROVE  CacheInv'
<1>1. ~serving /\ UNCHANGED <<setup, cache, asked>>
  BY DEF Register, RegisterRoute, RegisterHook, RegisterHandler,
         NestBlueprint, AddBlueprint, Initialize, Made, Calls
<1>2. cache' = EmptyCache /\ asked' = <<>>
  BY <1>1 DEF CacheInv
<1>3. CacheOk(tables', cache')
  BY <1>2, EmptyIsOk
<1>4. Found(tables)' = {Lookup(tables', q) : q \in setup.queries}
  BY <1>1 DEF Found
<1>5. CacheOk(tables, cache)'
  BY <1>1, <1>3, <1>4 DEF CacheOk, Agrees, Found
<1>6. RouteIsTheTables'
  BY <1>2 DEF RouteIsTheTables
<1> QED BY <1>2, <1>5, <1>6 DEF CacheInv

(* Looking a request up keeps the cache true to the tables.                 *)
LEMMA RoutingKeeps ==
    ASSUME CacheInv, NEW q \in setup.queries, OnHeadersComplete(q)
    PROVE  CacheInv'
<1> DEFINE got == GetRoute(tables, cache, q)
           item == [query |-> q, route |-> got.route]
<1>1. /\ serving /\ UNCHANGED <<setup, serving, tables>>
      /\ cache' = got.cache
      /\ asked' = Append(asked, item)
  BY DEF OnHeadersComplete, ClientMayAsk, application
<1>2. /\ CacheOk(tables, cache')
      /\ got.route \in Found(tables)
      /\ cache'.size <= MaxSize + 1 => got.route = Lookup(tables, q)
  BY <1>1, GetRouteIsOk DEF CacheInv
<1>3. CacheOk(tables, cache)'
  BY <1>1, <1>2 DEF CacheOk, Agrees, Found
<1>4. asked' \in Seq(Routings(tables))
  BY <1>1, <1>2 DEF CacheInv, Routings
<1>5. (asked \in Seq(Routings(tables)))'
  BY <1>1, <1>4 DEF Routings, Found
<1>6. cache.size <= cache'.size
  <2>1. cache' = cache \/ cache'.size = cache.size + 1
    BY <1>1 DEF GetRoute, Store
  <2> QED BY <2>1 DEF CacheInv, CacheOk
<1>7. RouteIsTheTables'
  <2> SUFFICES ASSUME cache'.size <= MaxSize + 1,
                      NEW r \in 1..Len(asked')
               PROVE  asked'[r].route = Lookup(tables, asked'[r].query)
    BY <1>1 DEF RouteIsTheTables
  <2>1. asked \in Seq(Routings(tables)) /\ Len(asked') = Len(asked) + 1
    BY <1>1 DEF CacheInv
  <2>2. CASE r = Len(asked')
    <3>1. asked'[r] = item
      BY <1>1, <2>1, <2>2
    <3> QED BY <1>2, <3>1
  <2>3. CASE r # Len(asked')
    <3>1. r \in 1..Len(asked) /\ asked'[r] = asked[r]
      BY <1>1, <2>1, <2>3
    <3>2. cache.size <= MaxSize + 1
      BY <1>3, <1>6, MaxSizeAssumption DEF CacheInv, CacheOk
    <3> QED BY <3>1, <3>2 DEF CacheInv, RouteIsTheTables
  <2> QED BY <2>2, <2>3
<1> QED BY <1>1, <1>3, <1>5, <1>7 DEF CacheInv

(* No other step touches the tables, the cache or the routes found. *)
LEMMA TasksKeep ==
    ASSUME CacheInv,
           \/ \E r \in Requests : HandleRequest(r)
           \/ \E e \in errors : HandleException(e) \/ HandleExceptionFails(e)
           \/ UNCHANGED vars
    PROVE  CacheInv'
<1>1. UNCHANGED <<application, cache, asked>>
  <2>1. ASSUME NEW r \in Requests, HandleRequest(r)
        PROVE  UNCHANGED <<application, cache, asked>>
    BY <2>1 DEF HandleRequest, HookFails, HookPasses, HookReturns,
         AskEngineFirst, BeforeDone, AskEngine, CallHandler, EndpointReturns,
         EndpointRaises, Respond, HandleRequestEnds
  <2> QED BY <2>1 DEF HandleException, HandleExceptionFails, vars
<1>2. UNCHANGED <<setup, serving, tables, cache, asked>>
  BY <1>1 DEF application
<1> QED BY <1>2 DEF CacheInv, CacheOk, Agrees, Found, Routings,
                    RouteIsTheTables

(* The cache in front of the tables cannot be told from them until it is   *)
(* full: every request is routed as the tables say (Router.get_route()).   *)
THEOREM RoutesAreTheTables == Spec => []RouteIsTheTables
<1>1. CacheInv /\ [Next]_vars => CacheInv'
  BY RegisterKeeps, RoutingKeeps, TasksKeep DEF Next
<1>2. CacheInv => RouteIsTheTables
  BY DEF CacheInv
<1> QED BY CacheInit, <1>1, <1>2, PTL DEF Spec
-----------------------------------------------------------------------------
(* Components. *)

Plain == ~setup.pipelining /\ ~spoilt
Current == Len(asked)

(* Requests are answered one after another. *)
OneByOne ==
    \A r \in Requests :
        /\ r > Current => at[r] = "none" /\ ~Answered(r)
        /\ r < Current => Answered(r)
        /\ Answered(r) => at[r] \in {"sent", "done"}

(* An exception is one of the current request, which has no answer.        *)
ErrorsAreCurrent ==
    /\ \A e \in errors :
          /\ Current \in Requests /\ e.request = Current
          /\ at[Current] = "done" /\ ~Answered(Current) /\ e.at # "sent"
    /\ \A e, f \in errors : e = f

(* So is every component. *)
ComponentsAreCurrent ==
    \A k \in DOMAIN index :
        Current \in Requests /\ index[k] = Current /\ ~Answered(Current)

SeesOwn(r) == \A o \in trace[r] : o.at # "sent" => o.saw \subseteq {r}

OwnInv ==
    /\ setup \in Setups /\ spoilt \in BOOLEAN
    /\ Current \in 0..MaxRequests
    /\ at \in [Requests -> Places]
    /\ DOMAIN trace = Requests /\ DOMAIN answers = Requests
    /\ Plain => /\ OneByOne /\ ErrorsAreCurrent /\ ComponentsAreCurrent
                /\ \A r \in Requests : SeesOwn(r)

(* What is found among the components of one request is of that request.   *)
LEMMA GotIsOwn ==
    ASSUME NEW n, \A k \in DOMAIN index : index[k] = n,
           NEW wants, CanGet(wants)
    PROVE  Got(wants) \subseteq {n}
<1>1. CASE wants = Nothing
  BY <1>1 DEF Got
<1>2. CASE wants # Nothing
  <2>1. Cardinality(Candidates(index, wants)) = 1
    BY <1>2 DEF CanGet, Has
  <2>2. Candidates(index, wants) # {}
    BY <2>1, FS_EmptySet
  <2>3. PICK k : k = CHOOSE x \in Candidates(index, wants) : TRUE
    OBVIOUS
  <2>4. k \in Candidates(index, wants)
    BY <2>2, <2>3
  <2>5. k \in DOMAIN index
    BY <2>4 DEF Candidates
  <2> QED BY <1>2, <2>3, <2>5 DEF Got, Owner
<1> QED BY <1>1, <1>2

(* What a task does before its answer is sent: it runs something that gets *)
(* components, adds one, raises or answers.                                *)
Active(r) == at[r] \notin {"none", "sent", "done"}
Notes(r) ==
    \/ UNCHANGED trace
    \/ \E what, wants : CanGet(wants) /\ Note(r, what, wants)
Works(r) ==
    /\ UNCHANGED <<setup, asked, spoilt>>
    /\ \E p \in Places : at' = [at EXCEPT ![r] = p]
    /\ Notes(r)
    /\ \/ /\ UNCHANGED <<answers, errors>>
          /\ index' = index \/ \E type : index' = Added(index, type, r)
       \/ /\ UNCHANGED answers /\ at'[r] = "done"
          /\ \E type : index' = Added(index, type, r)
          /\ \E class : errors' = errors \cup
                {[request |-> r, class |-> class, at |-> at[r]]}
       \/ /\ UNCHANGED errors /\ at'[r] \in {"sent", "done"}
          /\ \E who : answers' = [answers EXCEPT ![r] = @ \cup {who}]
          /\ index' = NoComponents

(* And after it: no component is touched. *)
Lingers(r) ==
    /\ UNCHANGED <<setup, asked, answers, errors, index, spoilt>>
    /\ \E p \in {"sent", "done"} : at' = [at EXCEPT ![r] = p]
    /\ Notes(r)

(* The steps of handle_request() are such steps. *)
LEMMA StepsAre ==
    ASSUME OwnInv, NEW r \in Requests, HandleRequest(r)
    PROVE  \/ Active(r) /\ Works(r)
           \/ at[r] = "sent" /\ Lingers(r)
           \/ /\ spoilt' = TRUE /\ UNCHANGED <<setup, asked, answers>>
              /\ \E p \in Places : at' = [at EXCEPT ![r] = p]
              /\ DOMAIN trace' = DOMAIN trace
<1>0. /\ at \in [Requests -> Places] /\ DOMAIN trace = Requests
      /\ at[r] \in Places
  BY DEF OwnInv
<1>1. at = [at EXCEPT ![r] = at[r]]
  BY <1>0
<1>2. ASSUME NEW p, at' = [at EXCEPT ![r] = p] PROVE at'[r] = p
  BY <1>0, <1>2
<1>3. CASE HookFails(r)
  <2>1. /\ UNCHANGED <<setup, asked, answers>> /\ Notes(r)
        /\ spoilt' = (spoilt \/ at[r] = "sent")
        /\ at' = [at EXCEPT ![r] = "done"]
        /\ \E type : index' = Added(index, type, r)
        /\ \E class : errors' = errors \cup
              {[request |-> r, class |-> class, at |-> at[r]]}
    BY <1>3 DEF HookFails, Raise, Goto, Notes, application
  <2>2. at'[r] = "done" /\ "done" \in Places
    BY <1>2, <2>1 DEF Places
  <2>3. CASE at[r] = "sent"
    <3>1. DOMAIN trace' = DOMAIN trace
      BY <1>0, <2>1 DEF Notes, Note
    <3> QED BY <2>1, <2>2, <2>3, <3>1
  <2>4. CASE at[r] # "sent"
    <3>1. Active(r)
      BY <1>3, <2>4 DEF HookFails, Calling, At, Active
    <3>2. spoilt' = spoilt
      BY <2>1, <2>4 DEF OwnInv
    <3>3. Works(r)
      BY <2>1, <2>2, <3>2 DEF Works
    <3> QED BY <3>1, <3>3
  <2> QED BY <2>3, <2>4
<1>4. CASE HookPasses(r)
  <2>1. /\ UNCHANGED <<setup, asked, answers, errors, index, spoilt, at>>
        /\ Notes(r) /\ at[r] \in {"before", "after", "sent"}
    BY <1>4 DEF HookPasses, Calling, At, Notes, application
  <2>2. at[r] # "sent" => Works(r) /\ Active(r)
    BY <1>0, <1>1, <2>1 DEF Works, Active
  <2>3. at[r] = "sent" => Lingers(r)
    BY <1>1, <2>1 DEF Lingers
  <2> QED BY <2>2, <2>3
<1>5. CASE HookReturns(r)
  <2>1. /\ UNCHANGED <<setup, asked, errors, spoilt>> /\ Notes(r)
        /\ at[r] \in {"before", "after", "sent"}
    BY <1>5 DEF HookReturns, Calling, At, Notes, application
  <2>2. CASE at[r] = "before"
    <3>1. /\ at' = [at EXCEPT ![r] = "done"]
          /\ index' = NoComponents
          /\ \E who : answers' = [answers EXCEPT ![r] = @ \cup {who}]
      BY <1>5, <2>2 DEF HookReturns, Send, Goto
    <3>2. at'[r] = "done" /\ "done" \in Places
      BY <1>2, <3>1 DEF Places
    <3> QED BY <2>1, <2>2, <3>1, <3>2 DEF Works, Active
  <2>3. CASE at[r] # "before"
    <3>1. UNCHANGED <<at, index, answers>>
      BY <1>5, <2>3 DEF HookReturns
    <3>2. at[r] # "sent" => Works(r) /\ Active(r)
      BY <1>0, <1>1, <2>1, <3>1 DEF Works, Active
    <3>3. at[r] = "sent" => Lingers(r)
      BY <1>1, <2>1, <3>1 DEF Lingers
    <3> QED BY <3>2, <3>3
  <2> QED BY <2>2, <2>3
<1>6. CASE AskEngineFirst(r)
  <2>1. /\ UNCHANGED <<setup, asked, errors, spoilt>> /\ Notes(r)
        /\ at[r] = "skip"
    BY <1>6 DEF AskEngineFirst, At, Notes, application
  <2>2. CASE ~Stored(r)
    <3>1. at' = [at EXCEPT ![r] = "before"] /\ UNCHANGED <<index, answers>>
      BY <1>6, <2>2 DEF AskEngineFirst, Goto
    <3>2. "before" \in Places
      BY DEF Places
    <3> QED BY <2>1, <3>1, <3>2 DEF Works, Active
  <2>3. CASE Stored(r)
    <3>1. /\ at' = [at EXCEPT ![r] = "done"]
          /\ index' = NoComponents
          /\ \E who : answers' = [answers EXCEPT ![r] = @ \cup {who}]
      BY <1>6, <2>3 DEF AskEngineFirst, Send, Goto
    <3>2. at'[r] = "done" /\ "done" \in Places
      BY <1>2, <3>1 DEF Places
    <3> QED BY <2>1, <3>1, <3>2 DEF Works, Active
  <2> QED BY <2>2, <2>3
<1>7. CASE BeforeDone(r)
  <2>1. /\ UNCHANGED <<setup, asked, errors, spoilt, index, answers>>
        /\ Notes(r) /\ at[r] = "before"
        /\ \E p \in {"fetch", "call"} : at' = [at EXCEPT ![r] = p]
    BY <1>7 DEF BeforeDone, At, Notes, application, Goto
  <2>2. \E p \in Places : at' = [at EXCEPT ![r] = p]
    BY <2>1 DEF Places
  <2> QED BY <2>1, <2>2 DEF Works, Active
<1>8. ASSUME NEW who, Responded(r, who)
      PROVE  /\ \E p \in Places : at' = [at EXCEPT ![r] = p]
             /\ index' = index \/ \E type : index' = Added(index, type, r)
  <2>1. "after" \in Places
    BY DEF Places
  <2> QED BY <1>8, <2>1 DEF Responded, Goto
<1>9. CASE AskEngine(r)
  <2>1. /\ UNCHANGED <<setup, asked, errors, spoilt, answers>>
        /\ Notes(r) /\ at[r] = "fetch"
    BY <1>9 DEF AskEngine, At, Notes, application
  <2>2. /\ \E p \in Places : at' = [at EXCEPT ![r] = p]
        /\ index' = index \/ \E type : index' = Added(index, type, r)
    <3>1. CASE Stored(r)
      BY <1>8, <1>9, <3>1 DEF AskEngine
    <3>2. CASE ~Stored(r)
      BY <1>9, <3>2 DEF AskEngine, Goto, Places
    <3> QED BY <3>1, <3>2
  <2> QED BY <2>1, <2>2 DEF Works, Active
<1>10. CASE CallHandler(r)
  <2>1. /\ UNCHANGED <<setup, asked, spoilt, answers>>
        /\ Notes(r) /\ at[r] = "call"
    BY <1>10 DEF CallHandler, At, Notes, application
  <2>2. \/ at' = [at EXCEPT ![r] = "endpoint"] /\ UNCHANGED <<index, errors>>
        \/ /\ at' = [at EXCEPT ![r] = "done"]
           /\ \E type : index' = Added(index, type, r)
           /\ \E class : errors' = errors \cup
                 {[request |-> r, class |-> class, at |-> at[r]]}
    BY <1>10 DEF CallHandler, Raise, Goto
  <2>3. {"endpoint", "done"} \subseteq Places
    BY DEF Places
  <2> QED BY <1>2, <2>1, <2>2, <2>3 DEF Works, Active
<1>11. CASE EndpointReturns(r)
  <2>1. /\ UNCHANGED <<setup, asked, errors, spoilt, answers>>
        /\ Notes(r) /\ at[r] = "endpoint"
    BY <1>11 DEF EndpointReturns, At, Notes, application
  <2>2. /\ \E p \in Places : at' = [at EXCEPT ![r] = p]
        /\ index' = index \/ \E type : index' = Added(index, type, r)
    BY <1>8, <1>11 DEF EndpointReturns
  <2> QED BY <2>1, <2>2 DEF Works, Active
<1>12. CASE EndpointRaises(r)
  <2>1. /\ UNCHANGED <<setup, asked, spoilt, answers>>
        /\ Notes(r) /\ at[r] = "endpoint"
        /\ at' = [at EXCEPT ![r] = "done"]
        /\ \E type : index' = Added(index, type, r)
        /\ \E class : errors' = errors \cup
              {[request |-> r, class |-> class, at |-> at[r]]}
    BY <1>12 DEF EndpointRaises, At, Notes, application, Raise, Goto
  <2>2. at'[r] = "done" /\ "done" \in Places
    BY <1>2, <2>1 DEF Places
  <2> QED BY <2>1, <2>2 DEF Works, Active
<1>13. CASE Respond(r)
  <2>1. /\ UNCHANGED <<setup, asked, errors, spoilt>>
        /\ Notes(r) /\ at[r] = "after"
        /\ at' = [at EXCEPT ![r] = "sent"]
        /\ index' = NoComponents
        /\ \E who : answers' = [answers EXCEPT ![r] = @ \cup {who}]
    BY <1>13 DEF Respond, At, Notes, application, Send, Goto
  <2>2. at'[r] = "sent" /\ "sent" \in Places
    BY <1>2, <2>1 DEF Places
  <2> QED BY <2>1, <2>2 DEF Works, Active
<1>14. CASE HandleRequestEnds(r)
  <2>1. /\ UNCHANGED <<setup, asked, errors, spoilt, answers, index>>
        /\ Notes(r) /\ at[r] = "sent"
        /\ at' = [at EXCEPT ![r] = "done"]
    BY <1>14 DEF HandleRequestEnds, At, Notes, application, Goto
  <2> QED BY <2>1 DEF Lingers
<1> QED
  BY <1>3, <1>4, <1>5, <1>6, <1>7, <1>9, <1>10, <1>11, <1>12, <1>13, <1>14
  DEF HandleRequest

(* An active task is that of the current request. *)
LEMMA ActiveIsCurrent ==
    ASSUME OwnInv, Plain, NEW r \in Requests, Active(r)
    PROVE  r = Current /\ ~Answered(r) /\ errors = {}
<1>1. ~Answered(r)
  BY DEF OwnInv, OneByOne, Active
<1>2. ~(r > Current) /\ ~(r < Current)
  BY <1>1 DEF OwnInv, OneByOne, Active
<1>3. r \in Nat /\ Current \in Nat
  BY RequestsAssumption DEF Requests, OwnInv
<1>4. r = Current
  BY <1>2, <1>3
<1>5. \A e \in errors : at[Current] = "done"
  BY DEF OwnInv, ErrorsAreCurrent
<1>6. errors = {}
  BY <1>4, <1>5 DEF Active
<1> QED BY <1>1, <1>4, <1>6

(* Only what belongs to a request is seen by what runs for it.             *)
LEMMA NotesAreOwn ==
    ASSUME OwnInv, Plain, NEW r \in Requests, Notes(r),
           at[r] = "sent" \/ r = Current
    PROVE  \A s \in Requests : SeesOwn(s)'
<1> SUFFICES ASSUME NEW s \in Requests, NEW o \in trace'[s], o.at # "sent"
             PROVE  o.saw \subseteq {s}
  BY DEF SeesOwn
<1>1. CASE UNCHANGED trace
  BY <1>1 DEF OwnInv, SeesOwn
<1>2. CASE ~UNCHANGED trace
  <2>1. PICK what, wants : CanGet(wants) /\ Note(r, what, wants)
    BY <1>2 DEF Notes
  <2>2. PICK n : n = [at |-> at[r], what |-> what, saw |-> Got(wants)]
    OBVIOUS
  <2>3. n.at = at[r] /\ n.saw = Got(wants)
    BY <2>2
  <2>4. o \in trace[s] \/ (s = r /\ o = n)
    BY <2>1, <2>2 DEF Note, OwnInv
  <2>5. CASE o \in trace[s]
    BY <2>5 DEF OwnInv, SeesOwn
  <2>6. CASE s = r /\ o = n
    <3>1. r = Current
      BY <2>3, <2>6
    <3>2. \A k \in DOMAIN index : index[k] = Current
      BY DEF OwnInv, ComponentsAreCurrent
    <3>3. Got(wants) \subseteq {Current}
      BY <2>1, <3>2, GotIsOwn
    <3> QED BY <2>3, <2>6, <3>1, <3>3
  <2> QED BY <2>4, <2>5, <2>6
<1> QED BY <1>1, <1>2

(* An active task works for the current request. *)
LEMMA WorksKeep ==
    ASSUME OwnInv, NEW r \in Requests, Active(r), Works(r)
    PROVE  OwnInv'
<1>1. /\ UNCHANGED <<setup, asked, spoilt>> /\ Current' = Current
      /\ Plain' <=> Plain
  BY DEF Works, Current, Plain
<1>2. PICK p \in Places : at' = [at EXCEPT ![r] = p]
  BY DEF Works
<1>3. /\ at' \in [Requests -> Places] /\ at'[r] = p
      /\ \A s \in Requests : s # r => at'[s] = at[s]
  BY <1>2 DEF OwnInv
<1>4. DOMAIN trace' = Requests /\ DOMAIN answers' = Requests
  BY DEF Works, Notes, Note, OwnInv
<1>5. ASSUME Plain
      PROVE  /\ OneByOne' /\ ErrorsAreCurrent' /\ ComponentsAreCurrent'
             /\ \A s \in Requests : SeesOwn(s)'
  <2>1. r = Current /\ ~Answered(r) /\ errors = {}
    BY <1>5, ActiveIsCurrent
  <2>2. \A s \in Requests : SeesOwn(s)'
    BY <1>5, <2>1, NotesAreOwn DEF Works
  <2>3. OneByOne /\ \A k \in DOMAIN index : index[k] = r
    BY <1>5, <2>1 DEF OwnInv, ComponentsAreCurrent
  <2>4. Current \in Nat /\ r \in Nat
    BY RequestsAssumption DEF OwnInv, Requests
  <2>5. CASE /\ UNCHANGED answers
             /\ \E type : index' = index \/ index' = Added(index, type, r)
             /\ \/ UNCHANGED errors
                \/ /\ at'[r] = "done"
                   /\ \E class : errors' = errors \cup
                         {[request |-> r, class |-> class, at |-> at[r]]}
    <3>1. \A s \in Requests : Answered(s)' <=> Answered(s)
      BY <2>5 DEF Answered
    <3>2. OneByOne'
      BY <1>1, <1>3, <2>1, <2>3, <2>4, <3>1 DEF OneByOne
    <3>3. \A k \in DOMAIN index' : index'[k] = r
      <4>1. CASE index' = index
        BY <2>3, <4>1
      <4>2. CASE index' # index
        <5>1. PICK type : index' = Added(index, type, r)
          BY <2>5, <4>2
        <5> QED BY <2>3, <5>1 DEF Added
      <4> QED BY <4>1, <4>2
    <3>4. ComponentsAreCurrent'
      BY <1>1, <2>1, <3>1, <3>3 DEF ComponentsAreCurrent
    <3>5. ErrorsAreCurrent'
      <4>1. CASE UNCHANGED errors
        BY <2>1, <4>1 DEF ErrorsAreCurrent
      <4>2. CASE ~UNCHANGED errors
        <5>1. PICK e : /\ errors' = {e} /\ e.request = r /\ e.at = at[r]
          BY <2>1, <2>5, <4>2
        <5> QED BY <1>1, <2>1, <2>5, <3>1, <4>2, <5>1
                DEF ErrorsAreCurrent, Active
      <4> QED BY <4>1, <4>2
    <3> QED BY <2>2, <3>2, <3>4, <3>5
  <2>6. CASE /\ UNCHANGED errors /\ at'[r] \in {"sent", "done"}
             /\ \E who : answers' = [answers EXCEPT ![r] = @ \cup {who}]
             /\ index' = NoComponents
    <3>1. /\ answers'[r] # {}
          /\ \A s \in Requests : s # r => answers'[s] = answers[s]
      BY <2>6 DEF OwnInv
    <3>2. OneByOne'
      BY <1>1, <1>3, <2>1, <2>3, <2>4, <2>6, <3>1 DEF OneByOne, Answered
    <3>3. DOMAIN index' = {}
      BY <2>6 DEF NoComponents
    <3>4. errors' = {}
      BY <2>1, <2>6
    <3> QED BY <2>2, <3>2, <3>3, <3>4
            DEF ErrorsAreCurrent, ComponentsAreCurrent
  <2> QED BY <2>5, <2>6 DEF Works
<1> QED BY <1>1, <1>3, <1>4, <1>5 DEF OwnInv

(* A task that has answered touches nothing of the next request.           *)
LEMMA LingersKeep ==
    ASSUME OwnInv, NEW r \in Requests, at[r] = "sent", Lingers(r)
    PROVE  OwnInv'
<1>1. /\ UNCHANGED <<setup, asked, spoilt, answers, errors, index>>
      /\ Current' = Current /\ (Plain' <=> Plain)
      /\ \A s : Answered(s)' <=> Answered(s)
  BY DEF Lingers, Current, Plain, Answered
<1>2. PICK p \in {"sent", "done"} : at' = [at EXCEPT ![r] = p]
  BY DEF Lingers
<1>3. /\ at' \in [Requests -> Places] /\ at'[r] = p
      /\ \A s \in Requests : s # r => at'[s] = at[s]
  BY <1>2 DEF OwnInv, Places
<1>4. DOMAIN trace' = Requests /\ DOMAIN answers' = Requests
  BY DEF Lingers, Notes, Note, OwnInv
<1>5. ASSUME Plain
      PROVE  /\ OneByOne' /\ ErrorsAreCurrent' /\ ComponentsAreCurrent'
             /\ \A s \in Requests : SeesOwn(s)'
  <2>1. \A s \in Requests : SeesOwn(s)'
    BY <1>5, NotesAreOwn DEF Lingers
  <2>2. OneByOne'
    <3>1. ~(r > Current)
      BY <1>5 DEF OwnInv, OneByOne
    <3> QED BY <1>1, <1>3, <1>5, <3>1 DEF OwnInv, OneByOne
  <2>3. \A e \in errors : r # Current
    BY <1>5 DEF OwnInv, ErrorsAreCurrent
  <2>4. ErrorsAreCurrent'
    BY <1>1, <1>3, <1>5, <2>3 DEF OwnInv, ErrorsAreCurrent
  <2>5. ComponentsAreCurrent'
    BY <1>1, <1>5 DEF OwnInv, ComponentsAreCurrent
  <2> QED BY <2>1, <2>2, <2>4, <2>5
<1>6. /\ setup' \in Setups /\ spoilt' \in BOOLEAN
      /\ Current' \in 0..MaxRequests
  <2>1. setup' = setup /\ spoilt' = spoilt /\ Current' = Current
    BY <1>1
  <2> QED BY <2>1 DEF OwnInv
<1> QED BY <1>1, <1>3, <1>4, <1>5, <1>6 DEF OwnInv

(* The next request comes when all others have been answered. *)
LEMMA ArrivalKeeps ==
    ASSUME OwnInv, CacheInv, NEW q \in setup.queries, OnHeadersComplete(q)
    PROVE  OwnInv'
<1> DEFINE got == GetRoute(tables, cache, q)
<1>0. PICK r : r = Current + 1
  OBVIOUS
<1>1. /\ UNCHANGED <<setup, spoilt, errors, trace>>
      /\ ClientMayAsk
      /\ asked' = Append(asked, [query |-> q, route |-> got.route])
  BY DEF OnHeadersComplete, application
<1>2. Current' = r
  BY <1>0, <1>1 DEF CacheInv, Current
<1>3. r \in Requests /\ Current \in Nat /\ r \in 0..MaxRequests
  <2>1. setup.requests \in 0..MaxRequests /\ MaxRequests \in Nat
    BY RequestsAssumption DEF OwnInv
  <2>2. Current < setup.requests /\ Current \in 0..MaxRequests
    BY <1>1 DEF ClientMayAsk, Current, OwnInv
  <2> QED BY <1>0, <2>1, <2>2 DEF Requests
<1>4. \/ /\ at' = [at EXCEPT ![r] = "lost"]
         /\ UNCHANGED <<index, answers>>
      \/ /\ at' = [at EXCEPT ![r] = "done"]
         /\ \E who : answers' = [answers EXCEPT ![r] = @ \cup {who}]
         /\ index' = NoComponents
      \/ /\ \E p \in {"call", "skip", "before"} : at' = [at EXCEPT ![r] = p]
         /\ index' = Added(Added(index, "Request", r), "Route", r)
         /\ UNCHANGED answers
  <2>1. \A route : FirstStep(route) \in {"call", "skip", "before"}
    BY DEF FirstStep
  <2>2. CASE got.route = Unrouted
    BY <1>0, <2>2 DEF OnHeadersComplete, Current
  <2>3. CASE got.route # Unrouted /\ FastLane(got.route, FALSE)
                /\ stored[got.route.handler] # None
    BY <1>0, <2>3 DEF OnHeadersComplete, Current, Send
  <2>4. CASE got.route # Unrouted /\ ~(FastLane(got.route, FALSE)
                /\ stored[got.route.handler] # None)
    <3>1. /\ at' = [at EXCEPT ![r] = FirstStep(got.route)]
          /\ index' = Added(Added(index, "Request", r), "Route", r)
          /\ UNCHANGED answers
      BY <1>0, <2>4 DEF OnHeadersComplete, Current
    <3> QED BY <2>1, <3>1
  <2> QED BY <2>2, <2>3, <2>4
<1>5. /\ at' \in [Requests -> Places]
      /\ at'[r] \in {"lost", "done", "call", "skip", "before"}
      /\ at'[r] # "done" => answers'[r] = answers[r]
      /\ \A s \in Requests : s # r => /\ at'[s] = at[s]
                                      /\ answers'[s] = answers[s]
      /\ DOMAIN answers' = Requests
  <2>1. {"lost", "done", "call", "skip", "before"} \subseteq Places
    BY DEF Places
  <2> QED BY <1>3, <1>4, <2>1 DEF OwnInv
<1>6. ASSUME Plain
      PROVE  /\ OneByOne' /\ ErrorsAreCurrent' /\ ComponentsAreCurrent'
             /\ \A s \in Requests : SeesOwn(s)'
  <2>1. /\ \A s \in 1..Current : Answered(s)
        /\ Current \in Requests => Answered(Current)
        /\ ~Answered(r) /\ OneByOne
    <3>1. \A s \in 1..Current : Answered(s)
      BY <1>1, <1>6 DEF ClientMayAsk, Plain, Current
    <3>2. OneByOne
      BY <1>6 DEF OwnInv
    <3>3. r > Current
      BY <1>0, <1>3
    <3> QED BY <1>3, <3>1, <3>2, <3>3 DEF OneByOne, Requests
  <2>2. errors = {} /\ DOMAIN index = {}
    BY <1>6, <2>1 DEF OwnInv, ErrorsAreCurrent, ComponentsAreCurrent
  <2>3. OneByOne'
    <3> SUFFICES ASSUME NEW s \in Requests
                 PROVE  /\ s > r => at'[s] = "none" /\ answers'[s] = {}
                        /\ s < r => answers'[s] # {}
                        /\ answers'[s] # {} => at'[s] \in {"sent", "done"}
      BY <1>2 DEF OneByOne, Answered
    <3>1. s \in Nat
      BY DEF Requests
    <3>2. CASE s = r
      BY <1>3, <1>5, <2>1, <3>2 DEF Answered
    <3>3. CASE s # r
      <4>1. at'[s] = at[s] /\ answers'[s] = answers[s]
        BY <1>5, <3>3
      <4>2. s > r => s > Current
        BY <1>0, <1>3, <3>1
      <4>3. s < r => s \in 1..Current
        BY <1>0, <1>3, <3>1 DEF Requests
      <4> QED BY <2>1, <4>1, <4>2, <4>3 DEF OneByOne, Answered
    <3> QED BY <3>2, <3>3
  <2>4. ErrorsAreCurrent'
    BY <1>1, <2>2 DEF ErrorsAreCurrent
  <2>5. ComponentsAreCurrent'
    <3>1. CASE index' = index \/ index' = NoComponents
      <4>1. DOMAIN index' = {}
        BY <2>2, <3>1 DEF NoComponents
      <4> QED BY <4>1 DEF ComponentsAreCurrent
    <3>2. CASE /\ index' = Added(Added(index, "Request", r), "Route", r)
               /\ UNCHANGED answers
      <4>1. \A k \in DOMAIN index' : index'[k] = r
        BY <2>2, <3>2 DEF Added
      <4>2. ~Answered(r)'
        BY <2>1, <3>2 DEF Answered
      <4> QED BY <1>2, <1>3, <4>1, <4>2 DEF ComponentsAreCurrent, Answered
    <3> QED BY <1>4, <3>1, <3>2
  <2>6. \A s \in Requests : SeesOwn(s)'
    BY <1>1, <1>6 DEF OwnInv, SeesOwn
  <2> QED BY <2>3, <2>4, <2>5, <2>6
<1>7. DOMAIN trace' = Requests /\ setup' \in Setups /\ spoilt' \in BOOLEAN
  BY <1>1 DEF OwnInv
<1>8. Current' \in 0..MaxRequests /\ (Plain' <=> Plain)
  BY <1>1, <1>2, <1>3 DEF Plain
<1> QED BY <1>5, <1>6, <1>7, <1>8 DEF OwnInv

(* The exception of the current request is answered, or it never is.       *)
LEMMA ExceptionsKeep ==
    ASSUME OwnInv, NEW e \in errors,
           HandleException(e) \/ HandleExceptionFails(e)
    PROVE  OwnInv'
<1>1. /\ UNCHANGED <<setup, asked, spoilt, at>> /\ Current' = Current
      /\ (Plain' <=> Plain) /\ errors' = errors \ {e}
  BY DEF HandleException, HandleExceptionFails, Current, Plain, application,
         task
<1>2. DOMAIN trace' = Requests /\ DOMAIN answers' = Requests
  BY DEF HandleException, HandleExceptionFails, Send, OwnInv
<1>3. ASSUME Plain
      PROVE  /\ OneByOne' /\ ErrorsAreCurrent' /\ ComponentsAreCurrent'
             /\ \A s \in Requests : SeesOwn(s)'
  <2>1. /\ Current \in Requests /\ e.request = Current
        /\ at[Current] = "done" /\ e.at # "sent" /\ OneByOne
        /\ \A k \in DOMAIN index : index[k] = Current
    BY <1>3 DEF OwnInv, ErrorsAreCurrent, ComponentsAreCurrent
  <2>2. errors' = {}
    <3>1. \A f \in errors : f = e
      BY <1>3 DEF OwnInv, ErrorsAreCurrent
    <3>2. errors' = errors \ {e}
      BY <1>1
    <3> QED BY <3>1, <3>2
  <2>3. ErrorsAreCurrent'
    BY <2>2 DEF ErrorsAreCurrent
  <2>4. CASE HandleExceptionFails(e)
    <3>1. UNCHANGED <<index, answers, trace>>
      BY <2>4 DEF HandleExceptionFails
    <3> QED BY <1>1, <1>3, <2>3, <3>1
            DEF OwnInv, OneByOne, ComponentsAreCurrent, SeesOwn, Answered
  <2>5. CASE HandleException(e)
    <3>1. PICK h : /\ CanGet(h.wants)
                   /\ trace' = [trace EXCEPT ![Current] =
                         @ \cup {[at |-> e.at, what |-> HandlerName(h),
                                   saw |-> Got(h.wants)]}]
                   /\ Send(Current,
                           By("handler", HandlerName(h), e))
      BY <2>1, <2>5 DEF HandleException, Handles
    <3>2. /\ answers'[Current] # {} /\ index' = NoComponents
          /\ \A s \in Requests : s # Current => answers'[s] = answers[s]
      BY <2>1, <3>1 DEF Send, OwnInv
    <3>3. OneByOne'
      BY <1>1, <2>1, <3>2 DEF OneByOne, Answered
    <3>4. ComponentsAreCurrent'
      <4>1. DOMAIN index' = {}
        BY <3>2 DEF NoComponents
      <4> QED BY <4>1 DEF ComponentsAreCurrent
    <3>5. Got(h.wants) \subseteq {Current}
      BY <2>1, <3>1, GotIsOwn
    <3>6. ASSUME NEW s \in Requests, NEW o \in trace'[s], o.at # "sent"
          PROVE  o.saw \subseteq {s}
      <4>1. PICK n : n = [at |-> e.at, what |-> HandlerName(h),
                           saw |-> Got(h.wants)]
        OBVIOUS
      <4>2. o \in trace[s] \/ (s = Current /\ o = n)
        BY <3>1, <4>1 DEF OwnInv
      <4> QED BY <1>3, <3>5, <3>6, <4>1, <4>2 DEF OwnInv, SeesOwn
    <3> QED BY <2>3, <3>3, <3>4, <3>6 DEF SeesOwn
  <2> QED BY <2>4, <2>5
<1> QED BY <1>1, <1>2, <1>3 DEF OwnInv

(* All steps keep what the components are. *)
LEMMA NextOwn == CacheInv /\ OwnInv /\ [Next]_vars => OwnInv'
<1> SUFFICES ASSUME CacheInv, OwnInv, [Next]_vars PROVE OwnInv'
  OBVIOUS
<1>1. CASE Register \/ UNCHANGED vars
  <2>1. UNCHANGED <<setup, asked, spoilt, at, trace, answers, errors, index>>
    BY <1>1
    DEF Register, RegisterRoute, RegisterHook, RegisterHandler, vars,
        NestBlueprint, AddBlueprint, Initialize, Made, task, application
  <2> QED BY <2>1 DEF OwnInv, Plain, Current, OneByOne, ErrorsAreCurrent,
                      ComponentsAreCurrent, SeesOwn, Answered
<1>2. CASE \E q \in setup.queries : OnHeadersComplete(q)
  BY <1>2, ArrivalKeeps
<1>3. CASE \E r \in Requests : HandleRequest(r)
  <2>1. PICK r \in Requests : HandleRequest(r)
    BY <1>3
  <2>2. CASE Active(r) /\ Works(r)
    BY <2>2, WorksKeep
  <2>3. CASE at[r] = "sent" /\ Lingers(r)
    BY <2>3, LingersKeep
  <2>4. CASE /\ spoilt' = TRUE /\ UNCHANGED <<setup, asked, answers>>
             /\ \E p \in Places : at' = [at EXCEPT ![r] = p]
             /\ DOMAIN trace' = DOMAIN trace
    <3>1. ~Plain' /\ Current' = Current
      BY <2>4 DEF Plain, Current
    <3> QED BY <2>4, <3>1 DEF OwnInv
  <2> QED BY <2>1, <2>2, <2>3, <2>4, StepsAre
<1>4. CASE \E e \in errors : HandleException(e) \/ HandleExceptionFails(e)
  BY <1>4, ExceptionsKeep
<1> QED BY <1>1, <1>2, <1>3, <1>4 DEF Next

(* Nothing has been asked. *)
LEMMA InitOwn == Init => OwnInv
<1> SUFFICES ASSUME Init PROVE OwnInv
  OBVIOUS
<1>1. /\ setup \in Setups /\ spoilt = FALSE /\ Current = 0
      /\ at = [r \in Requests |-> "none"] /\ errors = {}
      /\ trace = [r \in Requests |-> {}] /\ answers = [r \in Requests |-> {}]
      /\ DOMAIN index = {}
  BY DEF Init, Current, NoComponents
<1>2. "none" \in Places /\ 0 \in 0..MaxRequests
  BY RequestsAssumption DEF Places
<1>3. OneByOne
  BY <1>1, RequestsAssumption DEF OneByOne, Requests, Answered
<1> QED BY <1>1, <1>2, <1>3
        DEF OwnInv, ErrorsAreCurrent, ComponentsAreCurrent, SeesOwn

(* Whatever runs for a request gets the components of that request, unless *)
(* requests are pipelined or a hook for AFTER_RESPONSE_SENT has failed.    *)
THEOREM ComponentsAreOwn == Spec => []OwnComponents
<1>1. CacheInv /\ [Next]_vars => CacheInv'
  BY RegisterKeeps, RoutingKeeps, TasksKeep DEF Next
<1>2. OwnInv => OwnComponents
  BY DEF OwnInv, OwnComponents, Plain, SeesOwn
<1> QED BY CacheInit, InitOwn, NextOwn, <1>1, <1>2, PTL DEF Spec

-----------------------------------------------------------------------------
(* Elements chosen from a sequence, as comprehensions do. *)

(* t has the elements of s at some indices, in their order. *)
Picks(f, m, t, s, indices) ==
    /\ t = [j \in 1..m |-> s[f[j]]]
    /\ \A j \in 1..m : f[j] \in indices
    /\ \A i \in indices : \E j \in 1..m : f[j] = i
    /\ \A i, j \in 1..m : i < j => f[i] < f[j]

IsChosen(t, s, indices) == \E m \in Nat : \E f : Picks(f, m, t, s, indices)

(* One more element may be picked. *)
LEMMA PicksMore ==
    ASSUME NEW s, NEW n \in Nat, NEW x \in SUBSET (1..n), NEW t,
           IsChosen(t, s, x)
    PROVE  IsChosen(Append(t, s[n + 1]), s, x \cup {n + 1})
<1>0. PICK m \in Nat : \E f : Picks(f, m, t, s, x)
  BY DEF IsChosen
<1>1. PICK f : Picks(f, m, t, s, x)
  BY <1>0
<1> DEFINE g == [j \in 1..m + 1 |-> IF j = m + 1 THEN n + 1 ELSE f[j]]
           u == Append(t, s[n + 1])
<1>2. t \in Seq({s[f[j]] : j \in 1..m}) /\ Len(t) = m
  BY <1>1 DEF Picks
<1>3. u = [j \in 1..m + 1 |-> s[g[j]]]
  <2>1. /\ DOMAIN u = 1..m + 1 /\ u[m + 1] = s[n + 1]
        /\ \A j \in 1..m : u[j] = t[j]
    BY <1>2
  <2>2. /\ g[m + 1] = n + 1
        /\ \A j \in 1..m : g[j] = f[j]
        /\ \A j \in 1..m : t[j] = s[f[j]]
    BY <1>1 DEF Picks
  <2>3. u = [j \in 1..m + 1 |-> u[j]]
    BY <2>1
  <2>4. \A j \in 1..m + 1 : u[j] = s[g[j]]
    BY <2>1, <2>2
  <2> HIDE DEF u, g
  <2> QED BY <2>3, <2>4
<1>4. \A j \in 1..m + 1 : g[j] \in x \cup {n + 1}
  BY <1>1 DEF Picks
<1>5. \A i \in x \cup {n + 1} : \E j \in 1..m + 1 : g[j] = i
  <2>1. g[m + 1] = n + 1 /\ m + 1 \in 1..m + 1
    OBVIOUS
  <2>2. ASSUME NEW i \in x PROVE \E j \in 1..m + 1 : g[j] = i
    <3>1. PICK j \in 1..m : f[j] = i
      BY <1>1 DEF Picks
    <3>2. j \in 1..m + 1 /\ g[j] = i
      BY <3>1
    <3> QED BY <3>2
  <2> QED BY <2>1, <2>2
<1>6. ASSUME NEW i \in 1..m + 1, NEW j \in 1..m + 1, i < j
      PROVE  g[i] < g[j]
  <2>0. i \in 1..m /\ g[i] = f[i]
    BY <1>6
  <2>4. f[i] \in x
    BY <1>1, <2>0 DEF Picks
  <2>1. f[i] < n + 1
    <3>1. \A y \in 1..n : y < n + 1
      OBVIOUS
    <3>2. f[i] \in 1..n
      BY <2>4
    <3> HIDE DEF g, u
    <3> QED BY <3>1, <3>2
  <2>2. CASE j = m + 1
    BY <2>0, <2>1, <2>2
  <2>3. CASE j # m + 1
    <3>1. j \in 1..m /\ g[j] = f[j]
      BY <2>3
    <3> QED BY <1>1, <1>6, <2>0, <3>1 DEF Picks
  <2> QED BY <2>2, <2>3
<1>7. Picks(g, m + 1, u, s, x \cup {n + 1})
  BY <1>3, <1>4, <1>5, <1>6 DEF Picks
<1> HIDE DEF g, u
<1>8. IsChosen(u, s, x \cup {n + 1})
  BY <1>7 DEF IsChosen
<1> QED BY <1>8 DEF u

(* Chosen() is the fold that picks them. *)
LEMMA ChosenIs ==
    ASSUME NEW S, NEW s \in Seq(S), NEW indices \in SUBSET DOMAIN s
    PROVE  IsChosen(Chosen(s, indices), s, indices)
<1>1. PICK k \in Nat : k = Len(s) /\ DOMAIN s = 1..k
  OBVIOUS
<1> DEFINE d == [i \in DOMAIN s |-> i]
           One(t, i) == IF i \in indices THEN Append(t, s[i]) ELSE t
           Good(g) == g = [x \in SUBSET DOMAIN d |->
                              IF x = {} THEN <<>>
                              ELSE One(g[x \ {Max(x)}], d[Max(x)])]
           step == [i \in 1..k |-> [t \in Seq(S) |-> One(t, i)]]
<1>2. IsStep(step, k, Seq(S)) /\ <<>> \in Seq(S)
  BY <1>1 DEF IsStep
<1>3. PICK f : FoldsBy(f, k, Seq(S), <<>>, step)
  <2> HIDE DEF step
  <2> QED BY <1>2, FoldExists
<1> DEFINE h == [x \in SUBSET (1..k) |-> f[x]]
<1>4. ASSUME NEW x \in SUBSET (1..k), x # {}
      PROVE  h[x] = One(h[x \ {Max(x)}], d[Max(x)])
  <2>1. Max(x) \in 1..k /\ x \ {Max(x)} \in SUBSET (1..k)
    BY <1>4, MaxExists
  <2>2. f[x \ {Max(x)}] \in Seq(S) /\ f[x] = step[Max(x)][f[x \ {Max(x)}]]
    BY <1>3, <1>4, <2>1 DEF FoldsBy
  <2>3. d[Max(x)] = Max(x)
    BY <1>1, <2>1
  <2> QED BY <2>1, <2>2, <2>3
<1>5. h[{}] = <<>>
  BY <1>3 DEF FoldsBy
<1>6. Good(h)
  <2>1. DOMAIN d = 1..k
    BY <1>1
  <2> HIDE DEF d, One
  <2> QED BY <1>4, <1>5, <2>1
<1>7. Good(CHOOSE g : Good(g))
  <2> HIDE DEF Good
  <2> QED BY <1>6
<1>8. Chosen(s, indices) = (CHOOSE g : Good(g))[DOMAIN d]
  BY DEF Chosen, FoldLeftDomain, FoldLeft, MapThenFoldSet
<1>9. PICK g : Good(g) /\ Chosen(s, indices) = g[DOMAIN d]
  <2> HIDE DEF Good
  <2> QED BY <1>7, <1>8
<1>10. g[1..0] = <<>>
       /\ \A i \in 1..k : g[1..i] = One(g[1..i - 1], i)
  <2>1. g[{}] = <<>> /\ 1..0 = {}
    BY <1>9
  <2>2. ASSUME NEW i \in 1..k PROVE g[1..i] = One(g[1..i - 1], i)
    <3>1. /\ 1..i \in SUBSET (1..k) /\ 1..i # {}
          /\ Max(1..i) = i /\ (1..i) \ {i} = 1..i - 1
      BY FoldSteps
    <3>2. DOMAIN d = 1..k /\ d[i] = i
      BY <1>1
    <3> HIDE DEF d, One
    <3> QED BY <1>9, <3>1, <3>2
  <2> HIDE DEF One
  <2> QED BY <2>1, <2>2
<1> DEFINE T == {n \in 0..k : IsChosen(g[1..n], s, indices \cap (1..n))}
<1>11. 0 \in T
  <2> DEFINE e == [j \in 1..0 |-> 0]
  <2>1. Picks(e, 0, <<>>, s, {})
    BY DEF Picks
  <2>2. IsChosen(<<>>, s, {})
    <3> HIDE DEF e
    <3> QED BY <2>1 DEF IsChosen
  <2>3. indices \cap (1..0) = {} /\ 0 \in 0..k
    OBVIOUS
  <2> QED BY <1>10, <2>2, <2>3
<1>12. ASSUME NEW n \in 1..k, n - 1 \in T PROVE n \in T
  <2>1. /\ n - 1 \in Nat /\ (n - 1) + 1 = n /\ n \in 0..k
        /\ indices \cap (1..n - 1) \in SUBSET (1..n - 1)
    OBVIOUS
  <2>2. IsChosen(g[1..n - 1], s, indices \cap (1..n - 1))
    BY <1>12
  <2>3. CASE n \in indices
    <3>1. IsChosen(Append(g[1..n - 1], s[n]), s,
                   (indices \cap (1..n - 1)) \cup {n})
      BY <2>1, <2>2, PicksMore
    <3>2. (indices \cap (1..n - 1)) \cup {n} = indices \cap (1..n)
      BY <2>3
    <3> QED BY <1>10, <2>1, <2>3, <3>1, <3>2
  <2>4. CASE n \notin indices
    <3>1. indices \cap (1..n - 1) = indices \cap (1..n)
      BY <2>4
    <3> QED BY <1>10, <2>1, <2>2, <2>4, <3>1
  <2> QED BY <2>3, <2>4
<1>13. k \in T
  <2>1. k \in 0..k
    OBVIOUS
  <2>2. 0..k \subseteq T
    <3> HIDE DEF T
    <3> QED BY <1>11, <1>12, InductionTo
  <2> QED BY <2>1, <2>2
<1>14. indices \cap (1..k) = indices /\ DOMAIN d = 1..k
  BY <1>1
<1> QED BY <1>9, <1>13, <1>14

(* What is chosen are the elements at these indices. *)
LEMMA ChosenElements ==
    ASSUME NEW S, NEW s \in Seq(S), NEW indices \in SUBSET DOMAIN s
    PROVE  /\ Chosen(s, indices) \in Seq({s[i] : i \in indices})
           /\ Chosen(s, indices) \in Seq(S)
           /\ \A i \in indices : \E j \in DOMAIN Chosen(s, indices) :
                  Chosen(s, indices)[j] = s[i]
<1>1. PICK t : t = Chosen(s, indices)
  OBVIOUS
<1>0. PICK m \in Nat : \E f : Picks(f, m, t, s, indices)
  BY <1>1, ChosenIs DEF IsChosen
<1>2. PICK f : Picks(f, m, t, s, indices)
  BY <1>0
<1>3. t = [j \in 1..m |-> s[f[j]]] /\ \A j \in 1..m : f[j] \in indices
  BY <1>2 DEF Picks
<1>4. t \in Seq({s[i] : i \in indices})
  BY <1>3
<1>5. \A i \in indices : s[i] \in S
  OBVIOUS
<1>6. t \in Seq(S)
  BY <1>3, <1>5
<1>7. \A i \in indices : \E j \in DOMAIN t : t[j] = s[i]
  <2> SUFFICES ASSUME NEW i \in indices PROVE \E j \in DOMAIN t : t[j] = s[i]
    OBVIOUS
  <2>1. PICK j \in 1..m : f[j] = i
    BY <1>2 DEF Picks
  <2> QED BY <1>3, <2>1
<1> QED BY <1>1, <1>4, <1>6, <1>7

(* A sequence has all hooks for one event. *)
Lists(t, hooks, event) ==
    \A i \in DOMAIN hooks :
        hooks[i].event = event => \E j \in DOMAIN t : t[j] = hooks[i]

(* Target() has the hooks of a blueprint for one event. *)
LEMMA TargetHas ==
    ASSUME NEW S, NEW tree, NEW b, tree[b].hooks \in Seq(S), NEW event
    PROVE  /\ Target(tree, b, event) \in Seq(S)
           /\ Lists(Target(tree, b, event), tree[b].hooks, event)
<1>1. PICK hooks : hooks = tree[b].hooks
  OBVIOUS
<1> DEFINE is == {i \in DOMAIN hooks :
                     hooks[i].event = event /\ ~hooks[i].async}
           ia == {i \in DOMAIN hooks :
                     hooks[i].event = event /\ hooks[i].async}
<1>2. PICK s, a : s = Chosen(hooks, is) /\ a = Chosen(hooks, ia)
  OBVIOUS
<1>3. Target(tree, b, event) = s \o a
  BY <1>1, <1>2 DEF Target, Only
<1>4. hooks \in Seq(S) /\ is \in SUBSET DOMAIN hooks
      /\ ia \in SUBSET DOMAIN hooks
  BY <1>1
<1>5. /\ s \in Seq(S) /\ a \in Seq(S)
      /\ \A i \in is : \E j \in DOMAIN s : s[j] = hooks[i]
      /\ \A i \in ia : \E j \in DOMAIN a : a[j] = hooks[i]
  <2> HIDE DEF is, ia
  <2> QED BY <1>2, <1>4, ChosenElements
<1>6. /\ s \o a \in Seq(S)
      /\ \A j \in DOMAIN s : j \in DOMAIN (s \o a) /\ (s \o a)[j] = s[j]
      /\ \A j \in DOMAIN a : /\ Len(s) + j \in DOMAIN (s \o a)
                             /\ (s \o a)[Len(s) + j] = a[j]
  <2> HIDE DEF is, ia
  <2> QED BY <1>5
<1>7. \A i \in is \cup ia : \E j \in DOMAIN (s \o a) :
          (s \o a)[j] = hooks[i]
  <2> HIDE DEF is, ia
  <2> QED BY ZenonT(30), <1>5, <1>6
<1>8. \A i \in DOMAIN hooks : hooks[i].event = event => i \in is \cup ia
  OBVIOUS
<1> QED BY <1>1, <1>3, <1>6, <1>7, <1>8 DEF Lists
-----------------------------------------------------------------------------
(* The tree of blueprints. *)

CallsFor(op) == {c \in setup.calls : c.op = op}

HooksGiven == {c.hook : c \in CallsFor("hook")}

DefaultHandlers ==
    {DefaultHandler("MissingComponent", "MissingComponent"),
     DefaultHandler("Exception", "Exception"),
     DefaultHandler("NotFound", Nothing),
     DefaultHandler("MethodNotAllowed", "Request")}
HandlersGiven(b) ==
    {h \in {c.handler : c \in CallsFor("handler")} \cup DefaultHandlers :
        h.in = b /\ h.class \in DOMAIN Supers}

Children == [child : Blueprints \ {App}, prefixes : Seq(Seq(STRING))]

BlueprintType(b) ==
    [parent : {Nothing} \cup Blueprints, routes : Seq(RoutesOf({b})),
     hooks : Seq(HooksGiven), handlers : Seq(HandlersGiven(b)),
     children : Seq(Children), moved : BOOLEAN]

TreeType ==
    /\ DOMAIN bps = Blueprints
    /\ \A b \in Blueprints : bps[b] \in BlueprintType(b)

(* Who is the parent of a blueprint has it among its children, and what    *)
(* was added to the application has given its hooks away.                  *)
IsChildOf(child, b) ==
    \E i \in DOMAIN bps[b].children : bps[b].children[i].child = child

TreeLinks ==
    /\ bps[App].parent = Nothing
    /\ \A b, c \in Blueprints : IsChildOf(c, b) <=> bps[c].parent = b
    /\ \A b \in Blueprints : bps[b].moved <=> Direct(b)
    /\ \A b \in Blueprints : bps[b].parent # Nothing =>
          \E l \in CallsFor("blueprint") :
              l.in = bps[b].parent /\ l.child = b

TreeInv ==
    /\ setup \in Setups /\ calls \subseteq setup.calls
    /\ serving => calls = {}
    /\ TreeType
    /\ TreeLinks

(* The tree begins with blueprints nobody has given anything. *)
LEMMA TreeInit == Init => TreeInv
<1> SUFFICES ASSUME Init PROVE TreeInv
  OBVIOUS
<1>1. /\ setup \in Setups /\ calls = setup.calls /\ serving = FALSE
      /\ bps = [b \in Blueprints |-> NewBlueprint]
  BY DEF Init
<1>2. TreeType
  BY <1>1 DEF TreeType, BlueprintType, NewBlueprint
<1>3. TreeLinks
  BY <1>1, BlueprintsAssumption
     DEF TreeLinks, NewBlueprint, IsChildOf, Direct
<1> QED BY <1>1, <1>2, <1>3 DEF TreeInv

-----------------------------------------------------------------------------
(* sort_error_handlers() *)

(* No handler comes after one for a superclass of its class. *)
Sorted(handlers) ==
    \A i, j \in DOMAIN handlers :
        i < j => handlers[i].class \notin Supers[handlers[j].class]

(* A turn of sort_error_handlers(), on a record of its deque and its list. *)
SortTurn(s) ==
    IF s.keys = <<>> THEN s
    ELSE LET key == Last(s.keys)
             rest == Front(s.keys)
             found == \E j \in DOMAIN rest :
                          rest[j].class \in Supers[key.class]
         IN  IF found THEN [s EXCEPT !.keys = <<key>> \o rest]
             ELSE [keys |-> rest, cache |-> Append(s.cache, key)]

(* What was taken comes before its superclasses, and so does what is left. *)
SortState(S) ==
    {s \in [keys : Seq(S), cache : Seq(S)] :
        /\ \A i \in DOMAIN s.cache, j \in DOMAIN s.keys :
              s.keys[j].class \notin Supers[s.cache[i].class]
        /\ \A i, j \in DOMAIN s.cache :
              i < j => s.cache[j].class \notin Supers[s.cache[i].class]}

(* The deque without its right end, and with that at the left. *)
LEMMA Deque ==
    ASSUME NEW S, NEW q \in Seq(S), q # <<>>
    PROVE  /\ Last(q) \in S /\ Front(q) \in Seq(S)
           /\ Len(q) \in DOMAIN q /\ Last(q) = q[Len(q)]
           /\ \A j \in DOMAIN Front(q) :
                 j \in DOMAIN q /\ Front(q)[j] = q[j]
           /\ <<Last(q)>> \o Front(q) \in Seq(S)
           /\ \A j \in DOMAIN (<<Last(q)>> \o Front(q)) :
                 \E i \in DOMAIN q : (<<Last(q)>> \o Front(q))[j] = q[i]
<1>1. PICK n \in Nat : n = Len(q) /\ DOMAIN q = 1..n /\ n # 0
  OBVIOUS
<1>2. Last(q) \in S /\ n \in DOMAIN q /\ Last(q) = q[n]
  BY <1>1 DEF Last
<1>3. /\ Front(q) \in Seq(S) /\ Len(Front(q)) = n - 1
      /\ \A j \in 1..n - 1 : Front(q)[j] = q[j]
  BY <1>1 DEF Front
<1>4. PICK f, l : f = Front(q) /\ l = Last(q)
  OBVIOUS
<1>5. /\ <<l>> \o f \in Seq(S) /\ Len(<<l>> \o f) = n
      /\ (<<l>> \o f)[1] = l
      /\ \A j \in 2..n : (<<l>> \o f)[j] = f[j - 1]
  BY <1>1, <1>2, <1>3, <1>4
<1>6. ASSUME NEW j \in DOMAIN (<<l>> \o f)
      PROVE  \E i \in DOMAIN q : (<<l>> \o f)[j] = q[i]
  <2>1. j \in 1..n
    BY <1>5
  <2>2. CASE j = 1
    BY <1>2, <1>4, <1>5, <2>2
  <2>3. CASE j # 1
    <3>1. j \in 2..n /\ j - 1 \in 1..n - 1 /\ j - 1 \in 1..n
      BY <1>1, <2>1, <2>3
    <3>2. (<<l>> \o f)[j] = q[j - 1]
      BY <1>3, <1>4, <1>5, <3>1
    <3> QED BY <1>1, <3>1, <3>2
  <2> QED BY <2>2, <2>3
<1>7. \A j \in DOMAIN Front(q) : j \in DOMAIN q /\ Front(q)[j] = q[j]
  BY <1>1, <1>3
<1> QED BY <1>1, <1>2, <1>3, <1>4, <1>5, <1>6, <1>7

(* A turn of sort_error_handlers() leaves what was taken before its        *)
(* superclasses.                                                           *)
LEMMA SortTurnKeeps ==
    ASSUME NEW S, NEW s \in SortState(S)
    PROVE  SortTurn(s) \in SortState(S)
<1>1. /\ s \in [keys : Seq(S), cache : Seq(S)]
      /\ \A i \in DOMAIN s.cache, j \in DOMAIN s.keys :
            s.keys[j].class \notin Supers[s.cache[i].class]
      /\ \A i, j \in DOMAIN s.cache :
            i < j => s.cache[j].class \notin Supers[s.cache[i].class]
  BY DEF SortState
<1>2. CASE s.keys = <<>>
  BY <1>2 DEF SortTurn
<1>3. CASE s.keys # <<>>
  <2>1. PICK q, c, key, rest :
            /\ q = s.keys /\ c = s.cache /\ key = Last(q) /\ rest = Front(q)
    OBVIOUS
  <2>2. q \in Seq(S) /\ c \in Seq(S) /\ q # <<>>
    BY <1>1, <1>3, <2>1
  <2>3. /\ key \in S /\ rest \in Seq(S)
        /\ Len(q) \in DOMAIN q /\ key = q[Len(q)]
        /\ \A j \in DOMAIN rest : j \in DOMAIN q /\ rest[j] = q[j]
        /\ <<key>> \o rest \in Seq(S)
        /\ \A j \in DOMAIN (<<key>> \o rest) :
              \E i \in DOMAIN q : (<<key>> \o rest)[j] = q[i]
    BY ZenonT(30), <2>1, <2>2, Deque
  <2>4. CASE \E j \in DOMAIN rest : rest[j].class \in Supers[key.class]
    <3>1. SortTurn(s) = [keys |-> <<key>> \o rest, cache |-> c]
      BY <1>1, <1>3, <2>1, <2>4 DEF SortTurn
    <3>2. PICK r, t : r = <<key>> \o rest /\ t = [keys |-> r, cache |-> c]
      OBVIOUS
    <3>3. /\ t \in [keys : Seq(S), cache : Seq(S)]
          /\ t.keys = r /\ t.cache = c
      BY <2>2, <2>3, <3>2
    <3>4. \A i \in DOMAIN c, j \in DOMAIN r :
              r[j].class \notin Supers[c[i].class]
      BY <1>1, <2>1, <2>3, <3>2
    <3> QED BY <1>1, <2>1, <3>1, <3>2, <3>3, <3>4 DEF SortState
  <2>5. CASE ~\E j \in DOMAIN rest : rest[j].class \in Supers[key.class]
    <3>1. SortTurn(s) = [keys |-> rest, cache |-> Append(c, key)]
      BY <1>1, <1>3, <2>1, <2>5 DEF SortTurn
    <3>2. PICK d, t : d = Append(c, key) /\ t = [keys |-> rest, cache |-> d]
      OBVIOUS
    <3>3. /\ d \in Seq(S) /\ DOMAIN d = 1..Len(c) + 1
          /\ DOMAIN c = 1..Len(c) /\ Len(c) \in Nat
          /\ d[Len(c) + 1] = key
          /\ \A i \in DOMAIN c : d[i] = c[i]
      BY <2>2, <2>3, <3>2
    <3>4. /\ t \in [keys : Seq(S), cache : Seq(S)]
          /\ t.keys = rest /\ t.cache = d
      BY <2>3, <3>2, <3>3
    <3>5. ASSUME NEW i \in DOMAIN d, NEW j \in DOMAIN rest
          PROVE  rest[j].class \notin Supers[d[i].class]
      <4>1. CASE i = Len(c) + 1
        BY <2>5, <3>3, <4>1
      <4>2. CASE i # Len(c) + 1
        <5>1. i \in DOMAIN c /\ d[i] = c[i]
          BY <3>3, <4>2
        <5> QED BY <1>1, <2>1, <2>3, <5>1
      <4> QED BY <4>1, <4>2
    <3>6. ASSUME NEW i \in DOMAIN d, NEW j \in DOMAIN d, i < j
          PROVE  d[j].class \notin Supers[d[i].class]
      <4>1. i \in DOMAIN c /\ d[i] = c[i]
        BY <3>3, <3>6
      <4>2. CASE j = Len(c) + 1
        BY <1>1, <2>1, <2>3, <3>3, <4>1, <4>2
      <4>3. CASE j # Len(c) + 1
        <5>1. j \in DOMAIN c /\ d[j] = c[j]
          BY <3>3, <4>3
        <5> QED BY <1>1, <2>1, <3>6, <4>1, <5>1
      <4> QED BY <4>2, <4>3
    <3> QED BY <3>1, <3>2, <3>4, <3>5, <3>6 DEF SortState
  <2> QED BY <2>4, <2>5
<1> QED BY <1>2, <1>3

(* sort_error_handlers() sorts, and makes no handler up. *)
LEMMA SortIsOk ==
    ASSUME NEW S, NEW handlers \in Seq(S)
    PROVE  /\ SortErrorHandlers(handlers) \in Seq(S)
           /\ Sorted(SortErrorHandlers(handlers))
<1>1. PICK n \in Nat : n = Len(handlers)
  OBVIOUS
<1>2. PICK k \in Nat : k = n * n
  OBVIOUS
<1> DEFINE d == [i \in 1..n * n |-> i]
           base == [keys |-> handlers, cache |-> <<>>]
           Good(g) == g = [x \in SUBSET DOMAIN d |->
                              IF x = {} THEN base
                              ELSE SortTurn(g[x \ {Max(x)}])]
           step == [i \in 1..k |-> [s \in SortState(S) |-> SortTurn(s)]]
<1>3. base \in SortState(S)
  <2>1. base \in [keys : Seq(S), cache : Seq(S)] /\ DOMAIN base.cache = {}
    OBVIOUS
  <2> HIDE DEF base
  <2> QED BY <2>1 DEF SortState
<1>4. IsStep(step, k, SortState(S))
  BY SortTurnKeeps DEF IsStep
<1>5. PICK f : FoldsBy(f, k, SortState(S), base, step)
  <2> HIDE DEF step, base
  <2> QED BY <1>3, <1>4, FoldExists
<1> DEFINE h == [x \in SUBSET (1..k) |-> f[x]]
<1>6. ASSUME NEW x \in SUBSET (1..k), x # {}
      PROVE  h[x] = SortTurn(h[x \ {Max(x)}])
  <2>1. Max(x) \in 1..k /\ x \ {Max(x)} \in SUBSET (1..k)
    BY <1>6, MaxExists
  <2>2. /\ f[x \ {Max(x)}] \in SortState(S)
        /\ f[x] = step[Max(x)][f[x \ {Max(x)}]]
    BY <1>5, <1>6, <2>1 DEF FoldsBy
  <2> HIDE DEF base
  <2> QED BY <2>1, <2>2
<1>7. h[{}] = base
  <2> HIDE DEF base
  <2> QED BY <1>5 DEF FoldsBy
<1>8. Good(h)
  <2>1. DOMAIN d = 1..k
    BY <1>2
  <2> HIDE DEF d, base
  <2> QED BY <1>6, <1>7, <2>1
<1>9. Good(CHOOSE g : Good(g))
  <2> HIDE DEF Good
  <2> QED BY <1>8
<1>10. SortErrorHandlers(handlers) =
           Reverse((CHOOSE g : Good(g))[DOMAIN d].cache)
  BY <1>1 DEF SortErrorHandlers, FoldLeft, MapThenFoldSet, SortTurn
<1>11. PICK g : Good(g)
                /\ SortErrorHandlers(handlers) = Reverse(g[DOMAIN d].cache)
  <2> HIDE DEF Good
  <2> QED BY <1>9, <1>10
<1> DEFINE T == {i \in 0..k : g[1..i] \in SortState(S)}
<1>12. 0 \in T
  <2>1. 1..0 = {} /\ 0 \in 0..k
    OBVIOUS
  <2>2. g[{}] = base
    <3> HIDE DEF base
    <3> QED BY <1>11
  <2> HIDE DEF base
  <2> QED BY <1>3, <2>1, <2>2
<1>13. ASSUME NEW i \in 1..k, i - 1 \in T PROVE i \in T
  <2>1. /\ 1..i \in SUBSET (1..k) /\ 1..i # {}
        /\ Max(1..i) = i /\ (1..i) \ {i} = 1..i - 1
    BY FoldSteps
  <2>2. DOMAIN d = 1..k /\ i \in 0..k
    BY <1>2
  <2>3. g[1..i] = SortTurn(g[1..i - 1])
    <3> HIDE DEF d, base
    <3> QED BY <1>11, <2>1, <2>2
  <2> QED BY <1>13, <2>2, <2>3, SortTurnKeeps
<1>14. g[DOMAIN d] \in SortState(S)
  <2>1. k \in 0..k /\ DOMAIN d = 1..k
    BY <1>2
  <2>2. 0..k \subseteq T
    <3> HIDE DEF T
    <3> QED BY <1>12, <1>13, InductionTo
  <2> QED BY <2>1, <2>2
<1>15. PICK c : c = g[DOMAIN d].cache
  OBVIOUS
<1>16. /\ c \in Seq(S)
       /\ \A i, j \in DOMAIN c : i < j => c[j].class \notin Supers[c[i].class]
  <2> HIDE DEF d
  <2> QED BY <1>14, <1>15 DEF SortState
<1>17. PICK m \in Nat : m = Len(c) /\ DOMAIN c = 1..m
  BY <1>16
<1>18. PICK r : r = Reverse(c)
  OBVIOUS
<1>19. r = [i \in 1..m |-> c[(m - i) + 1]]
  BY <1>17, <1>18 DEF Reverse
<1>20. \A i \in 1..m : (m - i) + 1 \in 1..m
  OBVIOUS
<1>21. r \in Seq(S)
  BY <1>16, <1>17, <1>19, <1>20
<1>22. Sorted(r)
  <2> SUFFICES ASSUME NEW i \in 1..m, NEW j \in 1..m, i < j
               PROVE  r[i].class \notin Supers[r[j].class]
    BY <1>19 DEF Sorted
  <2>1. (m - j) + 1 < (m - i) + 1
    OBVIOUS
  <2> QED BY <1>16, <1>17, <1>19, <1>20, <2>1
<1> QED BY <1>11, <1>15, <1>18, <1>21, <1>22

(* What a registration call of one kind may give. *)
LEMMA GivenTypes ==
    ASSUME TreeInv, NEW c \in calls
    PROVE  /\ c \in setup.calls /\ c.in \in Blueprints
           /\ c.op = "route" => c.route \in RoutesOf({c.in})
           /\ c.op = "hook" => c.hook \in HooksGiven
           /\ c.op = "handler" => c.handler \in HandlersGiven(c.in)
           /\ c.op = "blueprint" =>
                 /\ c.child \in Blueprints \ {App}
                 /\ [child |-> c.child, prefixes |-> c.prefixes] \in Children
                 /\ c \in CallsFor("blueprint")
<1>1. c \in setup.calls /\ setup \in Setups
  BY DEF TreeInv
<1>2. c.op = "handler" => c.handler \in HandlersGiven(c.in)
  BY <1>1, SetupsAssumption DEF HandlersGiven, CallsFor
<1>3. c.op = "hook" => c.hook \in HooksGiven
  BY <1>1 DEF HooksGiven, CallsFor
<1> QED BY <1>1, <1>2, <1>3, SetupsAssumption DEF Children, CallsFor

(* Routes, hooks and handlers leave the tree as it is. *)
LEMMA SameShape ==
    ASSUME TreeInv, setup' = setup, calls' \subseteq calls,
           serving' => calls' = {}, TreeType',
           \A b \in Blueprints :
               /\ bps'[b].parent = bps[b].parent
               /\ bps'[b].children = bps[b].children
               /\ bps'[b].moved = bps[b].moved
    PROVE  TreeInv'
<1>1. App \in Blueprints /\ TreeLinks
  BY BlueprintsAssumption DEF TreeInv
<1>2. \A b, c \in Blueprints : IsChildOf(c, b)' <=> IsChildOf(c, b)
  BY DEF IsChildOf
<1>3. \A b \in Blueprints : Direct(b)' <=> Direct(b)
  BY DEF Direct
<1>4. CallsFor("blueprint")' = CallsFor("blueprint")
  BY DEF CallsFor
<1>5. TreeLinks'
  BY <1>1, <1>2, <1>3, <1>4 DEF TreeLinks
<1> QED BY <1>5 DEF TreeInv

(* One blueprint changes. *)
LEMMA OneChanges ==
    ASSUME TreeInv, setup' = setup, NEW b \in Blueprints, NEW new,
           new \in BlueprintType(b), bps' = [bps EXCEPT ![b] = new]
    PROVE  TreeType'
<1>1. \A a \in Blueprints : BlueprintType(a)' = BlueprintType(a)
  BY DEF BlueprintType, HooksGiven, HandlersGiven, CallsFor
<1>2. /\ DOMAIN bps = Blueprints
      /\ \A a \in Blueprints : bps[a] \in BlueprintType(a)
  BY DEF TreeInv, TreeType
<1>3. /\ DOMAIN bps' = Blueprints
      /\ \A a \in Blueprints : bps'[a] = IF a = b THEN new ELSE bps[a]
  BY <1>2
<1>4. \A a \in Blueprints : bps'[a] \in BlueprintType(a)
  BY <1>2, <1>3
<1> QED BY <1>1, <1>3, <1>4 DEF TreeType

(* A handler is set where its class was, or comes last. *)
LEMMA SetHandlerType ==
    ASSUME NEW S, NEW handlers \in Seq(S), NEW h \in S
    PROVE  SetHandler(handlers, h) \in Seq(S)
<1>1. Append(handlers, h) \in Seq(S)
  OBVIOUS
<1>2. PICK n \in Nat : n = Len(handlers) /\ DOMAIN handlers = 1..n
  OBVIOUS
<1>3. \A i \in 1..n : handlers[i] \in S
  BY <1>2
<1>4. ASSUME NEW same
      PROVE  [i \in 1..n |-> IF i \in same THEN h ELSE handlers[i]] \in Seq(S)
  BY <1>3
<1> QED BY <1>1, <1>2, <1>4 DEF SetHandler

(* A call of route() keeps the tree. *)
LEMMA RouteTree ==
    ASSUME TreeInv, NEW c \in calls, RegisterRoute(c)
    PROVE  TreeInv'
<1>1. /\ setup' = setup /\ calls' = calls \ {c} /\ serving' = serving
      /\ bps' = [bps EXCEPT ![c.in].routes = Append(@, c.route)]
      /\ c.op = "route" /\ ~serving
  BY DEF RegisterRoute, Made, WithRoute, Calls
<1>2. PICK b \in Blueprints : b = c.in
  BY <1>1, GivenTypes
<1>0. PICK route : route = c.route /\ route \in RoutesOf({b})
  BY <1>1, <1>2, GivenTypes
<1>3. PICK xs, S, new :
          /\ xs = Append(bps[b].routes, route) /\ S = RoutesOf({b})
          /\ new = [bps[b] EXCEPT !.routes = xs]
  OBVIOUS
<1>4. bps[b] \in BlueprintType(b) /\ DOMAIN bps = Blueprints
  BY DEF TreeInv, TreeType
<1>8. xs \in Seq(S)
  <2>1. bps[b].routes \in Seq(S) /\ route \in S
    BY <1>0, <1>2, <1>3, <1>4 DEF BlueprintType
  <2>2. PICK ys : ys = bps[b].routes
    OBVIOUS
  <2> QED BY <1>3, <2>1, <2>2
<1>5. /\ new \in BlueprintType(b)
      /\ new.parent = bps[b].parent /\ new.children = bps[b].children
      /\ new.moved = bps[b].moved
  BY <1>3, <1>4, <1>8 DEF BlueprintType
<1>6. bps' = [bps EXCEPT ![b] = new]
  BY <1>1, <1>0, <1>2, <1>3, <1>4
<1>7. TreeType'
  BY <1>1, <1>5, <1>6, OneChanges
<1> QED BY <1>1, <1>4, <1>5, <1>6, <1>7, SameShape

(* A call of handle() with a hook keeps the tree. *)
LEMMA HookTree ==
    ASSUME TreeInv, NEW c \in calls, RegisterHook(c)
    PROVE  TreeInv'
<1>1. /\ setup' = setup /\ calls' = calls \ {c} /\ serving' = serving
      /\ bps' = [bps EXCEPT ![c.in].hooks = Append(@, c.hook)]
      /\ c.op = "hook" /\ ~serving
  BY DEF RegisterHook, Made, WithHook, Calls
<1>2. PICK b \in Blueprints, hook \in HooksGiven : b = c.in /\ hook = c.hook
  BY <1>1, GivenTypes
<1>3. PICK xs, S, new :
          /\ xs = Append(bps[b].hooks, hook) /\ S = HooksGiven
          /\ new = [bps[b] EXCEPT !.hooks = xs]
  OBVIOUS
<1>4. bps[b] \in BlueprintType(b) /\ DOMAIN bps = Blueprints
  BY DEF TreeInv, TreeType
<1>8. xs \in Seq(S)
  <2>1. bps[b].hooks \in Seq(S) /\ hook \in S
    BY <1>2, <1>3, <1>4 DEF BlueprintType
  <2>2. PICK ys : ys = bps[b].hooks
    OBVIOUS
  <2> QED BY <1>3, <2>1, <2>2
<1>5. /\ new \in BlueprintType(b)
      /\ new.parent = bps[b].parent /\ new.children = bps[b].children
      /\ new.moved = bps[b].moved
  BY <1>3, <1>4, <1>8 DEF BlueprintType
<1>6. bps' = [bps EXCEPT ![b] = new]
  BY <1>1, <1>2, <1>3, <1>4
<1>7. TreeType'
  BY <1>1, <1>5, <1>6, OneChanges
<1> QED BY <1>1, <1>4, <1>5, <1>6, <1>7, SameShape

(* A call of handle() with an exception handler keeps the tree. *)
LEMMA HandlerTree ==
    ASSUME TreeInv, NEW c \in calls, RegisterHandler(c)
    PROVE  TreeInv'
<1>1. /\ setup' = setup /\ calls' = calls \ {c} /\ serving' = serving
      /\ bps' = [bps EXCEPT ![c.in].handlers = SetHandler(@, c.handler)]
      /\ c.op = "handler" /\ ~serving
  BY DEF RegisterHandler, Made, WithHandler, Calls
<1>2. PICK b \in Blueprints : b = c.in
  BY <1>1, GivenTypes
<1>0. PICK h : h = c.handler /\ h \in HandlersGiven(b)
  BY <1>1, <1>2, GivenTypes
<1>4. bps[b] \in BlueprintType(b) /\ DOMAIN bps = Blueprints
  BY DEF TreeInv, TreeType
<1>3. PICK hs, S, new :
          /\ hs = SetHandler(bps[b].handlers, h) /\ S = HandlersGiven(b)
          /\ new = [bps[b] EXCEPT !.handlers = hs]
  OBVIOUS
<1>8. hs \in Seq(S)
  <2>1. bps[b].handlers \in Seq(S) /\ h \in S
    BY <1>0, <1>2, <1>3, <1>4 DEF BlueprintType
  <2> QED BY <1>3, <2>1, SetHandlerType
<1>5. /\ new \in BlueprintType(b)
      /\ new.parent = bps[b].parent /\ new.children = bps[b].children
      /\ new.moved = bps[b].moved
  BY <1>3, <1>4, <1>8 DEF BlueprintType
<1>6. bps' = [bps EXCEPT ![b] = new]
  BY <1>1, <1>0, <1>2, <1>3, <1>4
<1>7. TreeType'
  BY <1>1, <1>5, <1>6, OneChanges
<1> QED BY <1>1, <1>4, <1>5, <1>6, <1>7, SameShape

(* The blueprints after a step. *)
LEMMA NextType ==
    ASSUME setup' = setup, DOMAIN bps' = Blueprints,
           \A x \in Blueprints : bps'[x] \in BlueprintType(x)
    PROVE  TreeType'
<1>1. \A x \in Blueprints : BlueprintType(x)' = BlueprintType(x)
  BY DEF BlueprintType, HooksGiven, HandlersGiven, CallsFor
<1> QED BY <1>1 DEF TreeType

(* What child and parent become when they are linked. *)
LEMMA LinkTypes ==
    ASSUME TreeInv, NEW c \in calls, c.op = "blueprint",
           NEW pa, pa = [bps[c.in] EXCEPT !.children =
                     Append(@, [child |-> c.child, prefixes |-> c.prefixes])],
           NEW ch, ch = [bps[c.child] EXCEPT !.parent = c.in]
    PROVE  /\ pa \in BlueprintType(c.in)
           /\ ch \in BlueprintType(c.child)
<1>1. c.in \in Blueprints /\ c.child \in Blueprints
      /\ [child |-> c.child, prefixes |-> c.prefixes] \in Children
  BY GivenTypes
<1>2. /\ bps[c.in] \in BlueprintType(c.in)
      /\ bps[c.child] \in BlueprintType(c.child)
  BY <1>1 DEF TreeInv, TreeType
<1>3. PICK xs, ys, link :
          /\ ys = bps[c.in].children
          /\ link = [child |-> c.child, prefixes |-> c.prefixes]
          /\ xs = Append(ys, link)
  OBVIOUS
<1>4. ys \in Seq(Children)
  BY <1>2, <1>3 DEF BlueprintType
<1>5. xs \in Seq(Children)
  BY <1>1, <1>3, <1>4
<1>6. pa = [bps[c.in] EXCEPT !.children = xs]
  BY <1>3
<1>7. pa \in BlueprintType(c.in)
  BY <1>2, <1>5, <1>6 DEF BlueprintType
<1>8. ch \in BlueprintType(c.child)
  BY <1>1, <1>2 DEF BlueprintType
<1> QED BY <1>7, <1>8

(* A new link keeps the tree a tree. *)
LEMMA NewLink ==
    ASSUME TreeInv, setup' = setup, calls' \subseteq calls,
           serving' => calls' = {}, TreeType',
           NEW c \in calls, c.op = "blueprint",
           bps[c.child].parent = Nothing,
           \A y \in Blueprints :
               /\ bps'[y].parent = IF y = c.child THEN c.in ELSE bps[y].parent
               /\ bps'[y].children =
                     IF y = c.in
                     THEN Append(bps[y].children,
                            [child |-> c.child, prefixes |-> c.prefixes])
                     ELSE bps[y].children
               /\ y = c.child => (bps'[y].moved <=> c.in = App)
               /\ y # c.child => (bps'[y].moved <=> bps[y].moved)
    PROVE  TreeInv'
<1>1. PICK b, x, link :
          /\ b = c.in /\ x = c.child
          /\ link = [child |-> c.child, prefixes |-> c.prefixes]
  OBVIOUS
<1>2. /\ b \in Blueprints /\ x \in Blueprints \ {App}
      /\ c \in CallsFor("blueprint") /\ link.child = x
  BY <1>1, GivenTypes
<1>3. /\ App \in Blueprints /\ Nothing \notin Blueprints
      /\ bps[App].parent = Nothing
      /\ \A y, z \in Blueprints : IsChildOf(z, y) <=> bps[z].parent = y
      /\ \A y \in Blueprints : bps[y].moved <=> Direct(y)
      /\ \A y \in Blueprints : bps[y].parent # Nothing =>
            \E l \in CallsFor("blueprint") :
                l.in = bps[y].parent /\ l.child = y
  BY BlueprintsAssumption DEF TreeInv, TreeLinks
<1>4. CallsFor("blueprint")' = CallsFor("blueprint")
  BY DEF CallsFor
<1>5. bps'[App].parent = Nothing
  BY <1>1, <1>2, <1>3
<1>6. ASSUME NEW y \in Blueprints, NEW z \in Blueprints
      PROVE  IsChildOf(z, y)' <=> bps'[z].parent = y
  <2>1. PICK ls, ms : ls = bps[y].children /\ ms = bps'[y].children
    OBVIOUS
  <2>2. ls \in Seq(Children)
    BY <2>1 DEF TreeInv, TreeType, BlueprintType
  <2>3. IsChildOf(z, y)' <=> \E i \in DOMAIN ms : ms[i].child = z
    BY <2>1 DEF IsChildOf
  <2>4. IsChildOf(z, y) <=> \E i \in DOMAIN ls : ls[i].child = z
    BY <2>1 DEF IsChildOf
  <2>5. CASE y = b
    <3>1. ms = Append(ls, link)
      BY <1>1, <2>1, <2>5
    <3>2. /\ DOMAIN ms = DOMAIN ls \cup {Len(ls) + 1}
          /\ ms[Len(ls) + 1] = link
          /\ \A i \in DOMAIN ls : ms[i] = ls[i]
      BY <2>2, <3>1
    <3>3. IsChildOf(z, y)' <=> IsChildOf(z, y) \/ z = x
      BY <1>2, <2>3, <2>4, <3>2
    <3> QED BY <1>1, <1>3, <2>5, <3>3
  <2>6. CASE y # b
    <3>1. IsChildOf(z, y)' <=> IsChildOf(z, y)
      BY <1>1, <2>1, <2>3, <2>4, <2>6
    <3> QED BY <1>1, <1>3, <2>6, <3>1
  <2> QED BY <2>5, <2>6
<1>7. ASSUME NEW y \in Blueprints
      PROVE  bps'[y].moved <=> Direct(y)'
  <2>1. /\ Direct(y)' <=> bps'[y].parent = App
        /\ bps[y].moved <=> bps[y].parent = App
    BY <1>3 DEF Direct
  <2>2. CASE y = x
    <3>1. bps'[y].moved <=> b = App
      BY <1>1, <2>2
    <3>2. bps'[y].parent = b
      BY <1>1, <2>2
    <3> QED BY <2>1, <3>1, <3>2
  <2>3. CASE y # x
    <3>1. bps'[y].moved <=> bps[y].moved
      BY <1>1, <2>3
    <3>2. bps'[y].parent = bps[y].parent
      BY <1>1, <2>3
    <3> QED BY <2>1, <3>1, <3>2
  <2> QED BY <2>2, <2>3
<1>8. ASSUME NEW y \in Blueprints, bps'[y].parent # Nothing
      PROVE  \E l \in CallsFor("blueprint") :
                 l.in = bps'[y].parent /\ l.child = y
  BY <1>1, <1>2, <1>3, <1>8
<1>9. TreeLinks'
  BY <1>4, <1>5, <1>6, <1>7, <1>8 DEF TreeLinks
<1> QED BY <1>9 DEF TreeInv

(* A call of Blueprint.add_blueprint() keeps the tree. *)
LEMMA NestTree ==
    ASSUME TreeInv, NEW c \in calls, NestBlueprint(c)
    PROVE  TreeInv'
<1>1. /\ setup' = setup /\ calls' = calls \ {c} /\ serving' = serving
      /\ c.op = "blueprint" /\ ~serving
      /\ c.in # App /\ bps[c.child].parent = Nothing
      /\ bps' = Nested(bps, c.in, c.child, c.prefixes)
  BY DEF NestBlueprint, Made, Calls
<1>2. /\ c.in \in Blueprints /\ c.child \in Blueprints
      /\ c.child # c.in /\ DOMAIN bps = Blueprints
  BY <1>1, GivenTypes, SetupsAssumption DEF TreeInv, TreeType
<1>3. PICK pa, ch :
          /\ pa = [bps[c.in] EXCEPT !.children =
                     Append(@, [child |-> c.child, prefixes |-> c.prefixes])]
          /\ ch = [bps[c.child] EXCEPT !.parent = c.in]
  OBVIOUS
<1>4. /\ pa \in BlueprintType(c.in)
      /\ ch \in BlueprintType(c.child)
  BY <1>1, <1>3, LinkTypes
<1>5. bps' = [bps EXCEPT ![c.child] = ch, ![c.in] = pa]
  BY <1>1, <1>2, <1>3 DEF Nested
<1>6. /\ TreeType'
      /\ \A y \in Blueprints :
            bps'[y] = IF y = c.child THEN ch ELSE IF y = c.in THEN pa
                      ELSE bps[y]
  <2>0. setup' = setup
    BY <1>1
  <2>1. /\ DOMAIN bps' = Blueprints
        /\ \A y \in Blueprints :
              bps'[y] = IF y = c.child THEN ch ELSE IF y = c.in THEN pa
                        ELSE bps[y]
    BY <1>2, <1>5
  <2>2. \A y \in Blueprints : bps[y] \in BlueprintType(y)
    BY DEF TreeInv, TreeType
  <2>3. \A y \in Blueprints : bps'[y] \in BlueprintType(y)
    BY <1>2, <1>4, <2>1, <2>2
  <2>4. TreeType'
    BY <2>0, <2>1, <2>3, NextType
  <2> QED BY <2>1, <2>4
<1>7. /\ bps[c.in] \in BlueprintType(c.in)
      /\ bps[c.child] \in BlueprintType(c.child)
      /\ ~bps[c.child].moved
  BY <1>1, <1>2, BlueprintsAssumption
     DEF TreeInv, TreeType, TreeLinks, Direct
<1>8. /\ ch.parent = c.in /\ ch.children = bps[c.child].children
      /\ ch.moved = bps[c.child].moved
      /\ pa.parent = bps[c.in].parent /\ pa.moved = bps[c.in].moved
      /\ pa.children = Append(bps[c.in].children,
                            [child |-> c.child, prefixes |-> c.prefixes])
  BY <1>3, <1>7 DEF BlueprintType
<1>9. \A y \in Blueprints :
          /\ bps'[y].parent = IF y = c.child THEN c.in ELSE bps[y].parent
          /\ bps'[y].children =
                IF y = c.in
                THEN Append(bps[y].children,
                       [child |-> c.child, prefixes |-> c.prefixes])
                ELSE bps[y].children
          /\ y = c.child => (bps'[y].moved <=> c.in = App)
          /\ y # c.child => (bps'[y].moved <=> bps[y].moved)
  BY <1>1, <1>2, <1>6, <1>7, <1>8
<1> QED BY <1>1, <1>6, <1>9, NewLink

(* A call of Vibora.add_blueprint() keeps the tree. *)
LEMMA AddTree ==
    ASSUME TreeInv, NEW c \in calls, AddBlueprint(c)
    PROVE  TreeInv'
<1>1. /\ setup' = setup /\ calls' = calls \ {c} /\ serving' = serving
      /\ c.op = "blueprint" /\ ~serving
      /\ c.in = App /\ bps[c.child].parent = Nothing
      /\ bps' = WithBlueprint(bps, c.child, c.prefixes)
  BY DEF AddBlueprint, Made, Calls
<1>2. /\ c.in \in Blueprints /\ c.child \in Blueprints
      /\ c.child # c.in /\ c.in = App /\ DOMAIN bps = Blueprints
  BY <1>1, GivenTypes DEF TreeInv, TreeType
<1>3. PICK pa, ch :
          /\ pa = [bps[App] EXCEPT !.children =
                     Append(@, [child |-> c.child, prefixes |-> c.prefixes])]
          /\ ch = [bps[c.child] EXCEPT !.parent = App]
  OBVIOUS
<1>4. pa \in BlueprintType(App) /\ ch \in BlueprintType(c.child)
  BY <1>1, <1>3, LinkTypes
<1>5. PICK tree : tree = [bps EXCEPT ![c.child] = ch, ![App] = pa]
  OBVIOUS
<1>6. /\ tree = Nested(bps, App, c.child, c.prefixes)
      /\ tree[c.child] = ch /\ tree[App] = pa
  BY <1>1, <1>2, <1>3, <1>5 DEF Nested
<1>7. PICK hooks, global, local :
          /\ hooks = ch.hooks
          /\ global = Only(hooks, LAMBDA h : ~h.local)
          /\ local = Only(hooks, LAMBDA h : h.local)
  OBVIOUS
<1>8. bps' = [tree EXCEPT ![App].hooks = @ \o global,
                          ![c.child].hooks = local, ![c.child].moved = TRUE]
  BY <1>1, <1>6, <1>7 DEF WithBlueprint, Moved
<1>9. PICK xs, newa, newc :
          /\ xs = pa.hooks \o global
          /\ newa = [pa EXCEPT !.hooks = xs]
          /\ newc = [ch EXCEPT !.hooks = local, !.moved = TRUE]
  OBVIOUS
<1>10. bps' = [bps EXCEPT ![c.child] = newc, ![App] = newa]
  BY <1>1, <1>2, <1>5, <1>6, <1>8, <1>9
<1>11. global \in Seq(HooksGiven) /\ local \in Seq(HooksGiven)
  <2>1. hooks \in Seq(HooksGiven)
    BY <1>4, <1>7 DEF BlueprintType
  <2> DEFINE g == {i \in DOMAIN hooks : ~hooks[i].local}
             l == {i \in DOMAIN hooks : hooks[i].local}
  <2>2. global = Chosen(hooks, g) /\ local = Chosen(hooks, l)
    BY <1>7 DEF Only
  <2>3. g \in SUBSET DOMAIN hooks /\ l \in SUBSET DOMAIN hooks
    OBVIOUS
  <2> HIDE DEF g, l
  <2> QED BY <2>1, <2>2, <2>3, ChosenElements
<1>12. xs \in Seq(HooksGiven)
  <2>1. PICK ys : ys = pa.hooks
    OBVIOUS
  <2>2. ys \in Seq(HooksGiven)
    BY <1>4, <2>1 DEF BlueprintType
  <2> QED BY <1>9, <1>11, <2>1, <2>2
<1>13. newa \in BlueprintType(App) /\ newc \in BlueprintType(c.child)
  <2>1. newa \in BlueprintType(App)
    BY <1>4, <1>9, <1>12 DEF BlueprintType
  <2>2. newc \in BlueprintType(c.child)
    BY <1>4, <1>9, <1>11 DEF BlueprintType
  <2> QED BY <2>1, <2>2
<1>14. /\ TreeType'
       /\ \A y \in Blueprints :
             bps'[y] = IF y = c.child THEN newc ELSE IF y = App THEN newa
                       ELSE bps[y]
  <2>0. setup' = setup
    BY <1>1
  <2>1. /\ DOMAIN bps' = Blueprints
        /\ \A y \in Blueprints :
              bps'[y] = IF y = c.child THEN newc ELSE IF y = App THEN newa
                        ELSE bps[y]
    BY <1>2, <1>10
  <2>2. \A y \in Blueprints : bps[y] \in BlueprintType(y)
    BY DEF TreeInv, TreeType
  <2>3. \A y \in Blueprints : bps'[y] \in BlueprintType(y)
    BY <1>2, <1>13, <2>1, <2>2
  <2>4. TreeType'
    BY <2>0, <2>1, <2>3, NextType
  <2> QED BY <2>1, <2>4
<1>15. /\ bps[App] \in BlueprintType(App)
       /\ bps[c.child] \in BlueprintType(c.child)
  BY <1>1, <1>2 DEF TreeInv, TreeType
<1>16. /\ newc.parent = App /\ newc.children = bps[c.child].children
       /\ newc.moved = TRUE
       /\ newa.parent = bps[App].parent /\ newa.moved = bps[App].moved
       /\ newa.children = Append(bps[App].children,
                            [child |-> c.child, prefixes |-> c.prefixes])
  BY <1>3, <1>4, <1>9, <1>15 DEF BlueprintType
<1>17. \A y \in Blueprints :
          /\ bps'[y].parent = IF y = c.child THEN c.in ELSE bps[y].parent
          /\ bps'[y].children =
                IF y = c.in
                THEN Append(bps[y].children,
                       [child |-> c.child, prefixes |-> c.prefixes])
                ELSE bps[y].children
          /\ y = c.child => (bps'[y].moved <=> c.in = App)
          /\ y # c.child => (bps'[y].moved <=> bps[y].moved)
  BY ZenonT(30), <1>1, <1>2, <1>14, <1>16
<1> QED BY <1>1, <1>14, <1>17, NewLink

(* A default handler that is missing. *)
WithMissing(hs, h) ==
    IF \E i \in DOMAIN hs : hs[i].class = h.class THEN hs ELSE Append(hs, h)

(* A default handler is one more element of the list of handlers. *)
LEMMA WithMissingType ==
    ASSUME NEW S, NEW hs \in Seq(S), NEW h \in S
    PROVE  WithMissing(hs, h) \in Seq(S)
<1>1. Append(hs, h) \in Seq(S)
  OBVIOUS
<1> QED BY <1>1 DEF WithMissing

(* The handlers of the application when it starts are sorted. *)
LEMMA WithDefaultsIsOk ==
    ASSUME NEW S, DefaultHandlers \subseteq S, NEW handlers \in Seq(S)
    PROVE  /\ WithDefaults(handlers) \in Seq(S)
           /\ Sorted(WithDefaults(handlers))
<1>1. PICK forced, d :
          /\ forced = SetHandler(handlers,
                 DefaultHandler("MissingComponent", "MissingComponent"))
          /\ d = <<DefaultHandler("Exception", "Exception"),
                   DefaultHandler("NotFound", Nothing),
                   DefaultHandler("MethodNotAllowed", "Request")>>
  OBVIOUS
<1>2. forced \in Seq(S)
  <2>1. DefaultHandler("MissingComponent", "MissingComponent") \in S
    BY DEF DefaultHandlers
  <2> QED BY <1>1, <2>1, SetHandlerType
<1>3. DOMAIN d = 1..3 /\ \A i \in 1..3 : d[i] \in S
  <2>1. /\ DefaultHandler("Exception", "Exception") \in S
        /\ DefaultHandler("NotFound", Nothing) \in S
        /\ DefaultHandler("MethodNotAllowed", "Request") \in S
    BY DEF DefaultHandlers
  <2> QED BY <1>1, <2>1
<1> DEFINE Good(g) == g = [x \in SUBSET DOMAIN d |->
                              IF x = {} THEN forced
                              ELSE WithMissing(g[x \ {Max(x)}], d[Max(x)])]
           step == [i \in 1..3 |-> [hs \in Seq(S) |-> WithMissing(hs, d[i])]]
<1>4. IsStep(step, 3, Seq(S))
  BY <1>3, WithMissingType DEF IsStep
<1>5. PICK f : FoldsBy(f, 3, Seq(S), forced, step)
  <2>1. 3 \in Nat
    OBVIOUS
  <2> HIDE DEF step
  <2> QED BY <1>2, <1>4, <2>1, FoldExists
<1> DEFINE h == [x \in SUBSET (1..3) |-> f[x]]
<1>6. ASSUME NEW x \in SUBSET (1..3), x # {}
      PROVE  h[x] = WithMissing(h[x \ {Max(x)}], d[Max(x)])
  <2>1. Max(x) \in 1..3 /\ x \ {Max(x)} \in SUBSET (1..3)
    <3>1. 3 \in Nat
      OBVIOUS
    <3>2. Max(x) \in x
      BY <1>6, <3>1, MaxExists
    <3>3. PICK m : m = Max(x)
      OBVIOUS
    <3> QED BY <3>2, <3>3
  <2>2. /\ f[x \ {Max(x)}] \in Seq(S)
        /\ f[x] = step[Max(x)][f[x \ {Max(x)}]]
    BY <1>5, <1>6, <2>1 DEF FoldsBy
  <2> QED BY <2>1, <2>2
<1>7. h[{}] = forced
  BY <1>5 DEF FoldsBy
<1>8. Good(h)
  BY <1>3, <1>6, <1>7
<1>9. Good(CHOOSE g : Good(g))
  <2> HIDE DEF Good
  <2> QED BY <1>8
<1>10. WithDefaults(handlers) =
           SortErrorHandlers((CHOOSE g : Good(g))[DOMAIN d])
  BY <1>1 DEF WithDefaults, FoldLeft, MapThenFoldSet, WithMissing
<1>11. PICK g : Good(g)
                /\ WithDefaults(handlers) = SortErrorHandlers(g[DOMAIN d])
  <2> HIDE DEF Good
  <2> QED BY <1>9, <1>10
<1> DEFINE T == {i \in 0..3 : g[1..i] \in Seq(S)}
<1>12. 0 \in T
  <2>1. 1..0 = {} /\ 0 \in 0..3
    OBVIOUS
  <2>2. g[{}] = forced
    BY <1>11
  <2> QED BY <1>2, <2>1, <2>2
<1>13. ASSUME NEW i \in 1..3, i - 1 \in T PROVE i \in T
  <2>1. /\ 1..i \in SUBSET (1..3) /\ 1..i # {}
        /\ Max(1..i) = i /\ (1..i) \ {i} = 1..i - 1
    <3>1. 3 \in Nat
      OBVIOUS
    <3> QED BY <3>1, FoldSteps
  <2>2. g[1..i] = WithMissing(g[1..i - 1], d[i])
    BY <1>3, <1>11, <2>1
  <2>3. i \in 0..3 /\ d[i] \in S
    BY <1>3
  <2> QED BY <1>13, <2>2, <2>3, WithMissingType
<1>14. g[DOMAIN d] \in Seq(S)
  <2>1. 3 \in 0..3 /\ 3 \in Nat
    OBVIOUS
  <2>2. 0..3 \subseteq T
    <3> HIDE DEF T
    <3> QED BY <1>12, <1>13, <2>1, InductionTo
  <2> QED BY <1>3, <2>1, <2>2
<1> QED BY <1>11, <1>14, SortIsOk

(* initialize() keeps the tree, and sorts the handlers of the application. *)
LEMMA InitializeTree ==
    ASSUME TreeInv, Initialize
    PROVE  TreeInv' /\ Sorted(bps'[App].handlers)
<1>1. /\ setup' = setup /\ calls' = {} /\ calls = {}
      /\ bps' = [bps EXCEPT ![App].handlers = WithDefaults(@)]
  BY DEF Initialize
<1>2. PICK S, hs, ds, new :
          /\ S = HandlersGiven(App) /\ hs = bps[App].handlers
          /\ ds = WithDefaults(hs)
          /\ new = [bps[App] EXCEPT !.handlers = ds]
  OBVIOUS
<1>3. /\ App \in Blueprints /\ DOMAIN bps = Blueprints
      /\ bps[App] \in BlueprintType(App)
  BY BlueprintsAssumption DEF TreeInv, TreeType
<1>4. hs \in Seq(S)
  BY <1>2, <1>3 DEF BlueprintType
<1>5. DefaultHandlers \subseteq S
  BY <1>2, BlueprintsAssumption
     DEF DefaultHandlers, DefaultHandler, HandlersGiven
<1>6. ds \in Seq(S) /\ Sorted(ds)
  BY <1>2, <1>4, <1>5, WithDefaultsIsOk
<1>7. /\ new \in BlueprintType(App) /\ new.handlers = ds
      /\ new.parent = bps[App].parent /\ new.children = bps[App].children
      /\ new.moved = bps[App].moved
  BY <1>2, <1>3, <1>6 DEF BlueprintType
<1>8. bps' = [bps EXCEPT ![App] = new]
  BY <1>1, <1>2, <1>3
<1>9. TreeType'
  BY <1>1, <1>3, <1>7, <1>8, OneChanges
<1>10. TreeInv'
  BY <1>1, <1>3, <1>7, <1>8, <1>9, SameShape
<1> QED BY <1>3, <1>6, <1>7, <1>8, <1>10

(* Only registration changes the tree. *)
LEMMA TreeStays ==
    ASSUME TreeInv, UNCHANGED application
    PROVE  TreeInv'
<1>1. /\ setup' = setup /\ calls' = calls /\ serving' = serving
      /\ bps' = bps
  BY DEF application
<1>2. \A x \in Blueprints : BlueprintType(x)' = BlueprintType(x)
  BY <1>1 DEF BlueprintType, HooksGiven, HandlersGiven, CallsFor
<1>3. TreeType'
  BY <1>1, <1>2 DEF TreeInv, TreeType
<1> QED BY <1>1, <1>3, SameShape DEF TreeInv

(* Only the calls that build the application change it. *)
LEMMA NextIs ==
    ASSUME [Next]_vars
    PROVE  Register \/ UNCHANGED application
<1>1. CASE Register
  BY <1>1
<1>2. CASE \E q \in setup.queries : OnHeadersComplete(q)
  BY <1>2 DEF OnHeadersComplete
<1>3. ASSUME NEW r \in Requests, HandleRequest(r) PROVE UNCHANGED application
  BY <1>3 DEF HandleRequest, HookFails, HookPasses, HookReturns,
      AskEngineFirst, BeforeDone, AskEngine, CallHandler, EndpointReturns,
      EndpointRaises, Respond, HandleRequestEnds
<1>4. ASSUME NEW e \in errors, HandleException(e) \/ HandleExceptionFails(e)
      PROVE  UNCHANGED application
  BY <1>4 DEF HandleException, HandleExceptionFails
<1>5. CASE UNCHANGED vars
  BY <1>5 DEF vars
<1> QED BY <1>1, <1>2, <1>3, <1>4, <1>5 DEF Next

(* Every step keeps the tree. *)
LEMMA TreeNext ==
    ASSUME TreeInv, [Next]_vars
    PROVE  TreeInv'
<1>1. CASE Register
  BY <1>1, RouteTree, HookTree, HandlerTree, NestTree, AddTree,
     InitializeTree DEF Register
<1> QED BY <1>1, NextIs, TreeStays

(* The tree of blueprints stays a tree: who is nested has one parent, and  *)
(* exactly the children of the application have given their hooks away.    *)
THEOREM TreeIsSound == Spec => []TreeInv
<1>1. Init => TreeInv
  BY TreeInit
<1>2. TreeInv /\ [Next]_vars => TreeInv'
  BY TreeNext
<1> QED BY <1>1, <1>2, PTL DEF Spec

-----------------------------------------------------------------------------
(* The tables of the router. *)

(* STRING: the provers do not know that a literal is in it. *)
Text == STRING \cup {"redirect", "static", "404", "405", "none", "*", "/",
                     "GET", "HEAD", "NotFound", "MethodNotAllowed"}
Patterns == Seq(Text)
Hosts == {AnyHost} \cup Text
RouteType(P) ==
    [handler : Text, pattern : Patterns, methods : SUBSET Text,
     dynamic : BOOLEAN, hosts : Seq(Hosts), parent : P,
     engine : {Nothing} \cup [async : BOOLEAN, skip : BOOLEAN],
     wants : BOOLEAN, raises : {Nothing} \cup Text,
     target : {Nothing} \cup Patterns]

(* The routes the calls give are routes of the type the tables have. *)
LEMMA MoreText ==
    ASSUME NEW P, NEW a \in P
    PROVE  RoutesOf({a}) \subseteq RouteType(P)
<1>1. /\ STRING \subseteq Text /\ Seq(STRING) \subseteq Patterns
      /\ Seq({AnyHost} \cup STRING) \subseteq Seq(Hosts)
  BY DEF Text, Patterns, Hosts
<1> QED BY <1>1 DEF RoutesOf, RouteType

(* The tables of routes from a set R. *)
StaticTables(R) == UNION {[k -> R] : k \in SUBSET (Text \X Patterns)}
HostTables(R) == Seq([host : Hosts, routes : Seq(R)])
TablesOf(R) ==
    [static : StaticTables(R), dynamic : Seq(R), hosts : HostTables(R)]

(* The router begins with tables of any routes. *)
LEMMA NoRoutesType == ASSUME NEW R PROVE NoRoutes \in TablesOf(R)
<1>1. <<>> \in [{} -> R] /\ {} \in SUBSET (Text \X Patterns)
  OBVIOUS
<1>2. <<>> \in StaticTables(R)
  BY <1>1 DEF StaticTables
<1> QED BY <1>2 DEF NoRoutes, TablesOf, HostTables

(* A static table with more keys for a route. *)
LEMMA WithType ==
    ASSUME NEW R, NEW t \in StaticTables(R), NEW keys,
           keys \subseteq Text \X Patterns, NEW route \in R
    PROVE  With(t, keys, route) \in StaticTables(R)
<1>1. PICK k \in SUBSET (Text \X Patterns) : t \in [k -> R]
  BY DEF StaticTables
<1>2. PICK m : m = k \cup keys
  OBVIOUS
<1>3. With(t, keys, route) \in [m -> R] /\ m \in SUBSET (Text \X Patterns)
  BY <1>1, <1>2 DEF With
<1> QED BY <1>3 DEF StaticTables

(* A host's routes with one more. *)
LEMMA AddToHostType ==
    ASSUME NEW R, NEW hosts \in HostTables(R), NEW host \in Hosts,
           NEW route \in R
    PROVE  AddToHost(hosts, host, route) \in HostTables(R)
<1>1. PICK H : H = [host : Hosts, routes : Seq(R)]
  OBVIOUS
<1>2. hosts \in Seq(H)
  BY <1>1 DEF HostTables
<1>3. PICK one : one = [host |-> host, routes |-> <<route>>]
  OBVIOUS
<1>4. one \in H
  <2>1. <<route>> \in Seq(R)
    OBVIOUS
  <2> QED BY <1>1, <1>3, <2>1
<1>5. Append(hosts, one) \in Seq(H)
  BY <1>2, <1>4
<1>6. PICK n \in Nat : DOMAIN hosts = 1..n
  BY <1>2
<1>7. ASSUME NEW i \in 1..n
      PROVE  [hosts[i] EXCEPT !.routes = Append(@, route)] \in H
  <2>1. hosts[i] \in H
    BY <1>2, <1>6
  <2>2. PICK rs : rs = hosts[i].routes
    OBVIOUS
  <2>3. Append(rs, route) \in Seq(R)
    BY <1>1, <2>1, <2>2
  <2> QED BY <1>1, <2>1, <2>2, <2>3
<1>8. ASSUME NEW same
      PROVE  [i \in 1..n |-> IF i \in same
                             THEN [hosts[i] EXCEPT !.routes = Append(@, route)]
                             ELSE hosts[i]] \in Seq(H)
  <2>1. \A i \in 1..n : hosts[i] \in H
    BY <1>2, <1>6
  <2> QED BY <1>7, <2>1
<1>9. AddToHost(hosts, host, route) \in Seq(H)
  BY <1>3, <1>5, <1>6, <1>8 DEF AddToHost
<1> QED BY <1>1, <1>9 DEF HostTables

(* The loop over the hosts of a route. *)
LEMMA AddToHostsType ==
    ASSUME NEW R, NEW hosts \in HostTables(R), NEW names \in Seq(Hosts),
           NEW route \in R
    PROVE  FoldLeft(LAMBDA hs, h : AddToHost(hs, h, route), hosts, names)
              \in HostTables(R)
<1>1. PICK k \in Nat : k = Len(names) /\ DOMAIN names = 1..k
  OBVIOUS
<1>2. \A i \in 1..k : names[i] \in Hosts
  BY <1>1
<1> DEFINE Good(g) == g = [x \in SUBSET DOMAIN names |->
                 IF x = {} THEN hosts
                 ELSE AddToHost(g[x \ {Max(x)}], names[Max(x)], route)]
           step == [i \in 1..k |->
                       [hs \in HostTables(R) |->
                           AddToHost(hs, names[i], route)]]
<1>3. IsStep(step, k, HostTables(R))
  BY <1>2, AddToHostType DEF IsStep
<1>4. PICK f : FoldsBy(f, k, HostTables(R), hosts, step)
  <2> HIDE DEF step
  <2> QED BY <1>3, FoldExists
<1> DEFINE h == [x \in SUBSET (1..k) |-> f[x]]
<1>5. ASSUME NEW x \in SUBSET (1..k), x # {}
      PROVE  h[x] = AddToHost(h[x \ {Max(x)}], names[Max(x)], route)
  <2>1. Max(x) \in 1..k /\ x \ {Max(x)} \in SUBSET (1..k)
    BY <1>5, MaxExists
  <2>2. /\ f[x \ {Max(x)}] \in HostTables(R)
        /\ f[x] = step[Max(x)][f[x \ {Max(x)}]]
    BY <1>4, <1>5, <2>1 DEF FoldsBy
  <2> QED BY <2>1, <2>2
<1>6. h[{}] = hosts
  BY <1>4 DEF FoldsBy
<1>7. Good(h)
  BY <1>1, <1>5, <1>6
<1>8. Good(CHOOSE g : Good(g))
  <2> HIDE DEF Good
  <2> QED BY <1>7
<1>9. FoldLeft(LAMBDA hs, n : AddToHost(hs, n, route), hosts, names) =
          (CHOOSE g : Good(g))[DOMAIN names]
  BY DEF FoldLeft, MapThenFoldSet
<1>10. PICK g : Good(g) /\
          FoldLeft(LAMBDA hs, n : AddToHost(hs, n, route), hosts, names) =
              g[DOMAIN names]
  <2> HIDE DEF Good
  <2> QED BY <1>8, <1>9
<1> DEFINE T == {i \in 0..k : g[1..i] \in HostTables(R)}
<1>11. 0 \in T
  <2>1. 1..0 = {} /\ 0 \in 0..k
    OBVIOUS
  <2>2. g[{}] = hosts
    BY <1>10
  <2> QED BY <2>1, <2>2
<1>12. ASSUME NEW i \in 1..k, i - 1 \in T PROVE i \in T
  <2>1. /\ 1..i \in SUBSET (1..k) /\ 1..i # {}
        /\ Max(1..i) = i /\ (1..i) \ {i} = 1..i - 1
    BY FoldSteps
  <2>2. g[1..i] = AddToHost(g[1..i - 1], names[i], route)
    BY <1>1, <1>10, <2>1
  <2>3. i \in 0..k /\ names[i] \in Hosts
    BY <1>2
  <2> QED BY <1>12, <2>2, <2>3, AddToHostType
<1>13. g[DOMAIN names] \in HostTables(R)
  <2>1. k \in 0..k
    OBVIOUS
  <2>2. 0..k \subseteq T
    <3> HIDE DEF T
    <3> QED BY <1>11, <1>12, InductionTo
  <2> QED BY <1>1, <2>1, <2>2
<1> QED BY <1>10, <1>13

(* add_route() without its slash strategy stores a route. *)
LEMMA AddToTablesType ==
    ASSUME NEW P, NEW t \in TablesOf(RouteType(P)), NEW route \in RouteType(P)
    PROVE  AddToTables(t, route) \in TablesOf(RouteType(P))
<1>1. PICK R : R = RouteType(P)
  OBVIOUS
<1>2. t \in TablesOf(R) /\ route \in R
  BY <1>1
<1>3. /\ route.hosts \in Seq(Hosts) /\ route.methods \subseteq Text
      /\ route.pattern \in Patterns
  BY DEF RouteType, Hosts
<1>4. CASE route.hosts # <<>>
  <2>1. PICK hs, ns :
            /\ ns = route.hosts
            /\ hs = FoldLeft(LAMBDA hosts, h : AddToHost(hosts, h, route),
                             t.hosts, ns)
    OBVIOUS
  <2>2. hs \in HostTables(R)
    <3>1. PICK hosts : hosts = t.hosts
      OBVIOUS
    <3>2. hosts \in HostTables(R)
      BY <1>2, <3>1 DEF TablesOf
    <3>3. FoldLeft(LAMBDA xs, h : AddToHost(xs, h, route), hosts, ns)
             \in HostTables(R)
      BY <1>2, <1>3, <2>1, <3>2, AddToHostsType
    <3> QED BY <2>1, <3>1, <3>3
  <2>3. AddToTables(t, route) = [t EXCEPT !.hosts = hs]
    BY <1>4, <2>1 DEF AddToTables
  <2> QED BY <1>1, <1>2, <2>2, <2>3 DEF TablesOf
<1>5. CASE route.hosts = <<>> /\ route.dynamic
  <2>1. PICK ds, es : ds = t.dynamic /\ es = Append(ds, route)
    OBVIOUS
  <2>2. ds \in Seq(R)
    BY <1>2, <2>1 DEF TablesOf
  <2>3. es \in Seq(R)
    BY <1>2, <2>1, <2>2
  <2>4. AddToTables(t, route) = [t EXCEPT !.dynamic = es]
    BY <1>5, <2>1 DEF AddToTables
  <2> QED BY <1>1, <1>2, <2>3, <2>4 DEF TablesOf
<1>6. CASE route.hosts = <<>> /\ ~route.dynamic
  <2>1. PICK st, keys, new :
            /\ st = t.static /\ keys = route.methods \X {route.pattern}
            /\ new = With(st, keys, route)
    OBVIOUS
  <2>2. st \in StaticTables(R) /\ keys \subseteq Text \X Patterns
    BY <1>2, <1>3, <2>1 DEF TablesOf
  <2>3. new \in StaticTables(R)
    BY <1>2, <2>1, <2>2, WithType
  <2>4. AddToTables(t, route) = [t EXCEPT !.static = new]
    BY <1>6, <2>1 DEF AddToTables
  <2> QED BY <1>1, <1>2, <2>3, <2>4 DEF TablesOf
<1> QED BY <1>4, <1>5, <1>6

(* A prefix gives a route a pattern. *)
LEMMA PrefixedType ==
    ASSUME NEW P, NEW route \in RouteType(P), NEW p \in Patterns
    PROVE  [route EXCEPT !.pattern = p \o @] \in RouteType(P)
<1>1. PICK q, s : q = route.pattern /\ s = p \o q
  OBVIOUS
<1>2. q \in Seq(Text)
  BY <1>1 DEF RouteType, Patterns
<1>3. s \in Seq(Text)
  BY <1>1, <1>2 DEF Patterns
<1> QED BY <1>1, <1>3 DEF RouteType, Patterns

(* What a pattern is with, or without, its last slash. *)
LEMMA OtherSlashType ==
    ASSUME NEW p \in Patterns PROVE OtherSlash(p) \in Patterns
<1>1. Append(p, "/") \in Patterns
  <2>1. p \in Seq(Text)
    BY DEF Patterns
  <2>0. "/" \in Text
    BY DEF Text
  <2>2. PICK s : s = "/"
    OBVIOUS
  <2>3. Append(p, s) \in Seq(Text)
    BY <2>0, <2>1, <2>2
  <2> QED BY <2>2, <2>3 DEF Patterns
<1>2. Front(p) \in Patterns
  <2>1. CASE p = <<>>
    BY <2>1 DEF Front, Patterns
  <2>2. CASE p # <<>>
    BY <2>2, Deque DEF Patterns
  <2> QED BY <2>1, <2>2
<1> QED BY <1>1, <1>2 DEF OtherSlash

(* The clone, or the redirect, that a slash strategy adds is a route. *)
LEMMA SlashedType ==
    ASSUME NEW P, NEW route \in RouteType(P), NEW last \in Patterns,
           NEW strategy \in {"clone", "redirect"}
    PROVE  Slashed(strategy, route, last) \in RouteType(P)
<1>1. PICK p : p = OtherSlash(route.pattern)
  OBVIOUS
<1>2. p \in Seq(Text)
  <2>1. route.pattern \in Patterns
    BY DEF RouteType, Patterns
  <2> QED BY <1>1, <2>1, OtherSlashType DEF Patterns
<1>3. CASE strategy = "clone"
  <2>1. Slashed(strategy, route, last) = [route EXCEPT !.pattern = p]
    BY <1>1, <1>3 DEF Slashed
  <2> QED BY <1>2, <2>1 DEF RouteType, Patterns
<1>4. CASE strategy = "redirect"
  <2>1. Slashed(strategy, route, last) =
            [route EXCEPT !.pattern = p, !.handler = "redirect",
                          !.methods = {"GET"}, !.wants = FALSE,
                          !.raises = Nothing, !.target = last]
    BY <1>1, <1>4 DEF Slashed
  <2>2. PICK h, m, r, g :
            /\ h = "redirect" /\ m = {"GET"} /\ r = Nothing /\ g = last
    OBVIOUS
  <2>3. /\ h \in Text /\ m \in SUBSET Text
        /\ r \in {Nothing} \cup Text
        /\ g \in {Nothing} \cup Seq(Text)
    <3>1. "redirect" \in Text /\ "GET" \in Text
      BY DEF Text
    <3>2. last \in Seq(Text)
      BY DEF Patterns
    <3>3. h \in Text
      BY <2>2, <3>1
    <3>4. m \in SUBSET Text
      BY <2>2, <3>1
    <3> QED BY <2>2, <3>2, <3>3, <3>4
  <2>4. [route EXCEPT !.pattern = p, !.handler = h, !.methods = m,
                      !.wants = FALSE, !.raises = r, !.target = g]
           \in RouteType(P)
    BY <1>2, <2>3 DEF RouteType, Patterns
  <2> QED BY <2>1, <2>2, <2>4
<1> QED BY <1>3, <1>4

(* What add_route() does for one prefix. *)
Extend(t, p, route, strategy, last) ==
    LET prefixed == [route EXCEPT !.pattern = p \o @]
        added == AddToTables(t, prefixed)
    IN  IF strategy # "strict" /\ ~route.dynamic /\ "GET" \in route.methods
        THEN AddToTables(added, Slashed(strategy, prefixed, last))
        ELSE added

(* The tables after a route is added under one prefix. *)
LEMMA ExtendType ==
    ASSUME NEW P, NEW t \in TablesOf(RouteType(P)), NEW p \in Patterns,
           NEW route \in RouteType(P), NEW strategy \in Strategies,
           NEW last \in Patterns
    PROVE  Extend(t, p, route, strategy, last) \in TablesOf(RouteType(P))
<1>1. PICK prefixed, added :
          /\ prefixed = [route EXCEPT !.pattern = p \o @]
          /\ added = AddToTables(t, prefixed)
  OBVIOUS
<1>2. /\ prefixed \in RouteType(P)
      /\ added \in TablesOf(RouteType(P))
  BY <1>1, PrefixedType, AddToTablesType
<1>3. CASE strategy = "strict"
  BY <1>1, <1>2, <1>3 DEF Extend
<1>4. CASE strategy # "strict"
  <2>1. PICK slashed : slashed = Slashed(strategy, prefixed, last)
    OBVIOUS
  <2>2. slashed \in RouteType(P)
    BY <1>2, <1>4, <2>1, SlashedType DEF Strategies
  <2>3. AddToTables(added, slashed) \in TablesOf(RouteType(P))
    BY <1>2, <2>2, AddToTablesType
  <2> QED BY <1>1, <1>2, <2>1, <2>3 DEF Extend
<1> QED BY <1>3, <1>4

(* The tables after a route is added under all its prefixes. *)
LEMMA AddRouteType ==
    ASSUME NEW P, NEW tbs \in TablesOf(RouteType(P)),
           NEW strategy \in Strategies, NEW route \in RouteType(P),
           NEW prefixes \in Seq(Patterns)
    PROVE  AddRoute(tbs, strategy, route, prefixes) \in TablesOf(RouteType(P))
<1>1. PICK k \in Nat : k = Len(prefixes) /\ DOMAIN prefixes = 1..k
  OBVIOUS
<1>2. \A i \in 1..k : prefixes[i] \in Patterns
  BY <1>1
<1>3. PICK S : S = TablesOf(RouteType(P))
  OBVIOUS
<1>4. PICK last : last = [route EXCEPT !.pattern = Last(prefixes) \o @].pattern
  OBVIOUS
<1> DEFINE One(t, p) == Extend(t, p, route, strategy, last)
           Good(g) == g = [x \in SUBSET DOMAIN prefixes |->
                 IF x = {} THEN tbs
                 ELSE One(g[x \ {Max(x)}], prefixes[Max(x)])]
           step == [i \in 1..k |-> [t \in S |-> One(t, prefixes[i])]]
<1>5. AddRoute(tbs, strategy, route, prefixes) =
          (CHOOSE g : Good(g))[DOMAIN prefixes]
  BY <1>4 DEF AddRoute, FoldLeft, MapThenFoldSet, Extend
<1>6. ASSUME k # 0 PROVE last \in Patterns
  <2>1. prefixes # <<>>
    BY <1>1, <1>6
  <2>2. Last(prefixes) \in Patterns
    BY <2>1, Deque
  <2>3. PICK p, new : p = Last(prefixes)
                      /\ new = [route EXCEPT !.pattern = p \o @]
    OBVIOUS
  <2>4. new \in RouteType(P)
    BY <2>2, <2>3, PrefixedType
  <2> QED BY <1>4, <2>3, <2>4 DEF RouteType, Patterns
<1>7. ASSUME NEW t \in S, NEW i \in 1..k
      PROVE  One(t, prefixes[i]) \in S
  <2>1. k # 0
    BY <1>7
  <2> QED BY <1>2, <1>3, <1>6, <2>1, ExtendType
<1> HIDE DEF One
<1>8. IsStep(step, k, S)
  BY <1>7 DEF IsStep
<1>9. PICK f : FoldsBy(f, k, S, tbs, step)
  <2> HIDE DEF step
  <2> QED BY <1>3, <1>8, FoldExists
<1> DEFINE h == [x \in SUBSET (1..k) |-> f[x]]
<1>10. ASSUME NEW x \in SUBSET (1..k), x # {}
       PROVE  h[x] = One(h[x \ {Max(x)}], prefixes[Max(x)])
  <2>1. Max(x) \in 1..k /\ x \ {Max(x)} \in SUBSET (1..k)
    BY <1>10, MaxExists
  <2>2. f[x \ {Max(x)}] \in S /\ f[x] = step[Max(x)][f[x \ {Max(x)}]]
    BY <1>9, <1>10, <2>1 DEF FoldsBy
  <2> QED BY <2>1, <2>2
<1>11. h[{}] = tbs
  BY <1>9 DEF FoldsBy
<1>12. Good(h)
  BY <1>1, <1>10, <1>11
<1>13. Good(CHOOSE g : Good(g))
  <2> HIDE DEF Good
  <2> QED BY <1>12
<1>14. PICK g : Good(g) /\ AddRoute(tbs, strategy, route, prefixes) =
                               g[DOMAIN prefixes]
  <2> HIDE DEF Good
  <2> QED BY <1>5, <1>13
<1> DEFINE T == {i \in 0..k : g[1..i] \in S}
<1>15. 0 \in T
  <2>1. 1..0 = {} /\ 0 \in 0..k
    OBVIOUS
  <2>2. g[{}] = tbs
    BY <1>14
  <2> QED BY <1>3, <2>1, <2>2
<1>16. ASSUME NEW i \in 1..k, i - 1 \in T PROVE i \in T
  <2>1. /\ 1..i \in SUBSET (1..k) /\ 1..i # {}
        /\ Max(1..i) = i /\ (1..i) \ {i} = 1..i - 1
    BY FoldSteps
  <2>2. g[1..i] = One(g[1..i - 1], prefixes[i])
    BY <1>1, <1>14, <2>1
  <2>3. i \in 0..k
    OBVIOUS
  <2> QED BY <1>7, <1>16, <2>2, <2>3
<1>17. g[DOMAIN prefixes] \in S
  <2>1. k \in 0..k
    OBVIOUS
  <2>2. 0..k \subseteq T
    <3> HIDE DEF T
    <3> QED BY <1>15, <1>16, InductionTo
  <2> QED BY <1>1, <2>1, <2>2
<1> QED BY <1>3, <1>14, <1>17
-----------------------------------------------------------------------------
(* The calls of add_route() for some blueprints. *)
RouteCall(P) == [route : RouteType(P), prefixes : Seq(Patterns)]

(* A prefix before the prefixes of the calls. *)
LEMMA UnderType ==
    ASSUME NEW P, NEW prefix \in Patterns, NEW cs \in Seq(RouteCall(P))
    PROVE  Under(prefix, cs) \in Seq(RouteCall(P))
<1>1. PICK n \in Nat : DOMAIN cs = 1..n
  OBVIOUS
<1>2. ASSUME NEW i \in 1..n
      PROVE  [cs[i] EXCEPT !.prefixes = [j \in DOMAIN @ |-> prefix \o @[j]]]
                \in RouteCall(P)
  <2>1. cs[i] \in RouteCall(P)
    BY <1>1
  <2>2. PICK ps, new : /\ ps = cs[i].prefixes
                       /\ new = [j \in DOMAIN ps |-> prefix \o ps[j]]
    OBVIOUS
  <2>3. ps \in Seq(Patterns)
    BY <2>1, <2>2 DEF RouteCall
  <2>4. new \in Seq(Patterns)
    <3>1. PICK m \in Nat : DOMAIN ps = 1..m
      BY <2>3
    <3>2. \A j \in 1..m : prefix \o ps[j] \in Patterns
      <4>1. \A j \in 1..m : ps[j] \in Patterns
        BY <2>3, <3>1
      <4> QED BY <4>1 DEF Patterns
    <3> QED BY <2>2, <3>1, <3>2
  <2> QED BY <2>1, <2>2, <2>4 DEF RouteCall
<1>3. Under(prefix, cs) =
          [i \in 1..n |-> [cs[i] EXCEPT !.prefixes =
                              [j \in DOMAIN @ |-> prefix \o @[j]]]]
  BY <1>1 DEF Under
<1>4. PICK C, F : C = RouteCall(P) /\ F = Under(prefix, cs)
  OBVIOUS
<1>5. DOMAIN F = 1..n /\ \A i \in 1..n : F[i] \in C
  BY <1>2, <1>3, <1>4
<1>6. F = [i \in 1..n |-> F[i]]
  BY <1>3, <1>4
<1> QED BY <1>4, <1>5, <1>6

(* Some blueprints with all their descendants. *)
ChildOf(P) == [child : P, prefixes : Seq(Patterns)]
IsForest(tree, P) ==
    \A b \in P : /\ tree[b].routes \in Seq(RouteType(P))
                 /\ tree[b].children \in Seq(ChildOf(P))

(* The parts of Registrations(). *)
OwnCalls(tree, b, ps) ==
    [i \in DOMAIN tree[b].routes |->
        [route |-> tree[b].routes[i], prefixes |-> ps]]
UnderLink(link, p, below) ==
    FlattenSeq([j \in DOMAIN link.prefixes |->
                   Under(p \o link.prefixes[j], below[link.child])])
InnerCalls(tree, b, p, below) ==
    FlattenSeq([i \in DOMAIN tree[b].children |->
                   UnderLink(tree[b].children[i], p, below)])

(* The calls for the routes of a blueprint. *)
LEMMA OwnType ==
    ASSUME NEW P, NEW tree, IsForest(tree, P), NEW b \in P,
           NEW ps \in Seq(Patterns)
    PROVE  OwnCalls(tree, b, ps) \in Seq(RouteCall(P))
<1>1. PICK rs : rs = tree[b].routes
  OBVIOUS
<1>2. rs \in Seq(RouteType(P))
  BY <1>1 DEF IsForest
<1>3. PICK n \in Nat : DOMAIN rs = 1..n
  BY <1>2
<1>4. ASSUME NEW i \in 1..n
      PROVE  [route |-> rs[i], prefixes |-> ps] \in RouteCall(P)
  <2>1. rs[i] \in RouteType(P)
    BY <1>2, <1>3
  <2> QED BY <2>1 DEF RouteCall
<1>5. OwnCalls(tree, b, ps) =
          [i \in 1..n |-> [route |-> rs[i], prefixes |-> ps]]
  BY <1>1, <1>3 DEF OwnCalls
<1>6. PICK C : C = RouteCall(P)
  OBVIOUS
<1> QED BY <1>4, <1>5, <1>6

(* The calls for a child, under each of its prefixes. *)
LEMMA UnderLinkType ==
    ASSUME NEW P, NEW link \in ChildOf(P), NEW p \in Patterns, NEW below,
           \A b \in P : below[b] \in Seq(RouteCall(P))
    PROVE  UnderLink(link, p, below) \in Seq(RouteCall(P))
<1>1. PICK ps, c, C :
          /\ ps = link.prefixes /\ c = link.child /\ C = RouteCall(P)
  OBVIOUS
<1>2. ps \in Seq(Patterns) /\ c \in P
  BY <1>1 DEF ChildOf
<1>3. PICK n \in Nat : DOMAIN ps = 1..n
  BY <1>2
<1>4. ASSUME NEW j \in 1..n
      PROVE  Under(p \o ps[j], below[c]) \in Seq(C)
  <2>1. ps[j] \in Patterns
    BY <1>2, <1>3
  <2>2. p \o ps[j] \in Patterns
    BY <2>1 DEF Patterns
  <2> QED BY <1>1, <1>2, <2>2, UnderType
<1>5. PICK q : q = [j \in 1..n |-> Under(p \o ps[j], below[c])]
  OBVIOUS
<1>6. q \in Seq(Seq(C))
  BY <1>4, <1>5
<1>7. UnderLink(link, p, below) = FlattenSeq(q)
  BY <1>1, <1>3, <1>5 DEF UnderLink
<1> QED BY <1>1, <1>6, <1>7, FlattenType

(* The calls for all children of a blueprint. *)
LEMMA InnerType ==
    ASSUME NEW P, NEW tree, IsForest(tree, P), NEW b \in P,
           NEW p \in Patterns, NEW below,
           \A a \in P : below[a] \in Seq(RouteCall(P))
    PROVE  InnerCalls(tree, b, p, below) \in Seq(RouteCall(P))
<1>1. PICK links, C : links = tree[b].children /\ C = RouteCall(P)
  OBVIOUS
<1>2. links \in Seq(ChildOf(P))
  BY <1>1 DEF IsForest
<1>3. PICK n \in Nat : DOMAIN links = 1..n
  BY <1>2
<1>4. ASSUME NEW i \in 1..n
      PROVE  UnderLink(links[i], p, below) \in Seq(C)
  <2>1. links[i] \in ChildOf(P)
    BY <1>2, <1>3
  <2> QED BY <1>1, <2>1, UnderLinkType
<1>5. PICK q : q = [i \in 1..n |-> UnderLink(links[i], p, below)]
  OBVIOUS
<1>6. q \in Seq(Seq(C))
  BY <1>4, <1>5
<1>7. InnerCalls(tree, b, p, below) = FlattenSeq(q)
  BY <1>1, <1>3, <1>5 DEF InnerCalls
<1> QED BY <1>1, <1>6, <1>7, FlattenType

(* All calls of add_route() for a blueprint are for routes of the forest. *)
LEMMA RegistrationsType ==
    ASSUME NEW P, P \subseteq Blueprints, NEW tree, IsForest(tree, P),
           NEW root \in P, NEW prefixes \in Seq(Patterns)
    PROVE  Registrations(tree, root, prefixes) \in Seq(RouteCall(P))
<1>0. PICK C : C = RouteCall(P)
  OBVIOUS
<1>1. <<>> \in Patterns /\ NoPrefix \in Seq(Patterns)
  BY DEF Patterns, NoPrefix
<1> DEFINE Good(all) == all = [n \in 0..Depth - 1 |->
               [b \in Blueprints |->
                   (IF n = 0 THEN <<>>
                    ELSE InnerCalls(tree, b, <<>>, all[n - 1]))
                       \o OwnCalls(tree, b, NoPrefix)]]
           f0 == [b \in Blueprints |-> <<>> \o OwnCalls(tree, b, NoPrefix)]
           f1 == [b \in Blueprints |-> InnerCalls(tree, b, <<>>, f0)
                                           \o OwnCalls(tree, b, NoPrefix)]
           f == [n \in 0..1 |-> IF n = 0 THEN f0 ELSE f1]
<1>2. Good(f)
  <2>1. Depth - 1 = 1 /\ 1 - 1 = 0 /\ 0..1 = {0, 1}
    BY DEF Depth
  <2>2. f[0] = f0 /\ f[1] = f1
    OBVIOUS
  <2>3. f[0] = [b \in Blueprints |->
                   (IF 0 = 0 THEN <<>>
                    ELSE InnerCalls(tree, b, <<>>, f[0 - 1]))
                       \o OwnCalls(tree, b, NoPrefix)]
    BY <2>2
  <2>4. f[1] = [b \in Blueprints |->
                   (IF 1 = 0 THEN <<>>
                    ELSE InnerCalls(tree, b, <<>>, f[1 - 1]))
                       \o OwnCalls(tree, b, NoPrefix)]
    BY <2>1, <2>2
  <2>5. f = [n \in 0..1 |-> f[n]]
    OBVIOUS
  <2> HIDE DEF f
  <2> QED BY SMTT(20), <2>1, <2>3, <2>4, <2>5
<1>3. Good(CHOOSE all : Good(all))
  <2> HIDE DEF Good
  <2> QED BY <1>2
<1>4. Registrations(tree, root, prefixes) =
          FlattenSeq([j \in DOMAIN prefixes |->
              InnerCalls(tree, root, prefixes[j],
                         (CHOOSE all : Good(all))[Depth - 1])])
            \o OwnCalls(tree, root, prefixes)
  BY DEF Registrations, InnerCalls, OwnCalls, UnderLink
<1>5. PICK all :
          /\ Good(all)
          /\ Registrations(tree, root, prefixes) =
                FlattenSeq([j \in DOMAIN prefixes |->
                    InnerCalls(tree, root, prefixes[j], all[Depth - 1])])
                  \o OwnCalls(tree, root, prefixes)
  <2> HIDE DEF Good
  <2> QED BY <1>3, <1>4
<1>6. /\ Depth - 1 = 1
      /\ \A b \in Blueprints : all[0][b] = <<>> \o OwnCalls(tree, b, NoPrefix)
      /\ \A b \in Blueprints :
            all[1][b] = InnerCalls(tree, b, <<>>, all[0])
                            \o OwnCalls(tree, b, NoPrefix)
  <2>1. Depth - 1 = 1 /\ 1 - 1 = 0 /\ 0 \in 0..1 /\ 1 \in 0..1
    BY DEF Depth
  <2>2. \A n \in 0..1 : all[n] = [b \in Blueprints |->
            (IF n = 0 THEN <<>> ELSE InnerCalls(tree, b, <<>>, all[n - 1]))
                \o OwnCalls(tree, b, NoPrefix)]
    BY <1>5, <2>1
  <2>3. all[0] = [b \in Blueprints |-> <<>> \o OwnCalls(tree, b, NoPrefix)]
    BY <2>1, <2>2
  <2>4. all[1] = [b \in Blueprints |-> InnerCalls(tree, b, <<>>, all[1 - 1])
                                           \o OwnCalls(tree, b, NoPrefix)]
    BY <2>1, <2>2
  <2> HIDE DEF Good
  <2> QED BY <2>1, <2>3, <2>4
<1> HIDE DEF Good
<1>7. \A b \in P : all[0][b] \in Seq(C)
  <2> SUFFICES ASSUME NEW b \in P PROVE all[0][b] \in Seq(C)
    OBVIOUS
  <2>1. PICK o : o = OwnCalls(tree, b, NoPrefix)
    OBVIOUS
  <2>2. o \in Seq(C)
    BY <1>0, <1>1, <2>1, OwnType
  <2>3. <<>> \o o \in Seq(C)
    BY <2>2
  <2> QED BY <1>6, <2>1, <2>3
<1>8. \A b \in P : all[1][b] \in Seq(C)
  <2> SUFFICES ASSUME NEW b \in P PROVE all[1][b] \in Seq(C)
    OBVIOUS
  <2>1. PICK o, i : /\ o = OwnCalls(tree, b, NoPrefix)
                    /\ i = InnerCalls(tree, b, <<>>, all[0])
    OBVIOUS
  <2>2. o \in Seq(C)
    BY <1>0, <1>1, <2>1, OwnType
  <2>3. i \in Seq(C)
    BY <1>0, <1>1, <1>7, <2>1, InnerType
  <2>4. i \o o \in Seq(C)
    BY <2>2, <2>3
  <2> QED BY <1>6, <2>1, <2>4
<1>9. PICK below : below = all[1]
  OBVIOUS
<1>10. PICK n \in Nat : DOMAIN prefixes = 1..n
  OBVIOUS
<1>11. PICK q, o :
           /\ q = [j \in 1..n |-> InnerCalls(tree, root, prefixes[j], below)]
           /\ o = OwnCalls(tree, root, prefixes)
  OBVIOUS
<1>12. ASSUME NEW j \in 1..n
       PROVE  InnerCalls(tree, root, prefixes[j], below) \in Seq(C)
  <2>1. prefixes[j] \in Patterns
    BY <1>10
  <2> QED BY <1>0, <1>8, <1>9, <2>1, InnerType
<1>13. q \in Seq(Seq(C))
  BY <1>11, <1>12
<1>14. FlattenSeq(q) \in Seq(C) /\ o \in Seq(C)
  BY <1>0, <1>11, <1>13, FlattenType, OwnType
<1>15. FlattenSeq(q) \o o \in Seq(C)
  <2>1. PICK x : x = FlattenSeq(q)
    OBVIOUS
  <2> QED BY <1>14, <2>1
<1>16. Registrations(tree, root, prefixes) = FlattenSeq(q) \o o
  BY <1>5, <1>6, <1>9, <1>10, <1>11
<1> QED BY <1>0, <1>15, <1>16

(* Registering them keeps the type of the tables. *)
LEMMA RegisteredType ==
    ASSUME NEW P, P \subseteq Blueprints, NEW tree, IsForest(tree, P),
           NEW root \in P, NEW prefixes \in Seq(Patterns),
           NEW strategy \in Strategies, NEW tbs \in TablesOf(RouteType(P))
    PROVE  Registered(tbs, strategy, tree, root, prefixes)
              \in TablesOf(RouteType(P))
<1>1. PICK cs, S : /\ cs = Registrations(tree, root, prefixes)
                   /\ S = TablesOf(RouteType(P))
  OBVIOUS
<1>2. cs \in Seq(RouteCall(P))
  BY <1>1, RegistrationsType
<1>3. PICK k \in Nat : DOMAIN cs = 1..k
  BY <1>2
<1> DEFINE One(t, c) == AddRoute(t, strategy, c.route, c.prefixes)
           Good(g) == g = [x \in SUBSET DOMAIN cs |->
                 IF x = {} THEN tbs
                 ELSE One(g[x \ {Max(x)}], cs[Max(x)])]
           step == [i \in 1..k |-> [t \in S |-> One(t, cs[i])]]
<1>5. Registered(tbs, strategy, tree, root, prefixes) =
          (CHOOSE g : Good(g))[DOMAIN cs]
  BY <1>1 DEF Registered, FoldLeft, MapThenFoldSet
<1>7. ASSUME NEW t \in S, NEW i \in 1..k
      PROVE  One(t, cs[i]) \in S
  <2>1. cs[i] \in RouteCall(P)
    BY <1>2, <1>3
  <2>2. PICK r, ps : r = cs[i].route /\ ps = cs[i].prefixes
    OBVIOUS
  <2>3. r \in RouteType(P) /\ ps \in Seq(Patterns)
    BY <2>1, <2>2 DEF RouteCall
  <2>4. AddRoute(t, strategy, r, ps) \in S
    BY <1>1, <2>3, AddRouteType
  <2> QED BY <2>2, <2>4
<1> HIDE DEF One
<1>8. IsStep(step, k, S)
  BY <1>7 DEF IsStep
<1>9. PICK f : FoldsBy(f, k, S, tbs, step)
  <2> HIDE DEF step
  <2> QED BY <1>1, <1>8, FoldExists
<1> DEFINE h == [x \in SUBSET (1..k) |-> f[x]]
<1>10. ASSUME NEW x \in SUBSET (1..k), x # {}
       PROVE  h[x] = One(h[x \ {Max(x)}], cs[Max(x)])
  <2>1. Max(x) \in 1..k /\ x \ {Max(x)} \in SUBSET (1..k)
    BY <1>10, MaxExists
  <2>2. f[x \ {Max(x)}] \in S /\ f[x] = step[Max(x)][f[x \ {Max(x)}]]
    BY <1>9, <1>10, <2>1 DEF FoldsBy
  <2> QED BY <2>1, <2>2
<1>11. h[{}] = tbs
  BY <1>9 DEF FoldsBy
<1>12. Good(h)
  BY <1>3, <1>10, <1>11
<1>13. Good(CHOOSE g : Good(g))
  <2> HIDE DEF Good
  <2> QED BY <1>12
<1>14. PICK g : Good(g) /\ Registered(tbs, strategy, tree, root, prefixes) =
                               g[DOMAIN cs]
  <2> HIDE DEF Good
  <2> QED BY <1>5, <1>13
<1> DEFINE T == {i \in 0..k : g[1..i] \in S}
<1>15. 0 \in T
  <2>1. 1..0 = {} /\ 0 \in 0..k
    OBVIOUS
  <2>2. g[{}] = tbs
    BY <1>14
  <2> QED BY <1>1, <2>1, <2>2
<1>16. ASSUME NEW i \in 1..k, i - 1 \in T PROVE i \in T
  <2>1. /\ 1..i \in SUBSET (1..k) /\ 1..i # {}
        /\ Max(1..i) = i /\ (1..i) \ {i} = 1..i - 1
    BY FoldSteps
  <2>2. g[1..i] = One(g[1..i - 1], cs[i])
    BY <1>3, <1>14, <2>1
  <2>3. i \in 0..k
    OBVIOUS
  <2> QED BY <1>7, <1>16, <2>2, <2>3
<1>17. g[DOMAIN cs] \in S
  <2>1. k \in 0..k
    OBVIOUS
  <2>2. 0..k \subseteq T
    <3> HIDE DEF T
    <3> QED BY <1>15, <1>16, InductionTo
  <2> QED BY <1>3, <2>1, <2>2
<1> QED BY <1>1, <1>14, <1>17

(* The first of some routes that serves a request, or 0. *)
FirstOf(routes, url, method) ==
    SelectInSeq(routes, LAMBDA r : method \in r.methods
                                   /\ Matches(r.pattern, url))

(* The first route that matches is one of the routes. *)
LEMMA FirstIsIndex ==
    ASSUME NEW R, NEW routes \in Seq(R), NEW url, NEW method
    PROVE  FirstOf(routes, url, method) # 0 =>
               FirstOf(routes, url, method) \in DOMAIN routes
<1> DEFINE I == {i \in 1..Len(routes) : method \in routes[i].methods
                                        /\ Matches(routes[i].pattern, url)}
<1>1. FirstOf(routes, url, method) = IF I # {} THEN Min(I) ELSE 0
  BY DEF SelectInSeq, FirstOf
<1>2. I \subseteq Nat /\ I \subseteq DOMAIN routes
  OBVIOUS
<1> HIDE DEF I
<1>3. I # {} => Min(I) \in I
  BY <1>2, MinExists
<1> QED BY <1>1, <1>2, <1>3

(* The host that is found is one of the hosts. *)
LEMMA HostLookup ==
    ASSUME NEW R, NEW t \in TablesOf(R), NEW host
    PROVE  HostOf(t, host) # 0 => HostOf(t, host) \in DOMAIN t.hosts
<1>1. PICK hs : hs = t.hosts
  OBVIOUS
<1> DEFINE I == {i \in 1..Len(hs) : hs[i].host \in {host, AnyHost}}
<1>2. HostOf(t, host) = IF I # {} THEN Min(I) ELSE 0
  BY <1>1 DEF HostOf, SelectInSeq
<1>3. hs \in Seq([host : Hosts, routes : Seq(R)])
  BY <1>1 DEF TablesOf, HostTables
<1>4. I \subseteq Nat /\ I \subseteq DOMAIN hs
  BY <1>3
<1> HIDE DEF I
<1>5. I # {} => Min(I) \in I
  BY <1>4, MinExists
<1> QED BY <1>1, <1>2, <1>4, <1>5

(* The default routes are routes of the application. *)
LEMMA DefaultsType ==
    ASSUME NEW P, App \in P
    PROVE  Defaults \subseteq RouteType(P)
<1>0. PICK n, a, x, y, z, g :
          /\ n = "NotFound" /\ a = "MethodNotAllowed"
          /\ x = "404" /\ y = "405" /\ z = "none" /\ g = {"GET"}
  OBVIOUS
<1>1. {n, a, x, y, z} \subseteq Text
  BY <1>0 DEF Text
<1>2. g \in SUBSET Text /\ {} \in SUBSET Text
  BY <1>0 DEF Text
<1>3. <<>> \in Patterns /\ <<>> \in Seq(Hosts)
  BY DEF Patterns
<1>4. ASSUME NEW h \in Text, NEW m \in SUBSET Text
      PROVE  Route(h, <<>>, m, App) \in RouteType(P)
  BY <1>3, <1>4 DEF Route, RouteType
<1>5. /\ Route(x, <<>>, g, App) \in RouteType(P)
      /\ Route(y, <<>>, g, App) \in RouteType(P)
      /\ Unrouted \in RouteType(P)
  BY <1>0, <1>1, <1>2, <1>4 DEF Unrouted
<1>6. NotFound \in RouteType(P)
  <2>1. NotFound = [Route(x, <<>>, g, App) EXCEPT !.raises = n]
    BY <1>0 DEF NotFound
  <2> QED BY <1>1, <1>5, <2>1 DEF RouteType
<1>7. NotAllowed \in RouteType(P)
  <2>1. NotAllowed = [Route(y, <<>>, g, App) EXCEPT !.raises = a,
                                                    !.wants = TRUE]
    BY <1>0 DEF NotAllowed
  <2> QED BY <1>1, <1>5, <2>1 DEF RouteType
<1> QED BY <1>5, <1>6, <1>7 DEF Defaults

(* The route of the static files is a route of the application. *)
LEMMA StaticRouteType ==
    ASSUME NEW P, App \in P
    PROVE  StaticRoute \in RouteType(P)
<1>0. PICK h, p, m : /\ h = "static" /\ p = <<h, "*">>
                     /\ m = {"GET", "HEAD"}
  OBVIOUS
<1>1. h \in Text /\ p \in Patterns /\ m \in SUBSET Text
  <2>1. {"static", "*", "GET", "HEAD"} \subseteq Text
    BY DEF Text
  <2>2. h \in Text /\ m \in SUBSET Text
    BY <1>0, <2>1
  <2>3. PICK s : s = "*"
    OBVIOUS
  <2>4. <<h, s>> \in Seq(Text)
    BY <2>1, <2>2, <2>3
  <2> QED BY <1>0, <2>2, <2>3, <2>4 DEF Patterns
<1>2. <<>> \in Seq(Hosts)
  OBVIOUS
<1>3. StaticRoute = Route(h, p, m, App)
  BY <1>0 DEF StaticRoute
<1> QED BY <1>1, <1>2, <1>3 DEF Route, RouteType

(* A lookup gives a route of the tables, or a default. *)
LEMMA FindType ==
    ASSUME NEW P, App \in P, NEW t \in TablesOf(RouteType(P)),
           NEW url, NEW method
    PROVE  FindRoute(t, url, method) \in RouteType(P)
<1>1. PICK R, ds, st, first :
          /\ R = RouteType(P) /\ ds = t.dynamic /\ st = t.static
          /\ first = FirstOf(ds, url, method)
  OBVIOUS
<1>2. ds \in Seq(R) /\ st \in StaticTables(R)
  BY <1>1 DEF TablesOf
<1>3. first # 0 => first \in DOMAIN ds
  BY <1>1, <1>2, FirstIsIndex
<1>4. first # 0 => ds[first] \in R
  BY <1>2, <1>3
<1>5. \A k \in DOMAIN st : st[k] \in R
  BY <1>2 DEF StaticTables
<1>6. NotAllowed \in R /\ NotFound \in R
  BY <1>1, DefaultsType DEF Defaults
<1> QED BY <1>1, <1>4, <1>5, <1>6 DEF FindRoute, FirstOf

(* Router.get_route() finds a route that was given, or a default. *)
LEMMA LookupType ==
    ASSUME NEW P, App \in P, NEW t \in TablesOf(RouteType(P)), NEW q
    PROVE  Lookup(t, q) \in RouteType(P)
<1>1. PICK R, url, method, host :
          /\ R = RouteType(P) /\ url = q.url /\ method = q.method
          /\ host = q.host
  OBVIOUS
<1>2. FindRoute(t, url, method) \in R
  BY <1>1, FindType
<1>3. FindRouteByHost(t, url, method, host) \in R
  <2>1. PICK i, hs, rs, first :
            /\ i = HostOf(t, host) /\ hs = t.hosts /\ rs = hs[i].routes
            /\ first = FirstOf(rs, url, method)
    OBVIOUS
  <2>2. Unrouted \in R
    BY <1>1, DefaultsType DEF Defaults
  <2>3. ASSUME i # 0, first # 0 PROVE rs[first] \in R
    <3>1. i \in DOMAIN hs
      BY <2>1, <2>3, HostLookup
    <3>2. hs \in Seq([host : Hosts, routes : Seq(R)])
      BY <1>1, <2>1 DEF TablesOf, HostTables
    <3>3. rs \in Seq(R)
      <4>1. PICK H : H = [host : Hosts, routes : Seq(R)]
        OBVIOUS
      <4>3. hs \in Seq(H)
        BY <3>2, <4>1
      <4>2. hs[i] \in H
        BY <3>1, <4>3
      <4> QED BY <2>1, <4>1, <4>2
    <3>4. first \in DOMAIN rs
      BY <2>1, <2>3, <3>3, FirstIsIndex
    <3> QED BY <3>3, <3>4
  <2> QED BY <1>2, <2>1, <2>2, <2>3 DEF FindRouteByHost, FirstOf
<1> QED BY <1>1, <1>2, <1>3 DEF Lookup
-----------------------------------------------------------------------------
(* The blueprints that belong to the application. *)
Rooted ==
    {b \in Blueprints :
        \/ b = App \/ Direct(b)
        \/ bps[b].parent \in Blueprints /\ Direct(bps[b].parent)}

TablesInv == tables \in TablesOf(RouteType(Rooted))

(* Tables of some routes are tables of more routes. *)
LEMMA MoreTables ==
    ASSUME NEW P, NEW Q, P \subseteq Q
    PROVE  TablesOf(RouteType(P)) \subseteq TablesOf(RouteType(Q))
<1>1. PICK R, S : R = RouteType(P) /\ S = RouteType(Q)
  OBVIOUS
<1>2. R \subseteq S
  BY <1>1 DEF RouteType
<1>3. StaticTables(R) \subseteq StaticTables(S)
  BY <1>2 DEF StaticTables
<1>4. HostTables(R) \subseteq HostTables(S)
  <2>1. Seq(R) \subseteq Seq(S)
    BY <1>2
  <2>2. PICK A, B : /\ A = [host : Hosts, routes : Seq(R)]
                    /\ B = [host : Hosts, routes : Seq(S)]
    OBVIOUS
  <2>3. A \subseteq B
    BY <2>1, <2>2
  <2>4. Seq(A) \subseteq Seq(B)
    BY <2>3
  <2> QED BY <2>2, <2>4 DEF HostTables
<1>5. Seq(R) \subseteq Seq(S)
  BY <1>2
<1> QED BY <1>1, <1>3, <1>4, <1>5 DEF TablesOf

(* Nested blueprints of blueprints have no children. *)
LEMMA RootedIsClosed ==
    TreeInv => \A b \in Rooted, c \in Blueprints :
                   IsChildOf(c, b) => c \in Rooted
<1> SUFFICES ASSUME TreeInv, NEW b \in Rooted, NEW c \in Blueprints,
                    IsChildOf(c, b)
             PROVE  c \in Rooted
  OBVIOUS
<1>1. b \in Blueprints /\ bps[c].parent = b
  BY DEF TreeInv, TreeLinks, Rooted
<1>2. CASE b = App \/ Direct(b)
  BY <1>1, <1>2 DEF Rooted, Direct
<1>3. CASE b # App /\ bps[b].parent \in Blueprints /\ Direct(bps[b].parent)
  <2>1. PICK p \in Blueprints : p = bps[b].parent
    BY <1>3
  <2>2. /\ App \in Blueprints /\ Nothing \notin Blueprints
        /\ bps[App].parent = Nothing /\ bps[p].parent = App
    BY <1>3, <2>1, BlueprintsAssumption DEF TreeInv, TreeLinks, Direct
  <2>3. p # App /\ p # Nothing /\ b # Nothing
    BY <1>1, <2>2
  <2>4. PICK l \in CallsFor("blueprint") : l.in = p /\ l.child = b
    BY <2>1, <2>3, <1>1 DEF TreeInv, TreeLinks
  <2>5. PICK m \in CallsFor("blueprint") : m.in = b /\ m.child = c
    BY <1>1, <2>3 DEF TreeInv, TreeLinks
  <2>6. l.in = App
    <3>1. /\ l \in setup.calls /\ l.op = "blueprint" /\ l.child = b
          /\ m \in setup.calls /\ m.op = "blueprint" /\ m.in = b
          /\ setup \in Setups
      BY <2>4, <2>5 DEF TreeInv, CallsFor
    <3>2. m.in # App => \A d \in setup.calls :
              d.op = "blueprint" /\ d.child = m.in => d.in = App
      BY <3>1, SetupsAssumption
    <3> QED BY <1>3, <3>1, <3>2
  <2> QED BY <2>3, <2>4, <2>6
<1> QED BY <1>2, <1>3 DEF Rooted

(* The blueprints under the application hold only such blueprints. *)
LEMMA IsAForest == TreeInv => IsForest(bps, Rooted)
<1> SUFFICES ASSUME TreeInv, NEW b \in Rooted
             PROVE  /\ bps[b].routes \in Seq(RouteType(Rooted))
                    /\ bps[b].children \in Seq(ChildOf(Rooted))
  BY DEF IsForest
<1>1. b \in Blueprints /\ bps[b] \in BlueprintType(b)
  BY DEF TreeInv, TreeType, Rooted
<1>2. bps[b].routes \in Seq(RouteType(Rooted))
  <2>1. PICK P, rs, R, S : /\ P = Rooted /\ rs = bps[b].routes
                           /\ R = RoutesOf({b}) /\ S = RouteType(P)
    OBVIOUS
  <2>2. rs \in Seq(R)
    BY <1>1, <2>1 DEF BlueprintType
  <2>3. R \subseteq S
    BY <2>1, MoreText
  <2>4. rs \in Seq(S)
    BY <2>2, <2>3
  <2> QED BY <2>1, <2>4
<1>3. bps[b].children \in Seq(ChildOf(Rooted))
  <2>1. PICK cs, C : cs = bps[b].children /\ C = ChildOf(Rooted)
    OBVIOUS
  <2>2. cs \in Seq(Children)
    BY <1>1, <2>1 DEF BlueprintType
  <2>3. PICK n \in Nat : DOMAIN cs = 1..n
    BY <2>2
  <2>4. ASSUME NEW i \in 1..n PROVE cs[i] \in C
    <3>1. cs[i] \in Children
      BY <2>2, <2>3
    <3>2. cs[i].child \in Blueprints /\ IsChildOf(cs[i].child, b)
      BY <2>1, <2>3, <3>1 DEF IsChildOf, Children
    <3>3. cs[i].child \in Rooted
      BY <3>2, RootedIsClosed
    <3>4. Seq(Seq(STRING)) \subseteq Seq(Patterns)
      <4>1. STRING \subseteq Text
        BY DEF Text
      <4>2. Seq(STRING) \subseteq Patterns
        <5>1. ASSUME NEW A, NEW B, A \subseteq B
              PROVE  Seq(A) \subseteq Seq(B)
          BY <5>1
        <5> QED BY <4>1, <5>1 DEF Patterns
      <4>3. PICK A, B : A = Seq(STRING) /\ B = Patterns
        OBVIOUS
      <4>4. Seq(A) \subseteq Seq(B)
        BY <4>2, <4>3
      <4> QED BY <4>3, <4>4
    <3> QED BY <2>1, <3>1, <3>3, <3>4 DEF Children, ChildOf
  <2>5. cs \in Seq(C)
    <3>1. cs = [i \in 1..n |-> cs[i]]
      BY <2>2, <2>3
    <3> QED BY <2>4, <3>1
  <2> QED BY <2>1, <2>5
<1> QED BY <1>2, <1>3

(* A parent is set once; what else a registration does to the tree. *)
LEMMA ParentsStay ==
    ASSUME TreeInv, Register
    PROVE  \A y \in Blueprints :
               bps[y].parent # Nothing => bps'[y].parent = bps[y].parent
<1>1. /\ DOMAIN bps = Blueprints
      /\ \A y \in Blueprints : bps[y] \in BlueprintType(y)
  BY DEF TreeInv, TreeType
<1>2. SUFFICES ASSUME NEW y \in Blueprints, bps[y].parent # Nothing
               PROVE  bps'[y].parent = bps[y].parent
  OBVIOUS
<1>3. bps[y] \in BlueprintType(y)
  BY <1>1
<1>4. CASE \E c \in calls : RegisterRoute(c)
  BY <1>1, <1>3, <1>4 DEF RegisterRoute, WithRoute, BlueprintType
<1>5. CASE \E c \in calls : RegisterHook(c)
  BY <1>1, <1>3, <1>5 DEF RegisterHook, WithHook, BlueprintType
<1>6. CASE \E c \in calls : RegisterHandler(c)
  BY <1>1, <1>3, <1>6 DEF RegisterHandler, WithHandler, BlueprintType
<1>7. CASE Initialize
  BY <1>1, <1>3, <1>7 DEF Initialize, BlueprintType
<1>8. ASSUME NEW c \in calls, NestBlueprint(c)
      PROVE  bps'[y].parent = bps[y].parent
  <2>1. /\ bps' = Nested(bps, c.in, c.child, c.prefixes)
        /\ y # c.child
    BY <1>2, <1>8 DEF NestBlueprint
  <2> QED BY <1>1, <1>3, <2>1 DEF Nested, BlueprintType
<1>9. ASSUME NEW c \in calls, AddBlueprint(c)
      PROVE  bps'[y].parent = bps[y].parent
  <2>1. /\ bps' = WithBlueprint(bps, c.child, c.prefixes)
        /\ y # c.child
    BY <1>2, <1>9 DEF AddBlueprint
  <2> QED BY <1>1, <1>3, <2>1
          DEF WithBlueprint, Moved, Nested, BlueprintType
<1> QED BY <1>4, <1>5, <1>6, <1>7, <1>8, <1>9 DEF Register

(* What is under the application stays under it. *)
LEMMA RootedGrows ==
    ASSUME TreeInv,
           \A y \in Blueprints :
               bps[y].parent # Nothing => bps'[y].parent = bps[y].parent
    PROVE  Rooted \subseteq Rooted'
<1>1. App # Nothing /\ Nothing \notin Blueprints
  BY BlueprintsAssumption
<1>2. \A y \in Blueprints : Direct(y) => Direct(y)'
  BY <1>1 DEF Direct
<1> SUFFICES ASSUME NEW y \in Rooted PROVE y \in Rooted'
  OBVIOUS
<1>0. y \in Blueprints
  BY DEF Rooted
<1>3. \/ y = App \/ Direct(y)
      \/ bps[y].parent \in Blueprints /\ Direct(bps[y].parent)
  BY DEF Rooted
<1>4. CASE y = App \/ Direct(y)
  BY <1>0, <1>2, <1>4 DEF Rooted
<1>5. CASE bps[y].parent \in Blueprints /\ Direct(bps[y].parent)
  <2>1. PICK p \in Blueprints : p = bps[y].parent
    BY <1>5
  <2>2. bps'[y].parent = p
    BY <1>0, <1>1, <2>1
  <2>3. Direct(p)'
    BY <1>2, <1>5, <2>1
  <2>4. bps'[bps'[y].parent].parent = App
    BY <2>2, <2>3 DEF Direct
  <2> QED BY <1>0, <2>2, <2>4 DEF Rooted, Direct
<1> QED BY <1>3, <1>4, <1>5

(* The tables are registered from a tree that the next one contains. *)
LEMMA ForestBefore ==
    ASSUME TreeInv, TreeInv', NEW c \in calls, AddBlueprint(c)
    PROVE  IsForest(bps, Rooted')
<1>1. IsForest(bps', Rooted')
  <2>1. TreeInv' => IsForest(bps, Rooted)'
    BY IsAForest, PTL
  <2> QED BY <2>1 DEF IsForest
<1>2. /\ DOMAIN bps = Blueprints
      /\ \A y \in Blueprints : bps[y] \in BlueprintType(y)
  BY DEF TreeInv, TreeType
<1>3. PICK link : link = [child |-> c.child, prefixes |-> c.prefixes]
  OBVIOUS
<1>4. \A y \in Rooted' : y \in Blueprints
  BY DEF Rooted
<1>5. \A y \in Blueprints :
          /\ bps'[y].routes = bps[y].routes
          /\ \/ bps'[y].children = bps[y].children
             \/ bps'[y].children = Append(bps[y].children, link)
  <2> SUFFICES ASSUME NEW y \in Blueprints
               PROVE  /\ bps'[y].routes = bps[y].routes
                      /\ \/ bps'[y].children = bps[y].children
                         \/ bps'[y].children = Append(bps[y].children, link)
    OBVIOUS
  <2>1. bps[y] \in BlueprintType(y) /\ App # c.child
    BY <1>2, GivenTypes DEF AddBlueprint, Calls
  <2>2. bps' = WithBlueprint(bps, c.child, c.prefixes)
    BY DEF AddBlueprint
  <2> QED BY <1>2, <1>3, <2>1, <2>2
          DEF WithBlueprint, Moved, Nested, BlueprintType
<1>6. ASSUME NEW y \in Rooted'
      PROVE  /\ bps[y].routes \in Seq(RouteType(Rooted'))
             /\ bps[y].children \in Seq(ChildOf(Rooted'))
  <2>1. y \in Blueprints /\ bps[y] \in BlueprintType(y)
    BY <1>2, <1>4
  <2>2. PICK xs, ys, C :
            /\ xs = bps[y].children /\ ys = bps'[y].children
            /\ C = ChildOf(Rooted')
    OBVIOUS
  <2>3. ys \in Seq(C) /\ bps'[y].routes \in Seq(RouteType(Rooted'))
    BY <1>1, <1>6, <2>2 DEF IsForest
  <2>4. xs \in Seq(Children)
    BY <2>1, <2>2 DEF BlueprintType
  <2>5. ys = xs \/ ys = Append(xs, link)
    BY <1>5, <2>1, <2>2
  <2>6. xs \in Seq(C)
    <3>1. PICK n \in Nat : n = Len(xs) /\ DOMAIN xs = 1..n
      BY <2>4
    <3>2. ASSUME NEW i \in 1..n PROVE xs[i] \in C
      <4>1. i \in DOMAIN ys /\ ys[i] = xs[i]
        BY <2>4, <2>5, <3>1
      <4> QED BY <2>3, <4>1
    <3>3. xs = [i \in 1..n |-> xs[i]]
      BY <2>4, <3>1
    <3> QED BY <3>2, <3>3
  <2>7. bps[y].routes \in Seq(RouteType(Rooted'))
    BY <1>5, <2>1, <2>3
  <2> QED BY <2>2, <2>6, <2>7
<1> QED BY <1>6 DEF IsForest

(* The tables begin empty. *)
LEMMA TablesInit == Init => TablesInv
<1> SUFFICES ASSUME Init PROVE TablesInv
  OBVIOUS
<1>1. tables = NoRoutes
  BY DEF Init
<1> QED BY <1>1, NoRoutesType DEF TablesInv

(* What is in the tables still belongs to the application. *)
LEMMA TablesStay ==
    ASSUME TreeInv, TablesInv, tables' = tables,
           \A y \in Blueprints :
               bps[y].parent # Nothing => bps'[y].parent = bps[y].parent
    PROVE  TablesInv'
<1>1. Rooted \subseteq Rooted'
  BY RootedGrows
<1>2. PICK P, Q : P = Rooted /\ Q = Rooted'
  OBVIOUS
<1>3. tables \in TablesOf(RouteType(P)) /\ P \subseteq Q
  BY <1>1, <1>2 DEF TablesInv
<1>4. tables' \in TablesOf(RouteType(Q))
  BY <1>3, MoreTables
<1>5. TablesInv' <=> tables' \in TablesOf(RouteType(Rooted'))
  BY DEF TablesInv, TablesOf, RouteType, StaticTables, HostTables
<1> QED BY <1>2, <1>4, <1>5

(* The prefixes of a call are patterns. *)
LEMMA SeqPatterns == Seq(Seq(STRING)) \subseteq Seq(Patterns)
<1>1. ASSUME NEW A, NEW B, A \subseteq B
      PROVE  Seq(A) \subseteq Seq(B)
  BY <1>1
<1>2. STRING \subseteq Text
  BY DEF Text
<1>3. Seq(STRING) \subseteq Patterns
  BY <1>1, <1>2 DEF Patterns
<1> QED BY <1>1, <1>3

(* Vibora.add_blueprint() fills the tables from the tree under the child. *)
LEMMA TablesAdd ==
    ASSUME TreeInv, TreeInv', TablesInv, NEW c \in calls, AddBlueprint(c)
    PROVE  TablesInv'
<1>1. Rooted \subseteq Rooted'
  <2>1. Register
    BY DEF Register
  <2> QED BY <2>1, ParentsStay, RootedGrows
<1>2. PICK P, Q, child, ps :
          /\ P = Rooted /\ Q = Rooted' /\ child = c.child /\ ps = c.prefixes
  OBVIOUS
<1>3. tables \in TablesOf(RouteType(Q))
  <2>1. tables \in TablesOf(RouteType(P)) /\ P \subseteq Q
    BY <1>1, <1>2 DEF TablesInv
  <2> QED BY <2>1, MoreTables
<1>4. IsForest(bps, Q) /\ Q \subseteq Blueprints
  <2>1. Q \subseteq Blueprints
    BY <1>2 DEF Rooted
  <2> QED BY <1>2, <2>1, ForestBefore
<1>5. child \in Q /\ ps \in Seq(Patterns)
  <2>1. c.op = "blueprint" /\ bps' = WithBlueprint(bps, child, ps)
    BY <1>2 DEF AddBlueprint, Calls
  <2>2. /\ child \in Blueprints \ {App} /\ ps \in Seq(Seq(STRING))
        /\ App \in Blueprints
    BY <1>2, <2>1, GivenTypes, BlueprintsAssumption DEF Children
  <2>3. /\ DOMAIN bps = Blueprints
        /\ bps[child] \in BlueprintType(child)
        /\ bps[App] \in BlueprintType(App)
    BY <2>2 DEF TreeInv, TreeType
  <2>4. bps'[child].parent = App
    BY <2>1, <2>2, <2>3 DEF WithBlueprint, Moved, Nested, BlueprintType
  <2>5. child \in Rooted'
    BY <2>2, <2>4 DEF Rooted, Direct
  <2> QED BY <1>2, <2>2, <2>5, SeqPatterns
<1>6. setup.strategy \in Strategies
  BY SetupsAssumption DEF TreeInv
<1>7. PICK strategy \in Strategies : strategy = setup.strategy
  BY <1>6
<1>8. tables' = Registered(tables, strategy, bps, child, ps)
  BY <1>2, <1>7 DEF AddBlueprint
<1>9. PICK tbs, tree : tbs = tables /\ tree = bps
  OBVIOUS
<1>10. Registered(tbs, strategy, tree, child, ps) \in TablesOf(RouteType(Q))
  BY <1>3, <1>4, <1>5, <1>9, RegisteredType
<1>11. TablesInv' <=> tables' \in TablesOf(RouteType(Rooted'))
  BY DEF TablesInv, TablesOf, RouteType, StaticTables, HostTables
<1> QED BY <1>2, <1>8, <1>9, <1>10, <1>11

(* initialize() fills the tables with the application's own routes. *)
LEMMA TablesInitialize ==
    ASSUME TreeInv, TreeInv', TablesInv, Initialize
    PROVE  TablesInv'
<1>1. Rooted \subseteq Rooted'
  <2>1. Register
    BY DEF Register
  <2> QED BY <2>1, ParentsStay, RootedGrows
<1>2. PICK P, Q : P = Rooted /\ Q = Rooted'
  OBVIOUS
<1>3. /\ tables \in TablesOf(RouteType(P)) /\ P \subseteq Blueprints
      /\ P \subseteq Q /\ App \in P /\ IsForest(bps, P)
  BY <1>1, <1>2, IsAForest, BlueprintsAssumption DEF TablesInv, Rooted
<1>4. PICK strategy \in Strategies : strategy = setup.strategy
  BY SetupsAssumption DEF TreeInv
<1>5. NoPrefix \in Seq(Patterns) /\ "strict" \in Strategies
  BY DEF NoPrefix, Patterns, Strategies
<1>6. PICK tbs, tree, t :
          /\ tbs = tables /\ tree = bps
          /\ t = Registered(tbs, strategy, tree, App, NoPrefix)
  OBVIOUS
<1>7. t \in TablesOf(RouteType(P))
  BY <1>3, <1>5, <1>6, RegisteredType
<1>8. AddRoute(t, "strict", StaticRoute, NoPrefix) \in TablesOf(RouteType(P))
  BY <1>3, <1>5, <1>7, StaticRouteType, AddRouteType
<1>9. tables' = AddRoute(t, "strict", StaticRoute, NoPrefix)
  BY <1>4, <1>6 DEF Initialize
<1>10. tables' \in TablesOf(RouteType(Q))
  BY <1>3, <1>8, <1>9, MoreTables
<1>11. TablesInv' <=> tables' \in TablesOf(RouteType(Rooted'))
  BY DEF TablesInv, TablesOf, RouteType, StaticTables, HostTables
<1> QED BY <1>2, <1>10, <1>11

(* Every step keeps the tables to routes of the application's blueprints. *)
LEMMA TablesNext ==
    ASSUME TreeInv, TreeInv', TablesInv, [Next]_vars
    PROVE  TablesInv'
<1>1. CASE UNCHANGED application
  BY <1>1, TablesStay DEF application
<1>2. CASE Register
  <2>1. \A y \in Blueprints :
            bps[y].parent # Nothing => bps'[y].parent = bps[y].parent
    BY <1>2, ParentsStay
  <2>2. \/ tables' = tables \/ Initialize \/ \E c \in calls : AddBlueprint(c)
    BY <1>2 DEF Register, RegisterRoute, RegisterHook, RegisterHandler,
                NestBlueprint
  <2> QED BY <2>1, <2>2, TablesStay, TablesAdd, TablesInitialize
<1> QED BY <1>1, <1>2, NextIs

(* Whoever answers a request is a blueprint of the application. *)
LEMMA AskedType ==
    ASSUME TablesInv, CacheInv, NEW r \in 1..Len(asked)
    PROVE  asked[r].route \in RouteType(Rooted)
<1>1. App \in Rooted
  BY BlueprintsAssumption DEF Rooted
<1>2. PICK t, P : t = tables /\ P = Rooted
  OBVIOUS
<1>3. \A q : Lookup(t, q) \in RouteType(P)
  BY <1>1, <1>2, LookupType DEF TablesInv
<1>4. asked[r] \in Routings(t)
  BY <1>2 DEF CacheInv
<1>5. asked[r].route \in Found(t)
  BY <1>4 DEF Routings
<1> QED BY <1>2, <1>3, <1>5 DEF Found

-----------------------------------------------------------------------------
(* Where hooks are called from. *)

Holds(b, h) == \E i \in DOMAIN bps[b].hooks : bps[b].hooks[i] = h

(* A hook stays with the blueprint that it was given to, or moves to the   *)
(* application with those that are not local.                              *)
HooksPlaced ==
    \A c \in CallsFor("hook") \ calls :
        /\ Holds(c.in, c.hook) \/ (Direct(c.in) /\ Holds(App, c.hook))
        /\ Direct(c.in) /\ ~c.hook.local /\ c.hook \notin late
              => Holds(App, c.hook)

(* No hook was given yet. *)
LEMMA PlacedInit == Init => HooksPlaced
BY DEF Init, HooksPlaced, CallsFor

(* Steps that give no hooks and add nothing to the application. *)
LEMMA PlacedSame ==
    ASSUME TreeInv, HooksPlaced, setup' = setup, late' \subseteq late,
           late \subseteq late',
           CallsFor("hook") \ calls' \subseteq CallsFor("hook") \ calls,
           \A b \in Blueprints : /\ bps'[b].hooks = bps[b].hooks
                                 /\ Direct(b)' <=> Direct(b)
    PROVE  HooksPlaced'
<1>1. \A c \in CallsFor("hook") : c.in \in Blueprints
  BY SetupsAssumption DEF TreeInv, CallsFor
<1>2. App \in Blueprints /\ CallsFor("hook")' = CallsFor("hook")
  BY BlueprintsAssumption DEF CallsFor
<1>3. late' = late
  OBVIOUS
<1> SUFFICES ASSUME NEW c \in CallsFor("hook") \ calls'
    PROVE  /\ (Holds(c.in, c.hook) \/ (Direct(c.in) /\ Holds(App, c.hook)))'
           /\ (Direct(c.in) /\ ~c.hook.local /\ c.hook \notin late
                  => Holds(App, c.hook))'
  BY <1>2 DEF HooksPlaced
<1>4. PICK b, h : b \in Blueprints /\ b = c.in /\ h = c.hook
  BY <1>1
<1>5. /\ Holds(b, h)' <=> Holds(b, h)
      /\ Holds(App, h)' <=> Holds(App, h)
      /\ Direct(b)' <=> Direct(b)
  BY <1>2, <1>4 DEF Holds
<1>6. /\ Holds(b, h) \/ (Direct(b) /\ Holds(App, h))
      /\ Direct(b) /\ ~h.local /\ h \notin late => Holds(App, h)
  BY <1>4 DEF HooksPlaced
<1>7. /\ Holds(b, h)' \/ (Direct(b)' /\ Holds(App, h)')
      /\ Direct(b)' /\ ~h.local /\ h \notin late' => Holds(App, h)'
  BY <1>3, <1>5, <1>6
<1> QED BY <1>4, <1>7 DEF Holds, Direct

(* A new hook is in its blueprint, or late. *)
LEMMA PlacedHook ==
    ASSUME TreeInv, HooksPlaced, NEW c \in calls, RegisterHook(c)
    PROVE  HooksPlaced'
<1>1. /\ setup' = setup /\ calls' = calls \ {c} /\ c.op = "hook"
      /\ bps' = [bps EXCEPT ![c.in].hooks = Append(@, c.hook)]
      /\ late' = IF bps[c.in].moved THEN late \cup {c.hook} ELSE late
  BY DEF RegisterHook, Made, Calls, WithHook
<1>2. /\ c \in setup.calls /\ c.in \in Blueprints /\ c.hook \in HooksGiven
      /\ App \in Blueprints
  BY <1>1, GivenTypes, BlueprintsAssumption
<1>3. /\ DOMAIN bps = Blueprints
      /\ \A b \in Blueprints : bps[b] \in BlueprintType(b)
      /\ bps[c.in].moved <=> Direct(c.in)
  BY <1>2 DEF TreeInv, TreeType, TreeLinks
<1>4. PICK a, g : a = c.in /\ g = c.hook
  OBVIOUS
<1>5. PICK xs, ys : xs = bps[a].hooks /\ ys = Append(xs, g)
  OBVIOUS
<1>6. xs \in Seq(HooksGiven)
  BY <1>2, <1>3, <1>4, <1>5 DEF BlueprintType
<1>7. /\ \A i \in DOMAIN xs : i \in DOMAIN ys /\ ys[i] = xs[i]
      /\ \E i \in DOMAIN ys : ys[i] = g
  <2>1. ys[Len(xs) + 1] = g /\ Len(xs) + 1 \in DOMAIN ys
    BY <1>5, <1>6
  <2>2. \A i \in DOMAIN xs : i \in DOMAIN ys /\ ys[i] = xs[i]
    BY <1>5, <1>6
  <2> QED BY <2>1, <2>2
<1>8. ASSUME NEW b \in Blueprints
      PROVE  /\ bps'[b].hooks = IF b = a THEN ys ELSE bps[b].hooks
             /\ bps'[b].parent = bps[b].parent
  <2>1. bps[b] \in BlueprintType(b)
    BY <1>3
  <2> QED BY <1>1, <1>3, <1>4, <1>5, <2>1 DEF BlueprintType
<1>9. ASSUME NEW b \in Blueprints, NEW h
      PROVE  /\ Holds(b, h) => Holds(b, h)'
             /\ Direct(b)' <=> Direct(b)
  BY <1>5, <1>7, <1>8 DEF Holds, Direct
<1>10. Holds(a, g)'
  <2>1. bps'[a].hooks = ys
    BY <1>2, <1>4, <1>8
  <2> QED BY <1>7, <2>1 DEF Holds
<1>11. CallsFor("hook")' = CallsFor("hook")
  BY <1>1 DEF CallsFor
<1> SUFFICES ASSUME NEW d \in CallsFor("hook") \ calls'
    PROVE  /\ (Holds(d.in, d.hook) \/ (Direct(d.in) /\ Holds(App, d.hook)))'
           /\ (Direct(d.in) /\ ~d.hook.local /\ d.hook \notin late
                  => Holds(App, d.hook))'
  BY <1>11 DEF HooksPlaced
<1>12. PICK b, h : b \in Blueprints /\ b = d.in /\ h = d.hook
  BY SetupsAssumption DEF TreeInv, CallsFor
<1>13. /\ Holds(b, h)' \/ (Direct(b)' /\ Holds(App, h)')
       /\ Direct(b)' /\ ~h.local /\ h \notin late' => Holds(App, h)'
  <2>1. CASE d = c
    <3>1. b = a /\ h = g
      BY <1>4, <1>12, <2>1
    <3>2. Direct(b) => h \in late'
      BY <1>1, <1>3, <1>4, <3>1
    <3> QED BY <1>9, <1>10, <1>12, <3>1, <3>2
  <2>2. CASE d # c
    <3>1. d \in CallsFor("hook") \ calls
      BY <1>1, <2>2
    <3>2. /\ Holds(b, h) \/ (Direct(b) /\ Holds(App, h))
          /\ Direct(b) /\ ~h.local /\ h \notin late => Holds(App, h)
      BY <1>12, <3>1 DEF HooksPlaced
    <3>3. h \notin late' => h \notin late
      BY <1>1
    <3> QED BY <1>2, <1>9, <1>12, <3>2, <3>3
  <2> QED BY <2>1, <2>2
<1> QED BY <1>12, <1>13 DEF Holds, Direct

(* Who is in a sequence is in it joined to another. *)
LEMMA JoinHas ==
    ASSUME NEW S, NEW xs \in Seq(S), NEW ys \in Seq(S)
    PROVE  /\ xs \o ys \in Seq(S)
           /\ \A i \in DOMAIN xs : i \in DOMAIN (xs \o ys)
                                   /\ (xs \o ys)[i] = xs[i]
           /\ \A i \in DOMAIN ys : Len(xs) + i \in DOMAIN (xs \o ys)
                                   /\ (xs \o ys)[Len(xs) + i] = ys[i]
OBVIOUS

(* add_blueprint() moves all the hooks the child has for all requests. *)
LEMMA PlacedAdd ==
    ASSUME TreeInv, HooksPlaced, NEW c \in calls, AddBlueprint(c)
    PROVE  HooksPlaced'
<1>1. /\ setup' = setup /\ calls' = calls \ {c} /\ late' = late
      /\ c.op = "blueprint" /\ bps[c.child].parent = Nothing
      /\ bps' = WithBlueprint(bps, c.child, c.prefixes)
  BY DEF AddBlueprint, Made, Calls
<1>2. PICK x : x = c.child
  OBVIOUS
<1>3. /\ x \in Blueprints \ {App} /\ App \in Blueprints
      /\ App # Nothing /\ bps[App].parent = Nothing
  BY <1>1, <1>2, GivenTypes, BlueprintsAssumption DEF TreeInv, TreeLinks
<1>4. /\ DOMAIN bps = Blueprints
      /\ \A b \in Blueprints : bps[b] \in BlueprintType(b)
  BY DEF TreeInv, TreeType
<1>5. PICK hooks, own, global, local :
          /\ hooks = bps[x].hooks /\ own = bps[App].hooks
          /\ global = Only(hooks, LAMBDA h : ~h.local)
          /\ local = Only(hooks, LAMBDA h : h.local)
  OBVIOUS
<1>6. hooks \in Seq(HooksGiven) /\ own \in Seq(HooksGiven)
  BY <1>3, <1>4, <1>5 DEF BlueprintType
<1>7. ASSUME NEW b \in Blueprints
      PROVE  /\ bps'[b].hooks = IF b = App THEN own \o global
                                ELSE IF b = x THEN local ELSE bps[b].hooks
             /\ bps'[b].parent = IF b = x THEN App ELSE bps[b].parent
  <2>1. /\ bps[b] \in BlueprintType(b) /\ bps[x] \in BlueprintType(x)
        /\ bps[App] \in BlueprintType(App)
    BY <1>3, <1>4
  <2>2. PICK tree : tree = Nested(bps, App, x, c.prefixes)
    OBVIOUS
  <2>3. /\ DOMAIN tree = Blueprints
        /\ tree[x].hooks = hooks /\ tree[App].hooks = own
        /\ tree[b].hooks = bps[b].hooks
        /\ tree[b].parent = IF b = x THEN App ELSE bps[b].parent
    BY <1>3, <1>4, <1>5, <2>1, <2>2 DEF Nested, BlueprintType
  <2>4. bps' = [tree EXCEPT ![App].hooks = @ \o global, ![x].hooks = local,
                            ![x].moved = TRUE]
    BY <1>1, <1>2, <1>5, <2>2, <2>3 DEF WithBlueprint, Moved
  <2>5. /\ "hooks" \in DOMAIN tree[b] /\ "parent" \in DOMAIN tree[b]
    BY <1>3, <1>4, <2>1, <2>2 DEF Nested, BlueprintType
  <2>6. CASE b = App
    BY <1>3, <2>3, <2>4, <2>5, <2>6
  <2>7. CASE b = x
    <3>1. bps'[b] = [tree[b] EXCEPT !.hooks = local, !.moved = TRUE]
      BY <1>3, <2>3, <2>4, <2>7
    <3> QED BY <1>3, <2>3, <2>5, <2>7, <3>1
  <2>8. CASE b # App /\ b # x
    BY <2>3, <2>4, <2>8
  <2> QED BY <2>6, <2>7, <2>8
<1>8. /\ global \in Seq(HooksGiven)
      /\ \A i \in DOMAIN hooks :
            \/ \E j \in DOMAIN global : global[j] = hooks[i]
            \/ /\ hooks[i].local
               /\ \E j \in DOMAIN local : local[j] = hooks[i]
  <2> DEFINE g == {i \in DOMAIN hooks : ~hooks[i].local}
             l == {i \in DOMAIN hooks : hooks[i].local}
  <2>1. global = Chosen(hooks, g) /\ local = Chosen(hooks, l)
    BY <1>5 DEF Only
  <2>2. /\ g \in SUBSET DOMAIN hooks /\ l \in SUBSET DOMAIN hooks
        /\ \A i \in DOMAIN hooks : i \in g \/ (i \in l /\ hooks[i].local)
    OBVIOUS
  <2> HIDE DEF g, l
  <2>3. /\ global \in Seq(HooksGiven)
        /\ \A i \in g : \E j \in DOMAIN global : global[j] = hooks[i]
        /\ \A i \in l : \E j \in DOMAIN local : local[j] = hooks[i]
    BY ZenonT(30), <1>6, <2>1, <2>2, ChosenElements
  <2> QED BY <2>2, <2>3
<1>9. PICK all : all = own \o global
  OBVIOUS
<1>10. /\ \A i \in DOMAIN own : \E j \in DOMAIN all : all[j] = own[i]
       /\ \A i \in DOMAIN global : \E j \in DOMAIN all : all[j] = global[i]
  <2>1. /\ \A i \in DOMAIN own : i \in DOMAIN all /\ all[i] = own[i]
        /\ \A i \in DOMAIN global : Len(own) + i \in DOMAIN all
                                     /\ all[Len(own) + i] = global[i]
    BY <1>6, <1>8, <1>9, JoinHas
  <2> QED BY <2>1
<1>11. bps'[App].hooks = all /\ bps'[x].hooks = local
  BY <1>3, <1>7, <1>9
<1>12. \A h : Holds(App, h) => Holds(App, h)'
  BY <1>5, <1>10, <1>11 DEF Holds
<1>13. ASSUME NEW h, Holds(x, h)
       PROVE  Holds(App, h)' \/ (h.local /\ Holds(x, h)')
  <2>1. PICK i \in DOMAIN hooks : hooks[i] = h
    BY <1>5, <1>13 DEF Holds
  <2>2. CASE \E j \in DOMAIN global : global[j] = h
    BY <1>10, <1>11, <2>2 DEF Holds
  <2>3. CASE h.local /\ \E j \in DOMAIN local : local[j] = h
    BY <1>11, <2>3 DEF Holds
  <2> QED BY <1>8, <2>1, <2>2, <2>3
<1>14. ASSUME NEW b \in Blueprints, b # x, NEW h
       PROVE  /\ Holds(b, h) => Holds(b, h)'
              /\ Direct(b)' <=> Direct(b)
  <2>1. Direct(b)' <=> Direct(b)
    BY <1>7, <1>14 DEF Direct
  <2>2. CASE b = App
    BY <1>12, <2>1, <2>2
  <2>3. CASE b # App
    <3>1. bps'[b].hooks = bps[b].hooks
      BY <1>7, <1>14, <2>3
    <3> QED BY <2>1, <3>1 DEF Holds
  <2> QED BY <2>2, <2>3
<1>15. Direct(x)' /\ ~Direct(x)
  <2>1. bps'[x].parent = App
    BY <1>3, <1>7
  <2> QED BY <1>1, <1>2, <1>3, <2>1 DEF Direct
<1>16. /\ CallsFor("hook")' = CallsFor("hook")
       /\ CallsFor("hook") \ calls' \subseteq CallsFor("hook") \ calls
  BY <1>1 DEF CallsFor
<1> SUFFICES ASSUME NEW d \in CallsFor("hook") \ calls'
    PROVE  /\ (Holds(d.in, d.hook) \/ (Direct(d.in) /\ Holds(App, d.hook)))'
           /\ (Direct(d.in) /\ ~d.hook.local /\ d.hook \notin late
                  => Holds(App, d.hook))'
  BY <1>16 DEF HooksPlaced
<1>17. PICK b, h : b \in Blueprints /\ b = d.in /\ h = d.hook
  BY SetupsAssumption DEF TreeInv, CallsFor
<1>18. /\ Holds(b, h) \/ (Direct(b) /\ Holds(App, h))
       /\ Direct(b) /\ ~h.local /\ h \notin late => Holds(App, h)
  BY <1>16, <1>17 DEF HooksPlaced
<1>19. /\ Holds(b, h)' \/ (Direct(b)' /\ Holds(App, h)')
       /\ Direct(b)' /\ ~h.local /\ h \notin late' => Holds(App, h)'
  <2>1. CASE b = x
    BY <1>12, <1>13, <1>15, <1>17, <1>18, <2>1
  <2>2. CASE b # x
    BY <1>1, <1>12, <1>14, <1>17, <1>18, <2>2
  <2> QED BY <2>1, <2>2
<1> QED BY <1>17, <1>19 DEF Holds, Direct

(* Every step keeps the hooks where they are called from. *)
LEMMA PlacedNext ==
    ASSUME TreeInv, HooksPlaced, [Next]_vars
    PROVE  HooksPlaced'
<1>1. /\ DOMAIN bps = Blueprints
      /\ \A b \in Blueprints : bps[b] \in BlueprintType(b)
  BY DEF TreeInv, TreeType
<1>2. CASE UNCHANGED application
  BY <1>2, PlacedSame DEF application, Direct
<1>3. ASSUME NEW c \in calls, RegisterRoute(c) PROVE HooksPlaced'
  <2>1. /\ setup' = setup /\ late' = late /\ calls' = calls \ {c}
        /\ c.op = "route"
        /\ bps' = [bps EXCEPT ![c.in].routes = Append(@, c.route)]
    BY <1>3 DEF RegisterRoute, Made, Calls, WithRoute
  <2>2. CallsFor("hook") \ calls' \subseteq CallsFor("hook") \ calls
    BY <2>1 DEF CallsFor
  <2>3. ASSUME NEW b \in Blueprints
        PROVE  bps'[b].hooks = bps[b].hooks /\ (Direct(b)' <=> Direct(b))
    <3>1. bps[b] \in BlueprintType(b)
      BY <1>1
    <3> QED BY <1>1, <2>1, <3>1 DEF BlueprintType, Direct
  <2> QED BY <2>1, <2>2, <2>3, PlacedSame
<1>4. ASSUME NEW c \in calls, RegisterHandler(c) PROVE HooksPlaced'
  <2>1. /\ setup' = setup /\ late' = late /\ calls' = calls \ {c}
        /\ c.op = "handler"
        /\ bps' = [bps EXCEPT ![c.in].handlers = SetHandler(@, c.handler)]
    BY <1>4 DEF RegisterHandler, Made, Calls, WithHandler
  <2>2. CallsFor("hook") \ calls' \subseteq CallsFor("hook") \ calls
    BY <2>1 DEF CallsFor
  <2>3. ASSUME NEW b \in Blueprints
        PROVE  bps'[b].hooks = bps[b].hooks /\ (Direct(b)' <=> Direct(b))
    <3>1. bps[b] \in BlueprintType(b)
      BY <1>1
    <3> QED BY <1>1, <2>1, <3>1 DEF BlueprintType, Direct
  <2> QED BY <2>1, <2>2, <2>3, PlacedSame
<1>5. ASSUME NEW c \in calls, NestBlueprint(c) PROVE HooksPlaced'
  <2>1. /\ setup' = setup /\ late' = late /\ calls' = calls \ {c}
        /\ c.op = "blueprint" /\ c.in # App
        /\ bps[c.child].parent = Nothing /\ Nothing # App
        /\ bps' = Nested(bps, c.in, c.child, c.prefixes)
    BY <1>5, BlueprintsAssumption DEF NestBlueprint, Made, Calls
  <2>2. CallsFor("hook") \ calls' \subseteq CallsFor("hook") \ calls
    BY <2>1 DEF CallsFor
  <2>3. ASSUME NEW b \in Blueprints
        PROVE  bps'[b].hooks = bps[b].hooks /\ (Direct(b)' <=> Direct(b))
    <3>1. bps[b] \in BlueprintType(b)
      BY <1>1
    <3>2. /\ bps'[b].hooks = bps[b].hooks
          /\ bps'[b].parent = IF b = c.child THEN c.in ELSE bps[b].parent
      BY <1>1, <2>1, <3>1 DEF BlueprintType, Nested
    <3> QED BY <2>1, <3>2 DEF Direct
  <2> QED BY <2>1, <2>2, <2>3, PlacedSame
<1>6. CASE Initialize
  <2>1. /\ setup' = setup /\ late' = late /\ calls' = calls
        /\ bps' = [bps EXCEPT ![App].handlers = WithDefaults(@)]
    BY <1>6 DEF Initialize
  <2>3. ASSUME NEW b \in Blueprints
        PROVE  bps'[b].hooks = bps[b].hooks /\ (Direct(b)' <=> Direct(b))
    <3>1. bps[b] \in BlueprintType(b)
      BY <1>1
    <3> QED BY <1>1, <2>1, <3>1 DEF BlueprintType, Direct
  <2> QED BY <2>1, <2>3, PlacedSame
<1> QED BY <1>2, <1>3, <1>4, <1>5, <1>6, NextIs, PlacedHook, PlacedAdd
        DEF Register

-----------------------------------------------------------------------------
(* The hooks that guard an endpoint. *)

(* The hooks that have run before the endpoint of a request. *)
RanBefore(r) == {o.what : o \in {n \in trace[r] : n.at = "before"}}
GuardsOf(r) == Guards(asked[r].route.parent)
GuardsRan(r) == \A h \in GuardsOf(r) : HookName(h) \in RanBefore(r)

(* Those that have not are still to be called. *)
GuardsAwait(r) ==
    \A h \in GuardsOf(r) :
        \/ HookName(h) \in RanBefore(r)
        \/ \E j \in DOMAIN todo[r] : todo[r][j] = h

TaskTypes ==
    /\ Len(asked) \in 0..MaxRequests
    /\ at \in [Requests -> Places] /\ DOMAIN trace = Requests
    /\ todo \in [Requests -> Seq(HooksGiven)]
    /\ \A r \in Requests :
          r \notin 1..Len(asked) => at[r] = "none" /\ trace[r] = {}
    /\ \A e \in errors : e.request \in 1..Len(asked)

(* From the hooks on, and wherever the endpoint has been called. *)
Guarded(r) ==
    /\ at[r] \in {"skip", "before"} => GuardsAwait(r)
    /\ at[r] \in {"fetch", "call", "endpoint"} => GuardsRan(r)
    /\ (\E o \in trace[r] : o.at = "call") => GuardsRan(r)
    /\ (\E e \in errors : e.request = r /\ e.at = "call") => GuardsRan(r)

GuardInv == TaskTypes /\ \A r \in 1..Len(asked) : Guarded(r)

(* What call_hooks() runs are hooks that were given. *)
LEMMA ListenersType ==
    ASSUME TreeInv, NEW b \in Blueprints, NEW event
    PROVE  Listeners(bps, b, event) \in Seq(HooksGiven)
<1>1. App \in Blueprints
  BY BlueprintsAssumption
<1>2. /\ bps[b].hooks \in Seq(HooksGiven)
      /\ bps[App].hooks \in Seq(HooksGiven)
  BY <1>1 DEF TreeInv, TreeType, BlueprintType
<1>3. PICK tree, own, app :
          /\ tree = bps /\ own = Target(tree, b, event)
          /\ app = Target(tree, App, event)
  OBVIOUS
<1>4. own \in Seq(HooksGiven) /\ app \in Seq(HooksGiven)
  BY <1>2, <1>3, TargetHas
<1>5. own \o app \in Seq(HooksGiven) /\ <<>> \o app \in Seq(HooksGiven)
  BY <1>4, JoinHas
<1> QED BY <1>3, <1>5 DEF Listeners

(* Those that hold a hook listen. *)
LEMMA HoldersListen ==
    ASSUME TreeInv, NEW b \in Blueprints, NEW h,
           Holds(App, h) \/ Holds(b, h)
    PROVE  \E j \in DOMAIN Listeners(bps, b, h.event) :
               Listeners(bps, b, h.event)[j] = h
<1>1. App \in Blueprints
  BY BlueprintsAssumption
<1>2. /\ bps[b].hooks \in Seq(HooksGiven)
      /\ bps[App].hooks \in Seq(HooksGiven)
  BY <1>1 DEF TreeInv, TreeType, BlueprintType
<1>3. PICK tree, own, app, event, H :
          /\ tree = bps /\ event = h.event /\ H = HooksGiven
          /\ own = Target(tree, b, event) /\ app = Target(tree, App, event)
  OBVIOUS
<1>4. /\ own \in Seq(H) /\ app \in Seq(H)
      /\ Holds(App, h) => \E j \in DOMAIN app : app[j] = h
      /\ Holds(b, h) => \E j \in DOMAIN own : own[j] = h
  <2>0. tree[b].hooks \in Seq(H) /\ tree[App].hooks \in Seq(H)
    BY <1>2, <1>3
  <2>1. own \in Seq(H) /\ Lists(own, tree[b].hooks, event)
    BY <1>3, <2>0, TargetHas
  <2>2. app \in Seq(H) /\ Lists(app, tree[App].hooks, event)
    BY <1>3, <2>0, TargetHas
  <2>3. Holds(App, h) => \E j \in DOMAIN app : app[j] = h
    BY <1>3, <2>2 DEF Holds, Lists
  <2>4. Holds(b, h) => \E j \in DOMAIN own : own[j] = h
    BY <1>3, <2>1 DEF Holds, Lists
  <2> QED BY <2>1, <2>2, <2>3, <2>4
<1>5. CASE b = App
  <2>1. Listeners(bps, b, event) = <<>> \o app
    BY <1>3, <1>5 DEF Listeners
  <2>2. <<>> \o app = app
    BY <1>4
  <2>3. \E j \in DOMAIN app : app[j] = h
    BY <1>4, <1>5
  <2> QED BY <1>3, <2>1, <2>2, <2>3
<1>6. CASE b # App
  <2>1. PICK all : all = own \o app
    OBVIOUS
  <2>2. Listeners(bps, b, event) = all
    BY <1>3, <1>6, <2>1 DEF Listeners
  <2>3. /\ \A i \in DOMAIN own : i \in DOMAIN all /\ all[i] = own[i]
        /\ \A i \in DOMAIN app : Len(own) + i \in DOMAIN all
                                 /\ all[Len(own) + i] = app[i]
    BY <1>4, <2>1, JoinHas
  <2>4. \E j \in DOMAIN all : all[j] = h
    <3>1. CASE Holds(App, h)
      BY <1>4, <2>3, <3>1
    <3>2. CASE Holds(b, h)
      BY <1>4, <2>3, <3>2
    <3> QED BY <3>1, <3>2
  <2> QED BY <1>3, <2>2, <2>4
<1> QED BY <1>5, <1>6

(* exists_hook() and call_hooks() find every hook that guards a route. *)
LEMMA GuardsListen ==
    ASSUME TreeInv, HooksPlaced, calls = {}, NEW b \in Blueprints,
           NEW h \in Guards(b)
    PROVE  /\ ExistsHook(bps, "before")
           /\ \E j \in DOMAIN Listeners(bps, b, "before") :
                  Listeners(bps, b, "before")[j] = h
<1>1. App \in Blueprints /\ ~Direct(App)
  BY BlueprintsAssumption DEF TreeInv, TreeLinks, Direct
<1>2. PICK c \in setup.calls :
          /\ c.op = "hook" /\ c.hook.event = "before" /\ h = c.hook
          /\ \/ c.in = App
             \/ ~c.hook.local /\ Direct(c.in) /\ c.hook \notin late
             \/ c.in = b /\ Direct(b)
  BY DEF Guards
<1>3. /\ Holds(c.in, h) \/ (Direct(c.in) /\ Holds(App, h))
      /\ Direct(c.in) /\ ~h.local /\ h \notin late => Holds(App, h)
  <2>1. c \in CallsFor("hook") \ calls
    BY <1>2 DEF CallsFor
  <2> QED BY <1>2, <2>1 DEF HooksPlaced
<1>4. Holds(App, h) \/ (Holds(b, h) /\ Direct(b))
  BY <1>1, <1>2, <1>3
<1>5. ExistsHook(bps, "before")
  <2>1. PICK a \in Blueprints : Holds(a, h) /\ (a = App \/ Direct(a))
    BY <1>1, <1>4
  <2>2. a = App \/ IsChildOf(a, App)
    BY <1>1, <2>1 DEF TreeInv, TreeLinks, Direct
  <2>3. PICK i \in DOMAIN bps[a].hooks : bps[a].hooks[i] = h
    BY <2>1 DEF Holds
  <2>4. bps[a].hooks[i].event = "before"
    BY <1>2, <2>3
  <2> QED BY <2>2, <2>4 DEF ExistsHook, IsChildOf
<1> QED BY <1>2, <1>4, <1>5, HoldersListen

(* What is left to run for a request are hooks that were given. *)
LEMMA TodoType ==
    ASSUME TreeInv, NEW route, route.parent \in Blueprints, NEW event
    PROVE  Todo(event, route) \in Seq(HooksGiven)
BY ListenersType DEF Todo
-----------------------------------------------------------------------------
(* What is noted for request r. *)
Adds(r, s) ==
    /\ DOMAIN trace' = DOMAIN trace /\ trace'[r] = trace[r] \cup s
    /\ \A x \in Requests : x # r => trace'[x] = trace[x]

(* A step of the task of request r, which notes s and is then at p with    *)
(* the hooks hs to call.                                                   *)
Fits(r, p, hs, s) ==
    /\ UNCHANGED <<application, asked>>
    /\ p \in Places /\ hs \in Seq(HooksGiven)
    /\ at' = [at EXCEPT ![r] = p] /\ todo' = [todo EXCEPT ![r] = hs]
    /\ Adds(r, s)
    /\ \A e \in errors' :
          \/ e \in errors
          \/ e.request = r /\ (e.at = "call" => GuardsRan(r))
    /\ \A o \in s : o.at = "call" => GuardsRan(r)
    /\ p \in {"skip", "before"} =>
          \A h \in GuardsOf(r) :
              \/ HookName(h) \in RanBefore(r)
              \/ \E o \in s : o.at = "before" /\ o.what = HookName(h)
              \/ \E j \in DOMAIN hs : hs[j] = h
    /\ p \in {"fetch", "call", "endpoint"} => GuardsRan(r)

(* A turn of a request that keeps its guards keeps the invariant. *)
LEMMA FitsKeeps ==
    ASSUME GuardInv, NEW r \in 1..Len(asked), r \in Requests,
           NEW p, NEW hs, NEW s, Fits(r, p, hs, s)
    PROVE  GuardInv'
<1>1. /\ UNCHANGED <<setup, late, bps, asked>>
      /\ \A x : Guards(x)' = Guards(x)
  BY DEF Fits, application, Guards, Direct
<1>2. \A x : GuardsOf(x)' = GuardsOf(x)
  BY <1>1 DEF GuardsOf
<1>3. /\ at \in [Requests -> Places] /\ DOMAIN trace = Requests
      /\ todo \in [Requests -> Seq(HooksGiven)]
  BY DEF GuardInv, TaskTypes
<1>4. /\ at' \in [Requests -> Places] /\ DOMAIN trace' = Requests
      /\ todo' \in [Requests -> Seq(HooksGiven)]
      /\ at'[r] = p /\ todo'[r] = hs /\ trace'[r] = trace[r] \cup s
      /\ \A x \in Requests : x # r =>
            at'[x] = at[x] /\ todo'[x] = todo[x] /\ trace'[x] = trace[x]
  BY <1>3 DEF Fits, Adds
<1>5. HooksGiven' = HooksGiven
  BY <1>1 DEF HooksGiven, CallsFor
<1>6. \A e \in errors' : e \in errors \/ e.request = r
  BY DEF Fits
<1>7. TaskTypes'
  <2>1. ASSUME NEW x \in Requests, x \notin 1..Len(asked')
        PROVE  at'[x] = "none" /\ trace'[x] = {}
    <3>1. x # r /\ x \notin 1..Len(asked)
      BY <1>1, <2>1
    <3> QED BY <1>4, <3>1 DEF GuardInv, TaskTypes
  <2>2. \A e \in errors' : e.request \in 1..Len(asked')
    BY <1>1, <1>6 DEF GuardInv, TaskTypes
  <2>3. Len(asked') \in 0..MaxRequests
    BY <1>1 DEF GuardInv, TaskTypes
  <2>4. todo' \in [Requests -> Seq(HooksGiven')]
    BY <1>4, <1>5
  <2>5. (todo \in [Requests -> Seq(HooksGiven)])'
    BY <2>4
  <2> QED BY <1>4, <2>1, <2>2, <2>3, <2>5 DEF TaskTypes
<1>8. ASSUME NEW x \in Requests
      PROVE  GuardsRan(x) => GuardsRan(x)'
  BY <1>2, <1>4 DEF GuardsRan, RanBefore
<1>9. ASSUME NEW x \in 1..Len(asked), x \in Requests, x # r
      PROVE  Guarded(x)'
  <2>1. at'[x] = at[x] /\ todo'[x] = todo[x] /\ trace'[x] = trace[x]
    BY <1>4, <1>9
  <2>2. Guarded(x)
    BY <1>9 DEF GuardInv
  <2>3. GuardsAwait(x) => GuardsAwait(x)'
    BY <1>2, <2>1 DEF GuardsAwait, RanBefore
  <2>4. GuardsRan(x) => GuardsRan(x)'
    BY <1>8, <1>9
  <2>5. ASSUME NEW e \in errors', e.request = x PROVE e \in errors
    BY <1>6, <1>9, <2>5
  <2> QED BY <2>1, <2>2, <2>3, <2>4, <2>5 DEF Guarded
<1>10. Guarded(r)'
  <2>1. GuardsRan(r) => GuardsRan(r)'
    BY <1>8
  <2>2. /\ (\E o \in trace[r] : o.at = "call") => GuardsRan(r)
        /\ (\E e \in errors : e.request = r /\ e.at = "call") => GuardsRan(r)
    BY DEF GuardInv, Guarded
  <2>3. at'[r] \in {"skip", "before"} => GuardsAwait(r)'
    <3> SUFFICES ASSUME p \in {"skip", "before"}, NEW h \in GuardsOf(r)
                 PROVE  \/ HookName(h) \in RanBefore(r)'
                        \/ \E j \in DOMAIN hs : hs[j] = h
      BY <1>2, <1>4 DEF GuardsAwait
    <3>1. \/ HookName(h) \in RanBefore(r)
          \/ \E o \in s : o.at = "before" /\ o.what = HookName(h)
          \/ \E j \in DOMAIN hs : hs[j] = h
      BY DEF Fits
    <3> QED BY <1>4, <3>1 DEF RanBefore
  <2>4. at'[r] \in {"fetch", "call", "endpoint"} => GuardsRan(r)'
    BY <1>4, <2>1 DEF Fits
  <2>5. (\E o \in trace'[r] : o.at = "call") => GuardsRan(r)'
    BY <1>4, <2>1, <2>2 DEF Fits
  <2>6. (\E e \in errors' : e.request = r /\ e.at = "call") => GuardsRan(r)'
    BY <2>1, <2>2 DEF Fits
  <2> QED BY <2>3, <2>4, <2>5, <2>6 DEF Guarded
<1>11. 1..Len(asked) \subseteq Requests
  BY RequestsAssumption DEF GuardInv, TaskTypes, Requests
<1>12. \A x \in 1..Len(asked) : Guarded(x)'
  BY <1>9, <1>10, <1>11
<1>13. \A x \in 1..Len(asked') : Guarded(x)'
  BY <1>1, <1>12
<1> QED BY <1>7, <1>13 DEF GuardInv

(* Nothing has been asked. *)
LEMMA GuardInit == Init => GuardInv
<1> SUFFICES ASSUME Init PROVE GuardInv
  OBVIOUS
<1>1. /\ Len(asked) = 0 /\ errors = {}
      /\ at = [r \in Requests |-> "none"]
      /\ todo = [r \in Requests |-> <<>>]
      /\ trace = [r \in Requests |-> {}]
  BY DEF Init
<1>2. "none" \in Places /\ 0 \in 0..MaxRequests
  BY RequestsAssumption DEF Places
<1>3. <<>> \in Seq(HooksGiven)
  OBVIOUS
<1>4. TaskTypes
  BY <1>1, <1>2, <1>3 DEF TaskTypes
<1> QED BY <1>1, <1>4 DEF GuardInv

(* Before the server starts nothing has been asked either. *)
LEMMA GuardRegister ==
    ASSUME CacheInv, GuardInv, Register
    PROVE  GuardInv'
<1>1. /\ ~serving
      /\ UNCHANGED <<setup, asked, at, todo, errors, trace>>
  BY DEF Register, RegisterRoute, RegisterHook, RegisterHandler,
         NestBlueprint, AddBlueprint, Initialize, Made, Calls, task
<1>2. Len(asked) = 0
  BY <1>1 DEF CacheInv
<1>3. HooksGiven' = HooksGiven
  BY <1>1 DEF HooksGiven, CallsFor
<1>4. (todo \in [Requests -> Seq(HooksGiven)])'
  BY <1>1, <1>3 DEF GuardInv, TaskTypes
<1> QED BY <1>1, <1>2, <1>4 DEF GuardInv, TaskTypes

(* The tasks stay as they are when nothing of theirs changes. *)
LEMMA GuardStays ==
    ASSUME GuardInv, UNCHANGED <<application, asked, at, todo, trace>>,
           errors' \subseteq errors
    PROVE  GuardInv'
<1>1. /\ UNCHANGED <<setup, late, bps, asked, at, todo, trace>>
      /\ HooksGiven' = HooksGiven
      /\ \A x : Guards(x)' = Guards(x)
  BY DEF application, Guards, Direct, HooksGiven, CallsFor
<1>2. \A x : /\ GuardsRan(x)' <=> GuardsRan(x)
             /\ GuardsAwait(x)' <=> GuardsAwait(x)
  BY <1>1 DEF GuardsRan, GuardsAwait, GuardsOf, RanBefore
<1>3. (todo \in [Requests -> Seq(HooksGiven)])'
  BY <1>1 DEF GuardInv, TaskTypes
<1>4. TaskTypes'
  BY <1>1, <1>3 DEF GuardInv, TaskTypes
<1>5. \A r \in 1..Len(asked) : Guarded(r) => Guarded(r)'
  BY <1>1, <1>2 DEF Guarded
<1> QED BY <1>1, <1>4, <1>5 DEF GuardInv

AskedAreRooted ==
    \A r \in 1..Len(asked) : asked[r].route \in RouteType(Rooted)

(* Every request was routed to a blueprint under the application. *)
LEMMA AskedTypes == TablesInv /\ CacheInv => AskedAreRooted
BY AskedType DEF AskedAreRooted

(* A new request begins with all its guards to call. *)
LEMMA GuardArrival ==
    ASSUME TreeInv, TablesInv, HooksPlaced, CacheInv, GuardInv, CacheInv',
           TablesInv', NEW q \in setup.queries, OnHeadersComplete(q)
    PROVE  GuardInv'
<1>1. PICK r, route : r = Len(asked) + 1
                      /\ route = GetRoute(tables, cache, q).route
  OBVIOUS
<1>2. /\ UNCHANGED <<application, errors, trace>>
      /\ serving /\ Len(asked) < setup.requests
      /\ asked' = Append(asked, [query |-> q, route |-> route])
  BY <1>1 DEF OnHeadersComplete, ClientMayAsk
<1>3. /\ UNCHANGED <<setup, late, bps, calls>> /\ calls = {}
      /\ HooksGiven' = HooksGiven
      /\ \A x : Guards(x)' = Guards(x)
  BY <1>2 DEF application, Guards, Direct, HooksGiven, CallsFor, TreeInv
<1>4. /\ Len(asked) \in Nat /\ r \in Requests /\ r \in 0..MaxRequests
      /\ r \in Nat /\ r >= 1
  <2>1. setup.requests \in 0..MaxRequests /\ MaxRequests \in Nat
    BY RequestsAssumption DEF TreeInv
  <2>2. Len(asked) \in Nat
    BY DEF CacheInv
  <2> QED BY <1>1, <1>2, <2>1, <2>2 DEF Requests
<1>5. /\ Len(asked') = r /\ asked'[r].route = route
      /\ \A x \in 1..Len(asked) : asked'[x] = asked[x]
  <2>1. PICK s, item : s = asked /\ item = [query |-> q, route |-> route]
    OBVIOUS
  <2>2. PICK S : s \in Seq(S)
    BY <2>1 DEF CacheInv
  <2>3. /\ Len(Append(s, item)) = Len(s) + 1
        /\ Append(s, item)[Len(s) + 1] = item
        /\ \A x \in 1..Len(s) : Append(s, item)[x] = s[x]
    BY <2>2
  <2> QED BY <1>1, <1>2, <2>1, <2>3
<1>6. route.parent \in Blueprints
  <2>1. r \in 1..Len(asked')
    BY <1>4, <1>5
  <2>2. \A x \in 1..Len(asked') : asked'[x].route \in RouteType(Rooted')
    <3>1. AskedAreRooted'
      BY AskedTypes, PTL
    <3> QED BY <3>1 DEF AskedAreRooted, RouteType
  <2>3. route \in RouteType(Rooted')
    BY <1>5, <2>1, <2>2
  <2>4. Rooted' \subseteq Blueprints
    BY DEF Rooted
  <2> QED BY <2>3, <2>4 DEF RouteType
<1>7. PICK hooks : hooks = Todo("before", route)
  OBVIOUS
<1>8. hooks \in Seq(HooksGiven)
  BY <1>6, <1>7, TodoType
<1>9. PICK p, hs :
          /\ at' = [at EXCEPT ![r] = p] /\ todo' = [todo EXCEPT ![r] = hs]
          /\ p \in {"lost", "done", "call", "skip", "before"}
          /\ hs \in Seq(HooksGiven)
          /\ p \in {"skip", "before"} => hs = hooks
          /\ p = "call" => ~AnyHooks
  <2>1. todo \in [Requests -> Seq(HooksGiven)]
    BY DEF GuardInv, TaskTypes
  <2>2. todo = [todo EXCEPT ![r] = todo[r]] /\ todo[r] \in Seq(HooksGiven)
    BY <1>4, <2>1
  <2>3. CASE /\ \/ at' = [at EXCEPT ![r] = "lost"]
                \/ at' = [at EXCEPT ![r] = "done"]
             /\ UNCHANGED todo
    BY <2>2, <2>3
  <2>4. CASE /\ at' = [at EXCEPT ![r] = FirstStep(route)]
             /\ todo' = [todo EXCEPT ![r] = Todo("before", route)]
    <3>1. /\ FirstStep(route) \in {"call", "skip", "before"}
          /\ FirstStep(route) = "call" => ~AnyHooks
      BY DEF FirstStep
    <3> QED BY <1>7, <1>8, <2>4, <3>1
  <2> QED BY <1>1, <2>3, <2>4 DEF OnHeadersComplete
<1>10. /\ at \in [Requests -> Places] /\ DOMAIN trace = Requests
       /\ todo \in [Requests -> Seq(HooksGiven)]
       /\ at' \in [Requests -> Places] /\ trace' = trace
       /\ todo' \in [Requests -> Seq(HooksGiven)]
       /\ at'[r] = p /\ todo'[r] = hs /\ trace[r] = {}
       /\ \A x \in Requests : x # r => at'[x] = at[x] /\ todo'[x] = todo[x]
  <2>1. {"lost", "done", "call", "skip", "before"} \subseteq Places
    BY DEF Places
  <2>2. trace[r] = {}
    BY <1>1, <1>4 DEF GuardInv, TaskTypes
  <2>3. /\ at \in [Requests -> Places] /\ DOMAIN trace = Requests
        /\ todo \in [Requests -> Seq(HooksGiven)]
    BY DEF GuardInv, TaskTypes
  <2> QED BY <1>2, <1>4, <1>9, <2>1, <2>2, <2>3
<1>11. 1..Len(asked) \subseteq Requests /\ 1..Len(asked') \subseteq Requests
       /\ 1..Len(asked') = 1..Len(asked) \cup {r}
  <2>1. /\ MaxRequests \in Nat /\ r \in 0..MaxRequests /\ Len(asked') = r
        /\ Len(asked) + 1 = r /\ Len(asked) \in Nat
    BY <1>1, <1>4, <1>5, RequestsAssumption
  <2> QED BY <2>1 DEF Requests
<1>12. TaskTypes'
  <2>1. (todo \in [Requests -> Seq(HooksGiven)])'
    BY <1>3, <1>10
  <2>2. Len(asked') \in 0..MaxRequests
    BY <1>4, <1>5
  <2>3. ASSUME NEW x \in Requests, x \notin 1..Len(asked')
        PROVE  at'[x] = "none" /\ trace'[x] = {}
    <3>1. x \notin 1..Len(asked) /\ x # r
      BY <1>11, <2>3
    <3> QED BY <1>10, <3>1 DEF GuardInv, TaskTypes
  <2>4. \A e \in errors' : e.request \in 1..Len(asked')
    BY <1>2, <1>11 DEF GuardInv, TaskTypes
  <2> QED BY <1>2, <1>10, <2>1, <2>2, <2>3, <2>4 DEF TaskTypes
<1>13. ASSUME NEW x \in 1..Len(asked) PROVE Guarded(x)'
  <2>1. x \in Requests /\ x # r
    BY <1>1, <1>4, <1>11
  <2>2. at'[x] = at[x] /\ todo'[x] = todo[x] /\ trace'[x] = trace[x]
    BY <1>10, <2>1
  <2>3. GuardsOf(x)' = GuardsOf(x)
    BY <1>3, <1>5 DEF GuardsOf
  <2>4. Guarded(x) /\ errors' = errors
    BY <1>2 DEF GuardInv
  <2>5. /\ GuardsRan(x)' <=> GuardsRan(x)
        /\ GuardsAwait(x)' <=> GuardsAwait(x)
    BY <2>2, <2>3 DEF GuardsRan, GuardsAwait, RanBefore
  <2> QED BY <2>2, <2>4, <2>5 DEF Guarded
<1>14. Guarded(r)'
  <2>1. GuardsOf(r)' = Guards(route.parent)
    BY <1>3, <1>5 DEF GuardsOf
  <2>2. ASSUME NEW h \in Guards(route.parent)
        PROVE  /\ ExistsHook(bps, "before")
               /\ \E j \in DOMAIN hooks : hooks[j] = h
    <3>1. PICK b \in Blueprints : b = route.parent
      BY <1>6
    <3>2. /\ ExistsHook(bps, "before")
          /\ \E j \in DOMAIN Listeners(bps, b, "before") :
                 Listeners(bps, b, "before")[j] = h
      BY <1>3, <2>2, <3>1, GuardsListen
    <3> QED BY <1>7, <3>1, <3>2 DEF Todo
  <2>3. p \in {"skip", "before"} => GuardsAwait(r)'
    BY <1>9, <1>10, <2>1, <2>2 DEF GuardsAwait
  <2>4. p = "call" => GuardsRan(r)'
    BY <1>9, <2>1, <2>2 DEF GuardsRan, AnyHooks
  <2>5. trace'[r] = {} /\ at'[r] = p
    BY <1>10
  <2>6. ~\E e \in errors' : e.request = r
    <3>1. r \notin 1..Len(asked)
      BY <1>1, <1>4
    <3> QED BY <1>2, <3>1 DEF GuardInv, TaskTypes
  <2> QED BY <1>9, <2>3, <2>4, <2>5, <2>6 DEF Guarded
<1> QED BY <1>11, <1>12, <1>13, <1>14 DEF GuardInv

(* The hook at the head is not awaited any more once it has run. *)
LEMMA HeadOrTail ==
    ASSUME NEW H, NEW hs \in Seq(H), hs # <<>>
    PROVE  /\ Tail(hs) \in Seq(H)
           /\ \A j \in DOMAIN hs : hs[j] = Head(hs)
                  \/ \E k \in DOMAIN Tail(hs) : Tail(hs)[k] = hs[j]
<1>1. Tail(hs) \in Seq(H) /\ DOMAIN Tail(hs) = 1..Len(hs) - 1
      /\ \A k \in 1..Len(hs) - 1 : Tail(hs)[k] = hs[k + 1]
  OBVIOUS
<1>2. \A j \in DOMAIN hs : j = 1 \/ (j - 1 \in 1..Len(hs) - 1)
  OBVIOUS
<1> QED BY <1>1, <1>2

(* What the steps of handle_request() add to the trace. *)
LEMMA NoteAdds ==
    ASSUME DOMAIN trace = Requests, NEW r \in Requests
    PROVE  /\ UNCHANGED trace => Adds(r, {})
           /\ \A o : trace' = [trace EXCEPT ![r] = @ \cup {o}] => Adds(r, {o})
           /\ \A what, wants : Note(r, what, wants) =>
                  Adds(r, {[at |-> at[r], what |-> what, saw |-> Got(wants)]})
BY DEF Adds, Note

(* A hook is noted with the event it is called for. *)
LEMMA NoteIs ==
    ASSUME DOMAIN trace = Requests, NEW r \in Requests, NEW what, NEW wants,
           Note(r, what, wants)
    PROVE  \E s : Adds(r, s) /\ \A o \in s : o.at = at[r]
<1>1. PICK o : o = [at |-> at[r], what |-> what, saw |-> Got(wants)]
  OBVIOUS
<1>2. Adds(r, {o}) /\ \A n \in {o} : n.at = at[r]
  BY <1>1, NoteAdds
<1> QED BY <1>2

(* The steps of the tasks keep the endpoints guarded. *)
LEMMA GuardTask ==
    ASSUME TreeInv, TablesInv, CacheInv, GuardInv,
           NEW r \in Requests, HandleRequest(r)
    PROVE  GuardInv'
<1>1. /\ at \in [Requests -> Places] /\ DOMAIN trace = Requests
      /\ todo \in [Requests -> Seq(HooksGiven)]
      /\ \A x \in Requests :
            x \notin 1..Len(asked) => at[x] = "none" /\ trace[x] = {}
  BY DEF GuardInv, TaskTypes
<1>2. at[r] # "none"
  BY DEF HandleRequest, HookFails, HookPasses, HookReturns,
         AskEngineFirst, BeforeDone, AskEngine, CallHandler, EndpointReturns,
         EndpointRaises, Respond, HandleRequestEnds, Calling, At
<1>3. r \in 1..Len(asked)
  BY <1>1, <1>2
<1>4. Guarded(r)
  BY <1>3 DEF GuardInv
<1>5. asked[r].route.parent \in Blueprints
  <2>1. asked[r].route \in RouteType(Rooted)
    BY <1>3, AskedType
  <2> QED BY <2>1 DEF RouteType, Rooted
<1>6. \A event : Todo(event, asked[r].route) \in Seq(HooksGiven)
  BY <1>5, TodoType
<1>7. todo[r] \in Seq(HooksGiven) /\ <<>> \in Seq(HooksGiven)
  BY <1>1
<1>8. /\ at = [at EXCEPT ![r] = at[r]]
      /\ todo = [todo EXCEPT ![r] = todo[r]]
      /\ UNCHANGED trace => Adds(r, {})
  BY <1>1, NoteAdds
<1>9. "done" \in Places /\ "after" \in Places /\ "sent" \in Places
      /\ "before" \in Places /\ "endpoint" \in Places
      /\ "fetch" \in Places /\ "call" \in Places /\ at[r] \in Places
  BY <1>1 DEF Places
<1>10. CASE HookFails(r)
  <2>1. at[r] \in {"before", "after", "sent"}
        /\ UNCHANGED <<application, asked>>
    BY <1>10 DEF HookFails, Calling, At
  <2>2. \E class : Raise(r, class)
    BY <1>10 DEF HookFails
  <2>4. PICK s : Adds(r, s) /\ \A o \in s : o.at = at[r]
    <3>1. CASE UNCHANGED trace
      BY <1>8, <3>1
    <3>2. CASE Note(r, HookName(Head(todo[r])), Head(todo[r]).wants)
      BY <1>1, <3>2, NoteIs
    <3> QED BY <1>10, <3>1, <3>2 DEF HookFails
  <2>5. Fits(r, "done", <<>>, s)
    BY <1>7, <1>9, <2>1, <2>2, <2>4 DEF Fits, Raise, Goto, SetTodo
  <2> QED BY <1>3, <2>5, FitsKeeps
<1>11. CASE HookPasses(r)
  <2>1. /\ at[r] \in {"before", "after", "sent"} /\ todo[r] # <<>>
        /\ UNCHANGED <<application, asked, at, errors>>
        /\ todo' = [todo EXCEPT ![r] = Tail(todo[r])]
    BY <1>11 DEF HookPasses, Calling, At, SetTodo
  <2>2. PICK h, hs, o :
            /\ h = Head(todo[r]) /\ hs = Tail(todo[r])
            /\ o = [at |-> at[r], what |-> HookName(h), saw |-> Got(h.wants)]
    OBVIOUS
  <2>3. Adds(r, {o})
    BY <1>1, <1>11, <2>2, NoteAdds DEF HookPasses
  <2>4. /\ hs \in Seq(HooksGiven)
        /\ \A j \in DOMAIN todo[r] : todo[r][j] = h
              \/ \E k \in DOMAIN hs : hs[k] = todo[r][j]
    BY <1>7, <2>1, <2>2, HeadOrTail
  <2>5. at[r] \in {"skip", "before"} =>
          \A g \in GuardsOf(r) :
              \/ HookName(g) \in RanBefore(r)
              \/ \E n \in {o} : n.at = "before" /\ n.what = HookName(g)
              \/ \E j \in DOMAIN hs : hs[j] = g
    <3> SUFFICES ASSUME at[r] = "before", NEW g \in GuardsOf(r),
                        HookName(g) \notin RanBefore(r)
                 PROVE  \/ \E n \in {o} : /\ n.at = "before"
                                           /\ n.what = HookName(g)
                        \/ \E j \in DOMAIN hs : hs[j] = g
      BY <2>1
    <3>1. \E j \in DOMAIN todo[r] : todo[r][j] = g
      BY <1>4 DEF Guarded, GuardsAwait
    <3> QED BY <2>2, <2>4, <3>1
  <2>6. Fits(r, at[r], hs, {o})
    BY <1>8, <1>9, <2>1, <2>2, <2>3, <2>4, <2>5 DEF Fits
  <2> QED BY <1>3, <2>6, FitsKeeps
<1>12. CASE HookReturns(r)
  <2>1. /\ at[r] \in {"before", "after", "sent"}
        /\ UNCHANGED <<application, asked, errors>>
        /\ todo' = [todo EXCEPT ![r] = <<>>]
    BY <1>12 DEF HookReturns, Calling, At, SetTodo
  <2>2. PICK s : Adds(r, s) /\ \A o \in s : o.at = at[r]
    <3>1. Note(r, HookName(Head(todo[r])), Head(todo[r]).wants)
      BY <1>12 DEF HookReturns
    <3> QED BY <1>1, <3>1, NoteIs
  <2>3. \/ at' = [at EXCEPT ![r] = "done"]
        \/ at' = at /\ at[r] # "before"
    BY <1>12 DEF HookReturns, Goto
  <2>4. CASE at' = [at EXCEPT ![r] = "done"]
    <3>1. Fits(r, "done", <<>>, s)
      BY <1>7, <1>9, <2>1, <2>2, <2>4 DEF Fits
    <3> QED BY <1>3, <3>1, FitsKeeps
  <2>5. CASE at' = at /\ at[r] # "before"
    <3>1. Fits(r, at[r], <<>>, s)
      BY <1>7, <1>8, <1>9, <2>1, <2>2, <2>5 DEF Fits
    <3> QED BY <1>3, <3>1, FitsKeeps
  <2> QED BY <2>3, <2>4, <2>5
<1>13. CASE AskEngineFirst(r)
  <2>1. /\ at[r] = "skip"
        /\ UNCHANGED <<application, asked, errors, todo, trace>>
        /\ \/ at' = [at EXCEPT ![r] = "done"]
           \/ at' = [at EXCEPT ![r] = "before"]
    BY <1>13 DEF AskEngineFirst, At, Goto
  <2>2. GuardsAwait(r)
    BY <1>4, <2>1 DEF Guarded
  <2>3. ASSUME NEW p \in {"done", "before"}, at' = [at EXCEPT ![r] = p]
        PROVE  Fits(r, p, todo[r], {})
    BY <1>7, <1>8, <1>9, <2>1, <2>2, <2>3 DEF Fits, GuardsAwait
  <2> QED BY <1>3, <2>1, <2>3, FitsKeeps
<1>14. CASE BeforeDone(r)
  <2>1. /\ at[r] = "before" /\ todo[r] = <<>>
        /\ UNCHANGED <<application, asked, errors, todo, trace>>
        /\ \/ at' = [at EXCEPT ![r] = "fetch"]
           \/ at' = [at EXCEPT ![r] = "call"]
    BY <1>14 DEF BeforeDone, At, Goto
  <2>2. GuardsRan(r)
    BY <1>4, <2>1 DEF Guarded, GuardsAwait, GuardsRan
  <2>3. ASSUME NEW p \in {"fetch", "call"}, at' = [at EXCEPT ![r] = p]
        PROVE  Fits(r, p, todo[r], {})
    BY <1>7, <1>8, <1>9, <2>1, <2>2, <2>3 DEF Fits
  <2> QED BY <1>3, <2>1, <2>3, FitsKeeps
<1>15. CASE AskEngine(r)
  <2>1. /\ at[r] = "fetch"
        /\ UNCHANGED <<application, asked, errors, trace>>
        /\ \/ /\ at' = [at EXCEPT ![r] = "after"]
              /\ todo' = [todo EXCEPT ![r] = Todo("after", asked[r].route)]
           \/ at' = [at EXCEPT ![r] = "call"] /\ UNCHANGED todo
    BY <1>15 DEF AskEngine, At, Goto, Responded, SetTodo
  <2>2. GuardsRan(r)
    BY <1>4, <2>1 DEF Guarded
  <2>3. \/ Fits(r, "after", Todo("after", asked[r].route), {})
        \/ Fits(r, "call", todo[r], {})
    BY <1>6, <1>7, <1>8, <1>9, <2>1, <2>2 DEF Fits
  <2> QED BY <1>3, <2>3, FitsKeeps
<1>16. CASE CallHandler(r)
  <2>1. at[r] = "call" /\ UNCHANGED <<application, asked>>
    BY <1>16 DEF CallHandler, At
  <2>2. GuardsRan(r)
    BY <1>4, <2>1 DEF Guarded
  <2>3. \/ /\ \E s : Adds(r, s)
           /\ at' = [at EXCEPT ![r] = "endpoint"]
           /\ UNCHANGED <<todo, errors>>
        \/ \E class : Raise(r, class) /\ UNCHANGED trace
    BY <1>1, <1>16, NoteAdds DEF CallHandler, Goto
  <2>4. CASE /\ \E s : Adds(r, s)
             /\ at' = [at EXCEPT ![r] = "endpoint"]
             /\ UNCHANGED <<todo, errors>>
    <3>1. PICK s : Adds(r, s)
      BY <2>4
    <3>2. Fits(r, "endpoint", todo[r], s)
      BY <1>7, <1>8, <1>9, <2>1, <2>2, <2>4, <3>1 DEF Fits
    <3> QED BY <1>3, <3>2, FitsKeeps
  <2>5. CASE \E class : Raise(r, class) /\ UNCHANGED trace
    <3>1. Fits(r, "done", <<>>, {})
      BY <1>7, <1>8, <1>9, <2>1, <2>2, <2>5 DEF Fits, Raise, Goto, SetTodo
    <3> QED BY <1>3, <3>1, FitsKeeps
  <2> QED BY <2>3, <2>4, <2>5
<1>17. CASE EndpointReturns(r)
  <2>1. /\ UNCHANGED <<application, asked, errors, trace>>
        /\ at' = [at EXCEPT ![r] = "after"]
        /\ todo' = [todo EXCEPT ![r] = Todo("after", asked[r].route)]
    BY <1>17 DEF EndpointReturns, Goto, Responded, SetTodo
  <2>2. Fits(r, "after", Todo("after", asked[r].route), {})
    BY <1>6, <1>8, <1>9, <2>1 DEF Fits
  <2> QED BY <1>3, <2>2, FitsKeeps
<1>18. CASE EndpointRaises(r)
  <2>1. /\ at[r] = "endpoint" /\ UNCHANGED <<application, asked, trace>>
        /\ \E class : Raise(r, class)
    BY <1>18 DEF EndpointRaises, At
  <2>2. Fits(r, "done", <<>>, {})
    BY <1>7, <1>8, <1>9, <2>1 DEF Fits, Raise, Goto, SetTodo
  <2> QED BY <1>3, <2>2, FitsKeeps
<1>19. CASE Respond(r)
  <2>1. /\ UNCHANGED <<application, asked, errors, trace>>
        /\ at' = [at EXCEPT ![r] = "sent"]
        /\ todo' = [todo EXCEPT ![r] = Todo("sent", asked[r].route)]
    BY <1>19 DEF Respond, Goto, SetTodo
  <2>2. Fits(r, "sent", Todo("sent", asked[r].route), {})
    BY <1>6, <1>8, <1>9, <2>1 DEF Fits
  <2> QED BY <1>3, <2>2, FitsKeeps
<1>20. CASE HandleRequestEnds(r)
  <2>1. /\ UNCHANGED <<application, asked, errors, trace, todo>>
        /\ at' = [at EXCEPT ![r] = "done"]
    BY <1>20 DEF HandleRequestEnds, Goto
  <2>2. Fits(r, "done", todo[r], {})
    BY <1>7, <1>8, <1>9, <2>1 DEF Fits
  <2> QED BY <1>3, <2>2, FitsKeeps
<1> QED BY <1>10, <1>11, <1>12, <1>13, <1>14, <1>15, <1>16, <1>17, <1>18,
           <1>19, <1>20 DEF HandleRequest

(* So do those of exceptions: an endpoint that could not be called counts. *)
LEMMA GuardException ==
    ASSUME GuardInv, NEW e \in errors,
           HandleException(e) \/ HandleExceptionFails(e)
    PROVE  GuardInv'
<1>1. CASE HandleExceptionFails(e)
  <2>1. /\ UNCHANGED <<application, asked, at, todo, trace>>
        /\ errors' \subseteq errors
    BY <1>1 DEF HandleExceptionFails, task
  <2> QED BY <2>1, GuardStays
<1>2. CASE HandleException(e)
  <2>1. /\ UNCHANGED <<application, asked, at, todo>>
        /\ errors' \subseteq errors
    BY <1>2 DEF HandleException, task
  <2>2. PICK r, o :
            /\ r = e.request
            /\ o = [at |-> e.at,
                    what |-> HandlerName(Tries(e)[Decides(e)]),
                    saw |-> Got(Tries(e)[Decides(e)].wants)]
    OBVIOUS
  <2>4. r \in 1..Len(asked) /\ r \in Requests
    <3>1. Len(asked) \in 0..MaxRequests /\ MaxRequests \in Nat
      BY RequestsAssumption DEF GuardInv, TaskTypes
    <3> QED BY <2>2, <3>1 DEF GuardInv, TaskTypes, Requests
  <2>3. Adds(r, {o})
    <3>1. trace' = [trace EXCEPT ![r] = @ \cup {o}]
      BY <1>2, <2>2 DEF HandleException
    <3> QED BY <2>4, <3>1, NoteAdds DEF GuardInv, TaskTypes
  <2>5. /\ at[r] \in Places /\ todo[r] \in Seq(HooksGiven)
        /\ at' = [at EXCEPT ![r] = at[r]]
        /\ todo' = [todo EXCEPT ![r] = todo[r]]
    BY <2>1, <2>4 DEF GuardInv, TaskTypes
  <2>6. Guarded(r) /\ (o.at = "call" => GuardsRan(r))
    BY <2>2, <2>4 DEF GuardInv, Guarded
  <2>7. Fits(r, at[r], todo[r], {o})
    BY <2>1, <2>3, <2>5, <2>6 DEF Fits, Guarded, GuardsAwait
  <2> QED BY <2>4, <2>7, FitsKeeps
<1> QED BY <1>1, <1>2

(* Every step keeps the guards of every request. *)
LEMMA GuardNext ==
    ASSUME TreeInv, TablesInv, HooksPlaced, CacheInv, GuardInv, CacheInv',
           TablesInv', [Next]_vars
    PROVE  GuardInv'
<1>1. CASE UNCHANGED vars
  BY <1>1, GuardStays DEF vars, task
<1> QED BY <1>1, GuardRegister, GuardArrival, GuardTask, GuardException
        DEF Next

-----------------------------------------------------------------------------
(* What comes before what in a sequence. *)

(* Before every y of a sequence there is an x. *)
IsIn(x, s) == \E j \in DOMAIN s : s[j] = x
Leads(s, x, y) ==
    /\ IsIn(x, s)
    /\ \A i \in DOMAIN s :
          s[i] = y => \E j \in DOMAIN s : j < i /\ s[j] = x

(* It stays so when something is appended. *)
LEMMA LeadsOn ==
    ASSUME NEW S, NEW s \in Seq(S), NEW t \in Seq(S), NEW x, NEW y,
           Leads(s, x, y)
    PROVE  Leads(s \o t, x, y)
<1>1. PICK u, n, m : u = s \o t /\ n = Len(s) /\ m = Len(t)
  OBVIOUS
<1>2. /\ n \in Nat /\ m \in Nat /\ DOMAIN s = 1..n /\ DOMAIN t = 1..m
      /\ DOMAIN u = 1..n + m
      /\ \A i \in 1..n : u[i] = s[i]
  BY <1>1
<1>3. PICK k \in 1..n : s[k] = x
  BY <1>2 DEF Leads, IsIn
<1>4. k \in DOMAIN u /\ u[k] = x
  BY <1>2, <1>3
<1>5. ASSUME NEW i \in DOMAIN u, u[i] = y
      PROVE  \E j \in DOMAIN u : j < i /\ u[j] = x
  <2>1. CASE i \in 1..n
    <3>1. s[i] = y
      BY <1>2, <1>5, <2>1
    <3>2. PICK j \in 1..n : j < i /\ s[j] = x
      BY <1>2, <2>1, <3>1 DEF Leads
    <3>3. j \in DOMAIN u /\ u[j] = x
      BY <1>2, <3>2
    <3> QED BY <3>2, <3>3
  <2>2. CASE i \notin 1..n
    <3>1. k < i
      BY <1>2, <2>2
    <3> QED BY <1>4, <3>1
  <2> QED BY <2>1, <2>2
<1> QED BY <1>1, <1>4, <1>5 DEF Leads, IsIn

(* Or when something without y is put before. *)
LEMMA LeadsAfter ==
    ASSUME NEW S, NEW s \in Seq(S), NEW t \in Seq(S), NEW x, NEW y,
           Leads(t, x, y), ~IsIn(y, s)
    PROVE  Leads(s \o t, x, y)
<1>1. PICK u, n, m : u = s \o t /\ n = Len(s) /\ m = Len(t)
  OBVIOUS
<1>2. /\ n \in Nat /\ m \in Nat /\ DOMAIN s = 1..n /\ DOMAIN t = 1..m
      /\ DOMAIN u = 1..n + m
      /\ \A i \in 1..n : u[i] = s[i]
      /\ \A i \in 1..m : n + i \in DOMAIN u /\ u[n + i] = t[i]
  BY <1>1
<1>3. IsIn(x, u)
  BY <1>2 DEF Leads, IsIn
<1>4. ASSUME NEW i \in DOMAIN u, u[i] = y
      PROVE  \E j \in DOMAIN u : j < i /\ u[j] = x
  <2>1. i \notin 1..n
    BY <1>2, <1>4 DEF IsIn
  <2>2. i - n \in 1..m /\ n + (i - n) = i
    BY <1>2, <2>1
  <2>3. t[i - n] = y
    BY <1>2, <1>4, <2>2
  <2>4. PICK j \in 1..m : j < i - n /\ t[j] = x
    BY <1>2, <2>2, <2>3 DEF Leads
  <2>5. n + j \in DOMAIN u /\ u[n + j] = x /\ n + j < i
    BY <1>2, <2>2, <2>4
  <2> QED BY <2>5
<1> QED BY <1>1, <1>3, <1>4 DEF Leads

(* What is in one of two sequences is in their concatenation. *)
LEMMA InJoin ==
    ASSUME NEW S, NEW s \in Seq(S), NEW t \in Seq(S), NEW x
    PROVE  /\ s \o t \in Seq(S)
           /\ IsIn(x, s \o t) <=> IsIn(x, s) \/ IsIn(x, t)
<1>1. /\ s \o t \in Seq(S)
      /\ \A i \in DOMAIN s : i \in DOMAIN (s \o t) /\ (s \o t)[i] = s[i]
      /\ \A i \in DOMAIN t : Len(s) + i \in DOMAIN (s \o t)
                              /\ (s \o t)[Len(s) + i] = t[i]
  BY JoinHas
<1>2. IsIn(x, s) \/ IsIn(x, t) => IsIn(x, s \o t)
  BY <1>1 DEF IsIn
<1>3. ASSUME NEW i \in DOMAIN (s \o t), (s \o t)[i] = x
      PROVE  IsIn(x, s) \/ IsIn(x, t)
  <2>1. i \in 1..Len(s) + Len(t)
    OBVIOUS
  <2>2. CASE i \in 1..Len(s)
    BY <1>3, <2>2 DEF IsIn
  <2>3. CASE i \notin 1..Len(s)
    <3>1. i - Len(s) \in DOMAIN t /\ t[i - Len(s)] = x
      BY <1>3, <2>1, <2>3
    <3> QED BY <3>1 DEF IsIn
  <2> QED BY <2>2, <2>3
<1> QED BY <1>1, <1>2, <1>3 DEF IsIn

(* The first that passes a test: no other that passes it leads it. *)
LEMMA FirstLeads ==
    ASSUME NEW s, NEW tests \in SUBSET DOMAIN s, NEW S, s \in Seq(S),
           NEW i, i = (IF tests # {} THEN Min(tests) ELSE 0), i # 0,
           NEW x, Leads(s, x, s[i])
    PROVE  \E j \in DOMAIN s : s[j] = x /\ j \notin tests
<1>1. tests \subseteq Nat /\ tests # {}
  OBVIOUS
<1>2. i \in tests /\ \A j \in tests : i <= j
  BY <1>1, MinExists
<1>3. PICK j \in DOMAIN s : j < i /\ s[j] = x
  BY <1>2 DEF Leads
<1>4. j \notin tests
  BY <1>1, <1>2, <1>3
<1> QED BY <1>3, <1>4
-----------------------------------------------------------------------------
(* The order in which the handlers of a blueprint are tried. *)
LEMMA TriedIs ==
    ASSUME NEW S, NEW hs \in Seq(S), NEW class
    PROVE  /\ Tried(hs, class) \in Seq(S)
           /\ \A x : IsIn(x, Tried(hs, class)) => IsIn(x, hs)
           /\ \A x : IsIn(x, hs) /\ x.class \in Supers[class]
                        => IsIn(x, Tried(hs, class))
           /\ \A x, y : /\ IsIn(x, hs) /\ x.class = class
                        /\ y.class # class
                        => Leads(Tried(hs, class), x, y)
           /\ \A x, y : /\ Sorted(hs) /\ IsIn(x, hs)
                        /\ x.class \in Supers[class] /\ x.class # class
                        /\ y.class \in Supers[x.class]
                        /\ y.class # x.class /\ y.class # class
                        => Leads(Tried(hs, class), x, y)
<1> DEFINE I == {i \in DOMAIN hs : hs[i].class = class}
           J == {i \in DOMAIN hs : /\ hs[i].class # class
                                   /\ hs[i].class \in Supers[class]}
<1>1. PICK s, t : s = Chosen(hs, I) /\ t = Chosen(hs, J)
  OBVIOUS
<1>2. Tried(hs, class) = s \o t
  BY <1>1 DEF Tried, Only
<1>3. I \in SUBSET DOMAIN hs /\ J \in SUBSET DOMAIN hs
  OBVIOUS
<1>4. s \in Seq(S) /\ t \in Seq(S)
  <2> HIDE DEF I, J
  <2> QED BY <1>1, <1>3, ChosenElements
<1>5a. PICK m \in Nat : \E f : Picks(f, m, s, hs, I)
  <2> HIDE DEF I
  <2> QED BY <1>1, <1>3, ChosenIs DEF IsChosen
<1>5. PICK f : Picks(f, m, s, hs, I)
  BY <1>5a
<1>6a. PICK n \in Nat : \E g : Picks(g, n, t, hs, J)
  <2> HIDE DEF J
  <2> QED BY <1>1, <1>3, ChosenIs DEF IsChosen
<1>6. PICK g : Picks(g, n, t, hs, J)
  BY <1>6a
<1>7. /\ DOMAIN s = 1..m /\ DOMAIN t = 1..n
      /\ \A j \in 1..m : f[j] \in I /\ s[j] = hs[f[j]]
      /\ \A j \in 1..n : g[j] \in J /\ t[j] = hs[g[j]]
      /\ \A i \in I : \E j \in 1..m : f[j] = i
      /\ \A i \in J : \E j \in 1..n : g[j] = i
      /\ \A i, j \in 1..n : i < j => g[i] < g[j]
  BY <1>5, <1>6 DEF Picks
<1>8. \A x : IsIn(x, s) <=> IsIn(x, hs) /\ x.class = class
  <2>1. ASSUME NEW x, IsIn(x, s) PROVE IsIn(x, hs) /\ x.class = class
    BY <1>7, <2>1 DEF IsIn
  <2>2. ASSUME NEW x, IsIn(x, hs), x.class = class PROVE IsIn(x, s)
    <3>1. PICK i \in DOMAIN hs : hs[i] = x
      BY <2>2 DEF IsIn
    <3>2. i \in I
      BY <2>2, <3>1
    <3> HIDE DEF I
    <3>3. PICK j \in 1..m : f[j] = i
      BY <1>7, <3>2
    <3>4. j \in DOMAIN s /\ s[j] = x
      BY <1>7, <3>1, <3>3
    <3> QED BY <3>4 DEF IsIn
  <2> QED BY <2>1, <2>2
<1>9. \A x : IsIn(x, t) <=>
          IsIn(x, hs) /\ x.class # class /\ x.class \in Supers[class]
  <2>1. ASSUME NEW x, IsIn(x, t)
        PROVE  IsIn(x, hs) /\ x.class # class /\ x.class \in Supers[class]
    BY <1>7, <2>1 DEF IsIn
  <2>2. ASSUME NEW x, IsIn(x, hs), x.class # class, x.class \in Supers[class]
        PROVE  IsIn(x, t)
    <3>1. PICK i \in DOMAIN hs : hs[i] = x
      BY <2>2 DEF IsIn
    <3>2. i \in J
      BY <2>2, <3>1
    <3> HIDE DEF J
    <3>3. PICK j \in 1..n : g[j] = i
      BY <1>7, <3>2
    <3>4. j \in DOMAIN t /\ t[j] = x
      BY <1>7, <3>1, <3>3
    <3> QED BY <3>4 DEF IsIn
  <2> QED BY <2>1, <2>2
<1>10. /\ s \o t \in Seq(S)
       /\ \A x : IsIn(x, s \o t) <=> IsIn(x, s) \/ IsIn(x, t)
  <2> HIDE DEF I, J
  <2> QED BY <1>4, InJoin
<1>11. ASSUME NEW x, NEW y, IsIn(x, hs), x.class = class, y.class # class
       PROVE  Leads(s \o t, x, y)
  <2>1. IsIn(x, s) /\ ~IsIn(y, s)
    BY <1>8, <1>11
  <2>2. Leads(s, x, y)
    BY <2>1 DEF Leads, IsIn
  <2> HIDE DEF I, J
  <2> QED BY <1>4, <2>2, LeadsOn
<1>12. ASSUME NEW x, NEW y, Sorted(hs), IsIn(x, hs),
              x.class \in Supers[class], x.class # class,
              y.class \in Supers[x.class], y.class # x.class,
              y.class # class
       PROVE  Leads(s \o t, x, y)
  <2>1. IsIn(x, t) /\ ~IsIn(y, s)
    BY <1>8, <1>9, <1>12
  <2>2. ASSUME NEW i \in 1..n, t[i] = y
        PROVE  \E j \in 1..n : j < i /\ t[j] = x
    <3>1. PICK j \in 1..n : t[j] = x
      BY <1>7, <2>1 DEF IsIn
    <3>2. /\ g[i] \in DOMAIN hs /\ g[j] \in DOMAIN hs
          /\ hs[g[i]] = y /\ hs[g[j]] = x
      BY <1>7, <2>2, <3>1
    <3>3. ~(g[i] < g[j]) /\ i # j
      BY <1>12, <2>2, <3>1, <3>2 DEF Sorted
    <3>4. ~(i < j)
      BY <1>7, <3>3
    <3> QED BY <3>1, <3>3, <3>4
  <2>3. Leads(t, x, y)
    BY <1>7, <2>1, <2>2 DEF Leads
  <2> HIDE DEF I, J
  <2> QED BY <1>4, <2>1, <2>3, LeadsAfter
<1> HIDE DEF I, J
<1> QED BY <1>2, <1>8, <1>9, <1>10, <1>11, <1>12
-----------------------------------------------------------------------------
(* Up the blueprints of a chain, as far as n more. *)
Climbs(u, tree, class) ==
    /\ \A c \in Blueprints : u[0][c] = Tried(tree[c].handlers, class) \o <<>>
    /\ \A n \in 1..2, c \in Blueprints :
          u[n][c] = Tried(tree[c].handlers, class)
                      \o IF tree[c].parent = Nothing THEN <<>>
                         ELSE u[n - 1][tree[c].parent]

(* process_exception() climbs from the blueprint to the application. *)
LEMMA ProcessClimbs ==
    ASSUME NEW tree, NEW class, NEW b
    PROVE  \E u : /\ Climbs(u, tree, class)
                  /\ ProcessException(tree, b, class) = u[2][b]
<1> DEFINE Own(c) == Tried(tree[c].handlers, class)
           Good(u) == u = [n \in 0..Depth |-> [c \in Blueprints |->
               Own(c) \o IF n = 0 \/ tree[c].parent = Nothing THEN <<>>
                         ELSE u[n - 1][tree[c].parent]]]
           Up(v) == [c \in Blueprints |->
               Own(c) \o IF tree[c].parent = Nothing THEN <<>>
                         ELSE v[tree[c].parent]]
           v0 == [c \in Blueprints |-> Own(c) \o <<>>]
<1>1. Depth = 2 /\ 0..2 = {0, 1, 2} /\ 1 - 1 = 0 /\ 2 - 1 = 1
  BY DEF Depth
<1>2. \E f : Good(f)
  <2>1. PICK v1 : v1 = Up(v0)
    OBVIOUS
  <2>2. PICK v2 : v2 = Up(v1)
    OBVIOUS
  <2>3. PICK v : v = v0
    OBVIOUS
  <2>4. PICK f : f = [n \in 0..2 |-> IF n = 0 THEN v ELSE IF n = 1 THEN v1
                                     ELSE v2]
    OBVIOUS
  <2>5. f[0] = v /\ f[1] = v1 /\ f[2] = v2 /\ f = [n \in 0..2 |-> f[n]]
    BY <1>1, <2>4
  <2> HIDE DEF Own
  <2>6. f[0] = [c \in Blueprints |->
               Own(c) \o IF 0 = 0 \/ tree[c].parent = Nothing THEN <<>>
                         ELSE f[0 - 1][tree[c].parent]]
    BY <2>3, <2>5
  <2>7. f[1] = [c \in Blueprints |->
               Own(c) \o IF 1 = 0 \/ tree[c].parent = Nothing THEN <<>>
                         ELSE f[1 - 1][tree[c].parent]]
    <3>1. f[1] = [c \in Blueprints |->
               Own(c) \o IF tree[c].parent = Nothing THEN <<>>
                         ELSE f[0][tree[c].parent]]
      BY <2>1, <2>3, <2>5
    <3> QED BY <1>1, <3>1
  <2>8. f[2] = [c \in Blueprints |->
               Own(c) \o IF 2 = 0 \/ tree[c].parent = Nothing THEN <<>>
                         ELSE f[2 - 1][tree[c].parent]]
    <3>1. f[2] = [c \in Blueprints |->
               Own(c) \o IF tree[c].parent = Nothing THEN <<>>
                         ELSE f[1][tree[c].parent]]
      BY <2>2, <2>5
    <3> QED BY <1>1, <3>1
  <2> DEFINE Q(n) == [c \in Blueprints |->
               Own(c) \o IF n = 0 \/ tree[c].parent = Nothing THEN <<>>
                         ELSE f[n - 1][tree[c].parent]]
  <2>9. \A n \in 0..2 : f[n] = Q(n)
    <3>1. f[0] = Q(0) /\ f[1] = Q(1) /\ f[2] = Q(2)
      BY <2>6, <2>7, <2>8
    <3> HIDE DEF Q
    <3> QED BY <1>1, <3>1
  <2>10. f = [n \in 0..2 |-> Q(n)]
    <3> HIDE DEF Q
    <3> QED BY <2>5, <2>9
  <2>11. Good(f)
    BY <1>1, <2>10
  <2> HIDE DEF Good
  <2> QED BY <2>11
<1>3. Good(CHOOSE u : Good(u))
  <2> HIDE DEF Good
  <2> QED BY <1>2
<1>4. ProcessException(tree, b, class) = (CHOOSE u : Good(u))[Depth][b]
  BY DEF ProcessException
<1>5. PICK u : Good(u) /\ ProcessException(tree, b, class) = u[Depth][b]
  <2> HIDE DEF Good
  <2> QED BY <1>3, <1>4
<1>6. Climbs(u, tree, class)
  <2> HIDE DEF Own
  <2>1. \A n \in 0..2 : u[n] = [c \in Blueprints |->
               Own(c) \o IF n = 0 \/ tree[c].parent = Nothing THEN <<>>
                         ELSE u[n - 1][tree[c].parent]]
    BY <1>1, <1>5
  <2> HIDE DEF Good
  <2>2. \A c \in Blueprints : u[0][c] = Own(c) \o <<>>
    <3>1. u[0] = [c \in Blueprints |->
               Own(c) \o IF 0 = 0 \/ tree[c].parent = Nothing THEN <<>>
                         ELSE u[0 - 1][tree[c].parent]]
      BY <1>1, <2>1
    <3> QED BY <3>1
  <2>3. ASSUME NEW n \in 1..2, NEW c \in Blueprints
        PROVE  u[n][c] = Own(c) \o IF tree[c].parent = Nothing THEN <<>>
                                   ELSE u[n - 1][tree[c].parent]
    <3>1. n \in 0..2 /\ n # 0
      BY <2>3
    <3> QED BY <2>1, <3>1
  <2> QED BY <2>2, <2>3 DEF Climbs, Own
<1> QED BY <1>1, <1>5, <1>6

AnyHandlers == UNION {HandlersGiven(b) : b \in Blueprints}

(* Who should be asked before y, by the blueprint that y belongs to. *)
Better(x, y, class) ==
    /\ x \in Willing(y.in, class)
    /\ \/ x.class = class /\ y.class # class
       \/ y.in = App /\ y.class \in Supers[x.class] /\ y.class # x.class

(* And who by a blueprint that is nearer to p. *)
Nearer(x, y, class, p) == \E b \in Below(p, y.in) : x \in Willing(b, class)

(* The handlers of one blueprint. *)
LEMMA TriedOfOne ==
    ASSUME TreeInv, Sorted(bps[App].handlers), NEW c \in Blueprints,
           NEW class
    PROVE  /\ Tried(bps[c].handlers, class) \in Seq(AnyHandlers)
           /\ \A x : IsIn(x, Tried(bps[c].handlers, class)) => x.in = c
           /\ \A x \in Willing(c, class) :
                 IsIn(x, Tried(bps[c].handlers, class))
           /\ \A y \in AnyHandlers : \A x :
                 y.in = c /\ Better(x, y, class)
                     => Leads(Tried(bps[c].handlers, class), x, y)
<1>1. PICK hs, t, H : /\ hs = bps[c].handlers /\ t = Tried(hs, class)
                      /\ H = HandlersGiven(c)
  OBVIOUS
<1>2. hs \in Seq(H)
  BY <1>1 DEF TreeInv, TreeType, BlueprintType
<1>3. /\ H \subseteq AnyHandlers
      /\ \A h \in H : h.in = c
      /\ \A h \in AnyHandlers : h.class \in DOMAIN Supers
  BY <1>1 DEF AnyHandlers, HandlersGiven
<1>4. /\ t \in Seq(H) /\ \A x : IsIn(x, t) => IsIn(x, hs)
      /\ \A x : IsIn(x, hs) /\ x.class \in Supers[class] => IsIn(x, t)
      /\ \A x, y : IsIn(x, hs) /\ x.class = class /\ y.class # class
                      => Leads(t, x, y)
      /\ \A x, y : /\ Sorted(hs) /\ IsIn(x, hs)
                   /\ x.class \in Supers[class] /\ x.class # class
                   /\ y.class \in Supers[x.class]
                   /\ y.class # x.class /\ y.class # class
                   => Leads(t, x, y)
  BY <1>1, <1>2, TriedIs
<1>5. \A x : IsIn(x, hs) => x \in H
  BY <1>2 DEF IsIn
<1>6. t \in Seq(AnyHandlers)
  <2>1. PICK A : A = AnyHandlers
    OBVIOUS
  <2>2. H \subseteq A
    BY <1>3, <2>1
  <2>3. t \in Seq(A)
    BY <1>4, <2>2
  <2> QED BY <2>1, <2>3
<1>7. \A x \in Willing(c, class) : IsIn(x, hs) /\ x.class \in Supers[class]
  BY <1>1 DEF Willing, IsIn
<1>8. ASSUME NEW y \in AnyHandlers, NEW x, y.in = c, Better(x, y, class)
      PROVE  Leads(t, x, y)
  <2>1. /\ IsIn(x, hs) /\ x.class \in Supers[class]
        /\ x \in AnyHandlers
    BY <1>3, <1>5, <1>7, <1>8 DEF Better
  <2>2. CASE x.class = class /\ y.class # class
    BY <1>4, <2>1, <2>2
  <2>3. CASE /\ c = App /\ y.class \in Supers[x.class]
             /\ y.class # x.class /\ x.class # class
    <3>1. ASSUME y.class = class PROVE FALSE
      <4>1. y.class \in DOMAIN Supers /\ x.class \in DOMAIN Supers
        BY <1>3, <2>1
      <4>2. x.class \in Supers[y.class] /\ y.class \in Supers[x.class]
        BY <2>1, <2>3, <3>1
      <4> QED BY <2>3, <4>1, <4>2, SupersAssumption
    <3>2. Sorted(hs)
      BY <1>1, <2>3
    <3> QED BY <1>4, <2>1, <2>3, <3>1, <3>2
  <2>4. \/ x.class = class /\ y.class # class
        \/ /\ c = App /\ y.class \in Supers[x.class]
           /\ y.class # x.class
    BY <1>8 DEF Better
  <2>5. CASE x.class = class /\ y.class # x.class
    BY <2>2, <2>5
  <2> QED BY <2>2, <2>3, <2>4, <2>5
<1> QED BY <1>1, <1>3, <1>4, <1>5, <1>6, <1>7, <1>8

(* At the application nothing more is tried. *)
LEMMA ClimbsToApp ==
    ASSUME NEW u, NEW tree, NEW class, Climbs(u, tree, class),
           tree[App].parent = Nothing, NEW n \in 0..2
    PROVE  u[n][App] = Tried(tree[App].handlers, class) \o <<>>
<1>1. App \in Blueprints
  BY BlueprintsAssumption
<1>2. CASE n = 0
  BY <1>1, <1>2 DEF Climbs
<1>3. CASE n # 0
  <2>1. n \in 1..2
    BY <1>3
  <2>2. u[n][App] = Tried(tree[App].handlers, class)
                      \o IF tree[App].parent = Nothing THEN <<>>
                         ELSE u[n - 1][tree[App].parent]
    BY <1>1, <2>1 DEF Climbs
  <2> QED BY <2>2
<1> QED BY <1>2, <1>3

(* The blueprint, its parent, and the application once more. *)
IsChain(p, q, all, ta, tp, tq) ==
    \/ p = App /\ all = ta \o ta
    \/ p # App /\ q = App /\ all = (tp \o ta) \o ta
    \/ /\ p # App /\ q \in Blueprints \ {App} /\ bps[q].parent = App
       /\ all = (tp \o (tq \o ta)) \o ta

(* The handlers that are tried for a route of p. *)
LEMMA TriesAre ==
    ASSUME TreeInv, NEW p \in Rooted, NEW class, NEW q, q = bps[p].parent,
           NEW ta, ta = Tried(bps[App].handlers, class),
           NEW tp, tp = Tried(bps[p].handlers, class),
           NEW tq, tq = Tried(bps[q].handlers, class),
           NEW all, all = HandlersTried(bps, p, class)
    PROVE  IsChain(p, q, all, ta, tp, tq)
<1> DEFINE T(c) == Tried(bps[c].handlers, class)
<1>1. PICK u : /\ Climbs(u, bps, class)
               /\ ProcessException(bps, p, class) = u[2][p]
  BY ProcessClimbs
<1>2. PICK w : /\ Climbs(w, bps, class)
               /\ ProcessException(bps, App, class) = w[2][App]
  BY ProcessClimbs
<1>3. /\ App \in Blueprints /\ p \in Blueprints /\ bps[App].parent = Nothing
      /\ App # Nothing /\ p # Nothing /\ Nothing \notin Blueprints
  BY BlueprintsAssumption DEF Rooted, TreeInv, TreeLinks
<1>4. ta \o <<>> = ta
  <2>1. bps[App].handlers \in Seq(HandlersGiven(App))
    BY <1>3 DEF TreeInv, TreeType, BlueprintType
  <2>2. ta \in Seq(HandlersGiven(App))
    BY <2>1, TriedIs
  <2>3. PICK A : A = HandlersGiven(App)
    OBVIOUS
  <2>4. ta \in Seq(A)
    BY <2>2, <2>3
  <2> QED BY <2>4
<1>5. all = u[2][p] \o ta
  <2>1. w[2][App] = ta \o <<>>
    BY <1>2, <1>3, ClimbsToApp
  <2> QED BY <1>1, <1>2, <1>3, <1>4, <2>1 DEF HandlersTried
<1>6. /\ 2 - 1 = 1 /\ 2 \in 1..2 /\ 1 - 1 = 0 /\ 1 \in 1..2
      /\ 0 \in 0..2 /\ 1 \in 0..2 /\ 2 \in 0..2
  OBVIOUS
<1>7. u[0][App] = ta /\ u[1][App] = ta /\ u[2][App] = ta
  BY <1>1, <1>3, <1>4, <1>6, ClimbsToApp
<1>8. q # Nothing => u[2][p] = tp \o u[1][q]
  <2>1. u[2][p] = T(p) \o IF bps[p].parent = Nothing THEN <<>>
                          ELSE u[2 - 1][bps[p].parent]
    BY <1>1, <1>3, <1>6 DEF Climbs
  <2> QED BY <1>6, <2>1
<1>9. CASE p = App
  <2>1. all = ta \o ta
    BY <1>5, <1>7, <1>9
  <2> QED BY <1>9, <2>1 DEF IsChain
<1>10. CASE p # App /\ Direct(p)
  <2>1. q = App
    BY <1>10 DEF Direct
  <2>2. u[2][p] = tp \o ta
    BY <1>3, <1>7, <1>8, <2>1
  <2>3. all = (tp \o ta) \o ta
    BY <1>5, <2>2
  <2> QED BY <1>10, <2>1, <2>3 DEF IsChain
<1>11. CASE p # App /\ ~Direct(p)
  <2>1. /\ q \in Blueprints /\ q # App /\ q # Nothing
        /\ bps[q].parent = App
    BY <1>3, <1>11 DEF Rooted, Direct
  <2>2. u[1][q] = T(q) \o IF bps[q].parent = Nothing THEN <<>>
                          ELSE u[1 - 1][bps[q].parent]
    BY <1>1, <1>6, <2>1 DEF Climbs
  <2>3. u[1][q] = tq \o ta
    BY <1>3, <1>6, <1>7, <2>1, <2>2
  <2>4. all = (tp \o (tq \o ta)) \o ta
    BY <1>5, <1>8, <2>1, <2>3
  <2> QED BY <1>11, <2>1, <2>4 DEF IsChain
<1> QED BY <1>9, <1>10, <1>11

(* What is tried is a sequence of handlers. *)
LEMMA TriesType ==
    ASSUME TreeInv, NEW p \in Rooted, NEW class
    PROVE  HandlersTried(bps, p, class) \in Seq(AnyHandlers)
<1>1. PICK q, ta, tp, tq, all, H :
          /\ q = bps[p].parent /\ H = AnyHandlers
          /\ ta = Tried(bps[App].handlers, class)
          /\ tp = Tried(bps[p].handlers, class)
          /\ tq = Tried(bps[q].handlers, class)
          /\ all = HandlersTried(bps, p, class)
  OBVIOUS
<1>2. /\ p \in Blueprints /\ App \in Blueprints
      /\ IsChain(p, q, all, ta, tp, tq)
  BY <1>1, TriesAre, BlueprintsAssumption DEF Rooted
<1>3. ASSUME NEW c \in Blueprints
      PROVE  Tried(bps[c].handlers, class) \in Seq(H)
  <2>1. bps[c].handlers \in Seq(HandlersGiven(c))
    BY DEF TreeInv, TreeType, BlueprintType
  <2>2. PICK t, A : t = Tried(bps[c].handlers, class)
                    /\ A = HandlersGiven(c)
    OBVIOUS
  <2>3. t \in Seq(A)
    BY <2>1, <2>2, TriedIs
  <2>4. A \subseteq H
    BY <1>1, <2>2 DEF AnyHandlers
  <2>5. t \in Seq(H)
    BY <2>3, <2>4
  <2> QED BY <2>2, <2>5
<1>4. /\ ta \in Seq(H) /\ tp \in Seq(H)
      /\ q \in Blueprints => tq \in Seq(H)
  BY <1>1, <1>2, <1>3
<1>5. \A s, t \in Seq(H) : s \o t \in Seq(H)
  OBVIOUS
<1>6. all \in Seq(H)
  BY ZenonT(30), <1>2, <1>4, <1>5 DEF IsChain
<1> QED BY <1>1, <1>6

(* All handlers are tried after those that are better or nearer. *)
LEMMA TriesLead ==
    ASSUME TreeInv, Sorted(bps[App].handlers), NEW p \in Rooted, NEW class,
           NEW y, IsIn(y, HandlersTried(bps, p, class)),
           NEW x, Better(x, y, class) \/ Nearer(x, y, class, p)
    PROVE  Leads(HandlersTried(bps, p, class), x, y)
<1>1. PICK q, ta, tp, tq, all, H :
          /\ q = bps[p].parent /\ H = AnyHandlers
          /\ ta = Tried(bps[App].handlers, class)
          /\ tp = Tried(bps[p].handlers, class)
          /\ tq = Tried(bps[q].handlers, class)
          /\ all = HandlersTried(bps, p, class)
  OBVIOUS
<1>2. p \in Blueprints /\ IsChain(p, q, all, ta, tp, tq)
  BY <1>1, TriesAre DEF Rooted
<1>0. IsIn(y, all)
  BY <1>1
<1>3. App \in Blueprints
  BY BlueprintsAssumption
<1>4. /\ ta \in Seq(H) /\ tp \in Seq(H)
      /\ \A z : IsIn(z, ta) => z.in = App
      /\ \A z : IsIn(z, tp) => z.in = p
      /\ \A z \in Willing(p, class) : IsIn(z, tp)
      /\ \A z \in H : z.in = App /\ Better(x, z, class) => Leads(ta, x, z)
      /\ \A z \in H : z.in = p /\ Better(x, z, class) => Leads(tp, x, z)
  BY <1>1, <1>2, <1>3, TriedOfOne
<1>5. ASSUME NEW s \in Seq(H), IsIn(y, s) PROVE y \in H
  BY <1>5 DEF IsIn
<1>6. ASSUME y.in # p, x \in Willing(p, class)
      PROVE  Leads(tp, x, y)
  <2>1. IsIn(x, tp) /\ ~IsIn(y, tp)
    BY <1>4, <1>6
  <2> QED BY <2>1 DEF Leads, IsIn
<1>7. y.in = p => Better(x, y, class)
  BY DEF Nearer, Below
<1>8. CASE p = App /\ all = ta \o ta
  <2>1. IsIn(y, ta)
    BY <1>0, <1>4, <1>8, InJoin
  <2>2. Leads(ta, x, y)
    BY <1>4, <1>5, <1>7, <1>8, <2>1
  <2>3. Leads(all, x, y)
    BY <1>4, <1>8, <2>2, LeadsOn
  <2> QED BY <1>1, <2>3
<1>9. CASE p # App /\ q = App /\ all = (tp \o ta) \o ta
  <2>1. PICK s : s = tp \o ta
    OBVIOUS
  <2>2. s \in Seq(H) /\ (IsIn(y, s) => IsIn(y, tp) \/ IsIn(y, ta))
    BY <1>4, <2>1, InJoin
  <2>3. IsIn(y, s) \/ IsIn(y, ta)
    BY <1>0, <1>4, <1>9, <2>1, <2>2, InJoin
  <2>4. y \in H /\ (y.in = App \/ y.in = p)
    BY <1>4, <1>5, <2>2, <2>3
  <2>8. Leads(s, x, y)
    <3>5. CASE Leads(tp, x, y)
      BY <1>4, <2>1, <3>5, LeadsOn
    <3>6. CASE y.in = App /\ Better(x, y, class)
      <4>1. Leads(ta, x, y) /\ ~IsIn(y, tp)
        BY <1>4, <1>9, <2>4, <3>6
      <4> QED BY <1>4, <2>1, <4>1, LeadsAfter
    <3>7. CASE y.in = App /\ Nearer(x, y, class, p)
      <4>1. x \in Willing(p, class)
        BY <1>1, <1>9, <3>7 DEF Nearer, Below
      <4> QED BY <1>6, <1>9, <3>5, <3>7, <4>1
    <3> QED BY <1>4, <1>7, <2>1, <2>4, <3>5, <3>6, <3>7
  <2>9. Leads(all, x, y)
    BY <1>4, <1>9, <2>1, <2>2, <2>8, LeadsOn
  <2> QED BY <1>1, <2>9
<1>10. CASE /\ p # App /\ q \in Blueprints \ {App} /\ bps[q].parent = App
            /\ all = (tp \o (tq \o ta)) \o ta
  <2>1. /\ tq \in Seq(H)
        /\ \A z : IsIn(z, tq) => z.in = q
        /\ \A z \in Willing(q, class) : IsIn(z, tq)
        /\ \A z \in H : z.in = q /\ Better(x, z, class) => Leads(tq, x, z)
    BY <1>1, <1>10, TriedOfOne
  <2>2. PICK r, s : r = tq \o ta /\ s = tp \o (tq \o ta)
    OBVIOUS
  <2>3. r \in Seq(H) /\ (IsIn(y, r) => IsIn(y, tq) \/ IsIn(y, ta))
    BY <1>4, <2>1, <2>2, InJoin
  <2>4. /\ s = tp \o r /\ s \in Seq(H)
        /\ IsIn(y, s) => IsIn(y, tp) \/ IsIn(y, r)
    BY <1>4, <2>2, <2>3, InJoin
  <2>5. IsIn(y, s) \/ IsIn(y, ta)
    BY <1>0, <1>4, <1>10, <2>2, <2>4, InJoin
  <2>6. y \in H /\ (y.in = App \/ y.in = p \/ y.in = q)
    <3>1. y \in H
      BY <1>4, <1>5, <2>4, <2>5
    <3> QED BY <1>4, <2>1, <2>3, <2>4, <2>5, <3>1
  <2>15. Leads(s, x, y)
    <3>7. CASE Leads(tp, x, y)
      BY <1>4, <2>3, <2>4, <3>7, LeadsOn
    <3>8. CASE y.in # p /\ Leads(r, x, y)
      <4>1. ~IsIn(y, tp)
        BY <1>4, <3>8
      <4> QED BY <1>4, <2>3, <2>4, <3>8, <4>1, LeadsAfter
    <3>9. CASE y.in # p /\ Leads(tq, x, y)
      <4>1. Leads(r, x, y)
        BY <1>4, <2>1, <2>2, <3>9, LeadsOn
      <4> QED BY <3>8, <3>9, <4>1
    <3>10. CASE y.in = q /\ y.in # p /\ Better(x, y, class)
      BY <2>1, <2>6, <3>9, <3>10
    <3>11. CASE y.in = q /\ y.in # p /\ Nearer(x, y, class, p)
      <4>1. x \in Willing(p, class)
        BY <1>1, <3>11 DEF Nearer, Below
      <4> QED BY <1>6, <3>7, <3>11, <4>1
    <3>12. CASE y.in = App /\ Better(x, y, class)
      <4>1. Leads(ta, x, y) /\ ~IsIn(y, tq)
        BY <1>4, <1>10, <2>1, <2>6, <3>12
      <4>2. Leads(r, x, y)
        BY <1>4, <2>1, <2>2, <4>1, LeadsAfter
      <4> QED BY <1>10, <3>8, <3>12, <4>2
    <3>13. CASE y.in = App /\ Nearer(x, y, class, p)
      <4>1. x \in Willing(p, class) \/ x \in Willing(q, class)
        BY <1>1, <1>10, <3>13 DEF Nearer, Below
      <4>2. CASE x \in Willing(q, class)
        <5>1. IsIn(x, tq) /\ ~IsIn(y, tq)
          BY <1>10, <2>1, <3>13, <4>2
        <5>2. Leads(tq, x, y)
          BY <5>1 DEF Leads, IsIn
        <5> QED BY <1>10, <3>9, <3>13, <5>2
      <4>3. CASE x \in Willing(p, class)
        BY <1>6, <1>10, <3>7, <3>13, <4>3
      <4> QED BY <4>1, <4>2, <4>3
    <3>14. CASE y.in = p
      BY <1>4, <1>7, <2>6, <3>7, <3>14
    <3> QED BY <2>6, <3>10, <3>11, <3>12, <3>13, <3>14
  <2>16. Leads(all, x, y)
    BY <1>4, <1>10, <2>2, <2>4, <2>15, LeadsOn
  <2> QED BY <1>1, <2>16
<1> QED BY <1>2, <1>8, <1>9, <1>10 DEF IsChain

(* What the property says of one answer to a request for a route. *)
Specific(route, answer) ==
    LET in == answer.who[1]
        class == answer.who[2]
        thrown == answer.error.class
    IN  /\ \A b \in Below(route.parent, in) : Willing(b, thrown) = {}
        /\ \A h \in Willing(in, thrown) :
              /\ h.class = thrown => class = thrown
              /\ in = App /\ class \in Supers[h.class] => class = h.class

(* The handler that decides is the first that does. *)
LEMMA DecidingIsSpecific ==
    ASSUME TreeInv, TablesInv, CacheInv, Sorted(bps[App].handlers), NEW e,
           e.request \in 1..Len(asked), Handles(e)
    PROVE  Specific(asked[e.request].route,
                    By("handler", HandlerName(Tries(e)[Decides(e)]), e))
<1>1. PICK route, p, thrown, s, H, d :
          /\ route = asked[e.request].route /\ p = route.parent
          /\ thrown = e.class /\ s = HandlersTried(bps, p, thrown)
          /\ H = AnyHandlers /\ d = Decides(e)
  OBVIOUS
<1>2. p \in Rooted
  BY <1>1, AskedType DEF RouteType
<1>3. Tries(e) = s
  BY <1>1 DEF Tries
<1> DEFINE I == {i \in 1..Len(s) : ~s[i].declines \/ ~CanGet(s[i].wants)}
<1>4. d = IF I # {} THEN Min(I) ELSE 0
  BY <1>1, <1>3 DEF Decides, SelectInSeq
<1>5. d # 0
  BY <1>1 DEF Handles
<1>6. d \in I
  <2>1. I \subseteq Nat /\ I # {}
    BY <1>4, <1>5
  <2> HIDE DEF I
  <2> QED BY <1>4, <2>1, MinExists
<1>7. PICK y : y = s[d]
  OBVIOUS
<1>8. d \in 1..Len(s) /\ I \subseteq 1..Len(s)
  BY <1>6
<1>9. s \in Seq(H) => DOMAIN s = 1..Len(s)
  OBVIOUS
<1>10. s \in Seq(H) /\ IsIn(y, s)
  <2>1. s \in Seq(H)
    BY <1>1, <1>2, TriesType
  <2> QED BY <1>7, <1>8, <1>9, <2>1 DEF IsIn
<1>11. ASSUME NEW x, Better(x, y, thrown) \/ Nearer(x, y, thrown, p)
       PROVE  x.declines
  <2> HIDE DEF I
  <2>1. Leads(s, x, s[d])
    BY <1>1, <1>2, <1>7, <1>10, <1>11, TriesLead
  <2>2. \E j \in DOMAIN s : s[j] = x /\ j \notin I
    <3>1. I \in SUBSET DOMAIN s
      BY <1>8, <1>9, <1>10
    <3> QED BY <1>4, <1>5, <1>10, <2>1, <3>1, FirstLeads
  <2>3. PICK j \in DOMAIN s : s[j] = x /\ j \notin I
    BY <2>2
  <2>4. j \in 1..Len(s)
    BY <1>9, <1>10
  <2> QED BY <2>3, <2>4 DEF I
<1> HIDE DEF I
<1>12. \A b \in Below(p, y.in) : Willing(b, thrown) = {}
  <2> SUFFICES ASSUME NEW b \in Below(p, y.in), NEW x \in Willing(b, thrown)
               PROVE  FALSE
    OBVIOUS
  <2>1. Nearer(x, y, thrown, p)
    BY DEF Nearer
  <2> QED BY <1>11, <2>1 DEF Willing
<1>13. ASSUME NEW x \in Willing(y.in, thrown)
       PROVE  /\ x.class = thrown => y.class = thrown
              /\ y.in = App /\ y.class \in Supers[x.class]
                     => y.class = x.class
  <2>1. ~Better(x, y, thrown)
    BY <1>11, <1>13 DEF Willing
  <2> QED BY <1>13, <2>1 DEF Better
<1>14. PICK a : a = By("handler", HandlerName(y), e)
  OBVIOUS
<1>15. a.who[1] = y.in /\ a.who[2] = y.class /\ a.error.class = thrown
  BY <1>1, <1>14 DEF By, HandlerName
<1>16. Specific(route, a)
  BY <1>1, <1>12, <1>13, <1>15 DEF Specific
<1> QED BY <1>1, <1>3, <1>7, <1>14, <1>16
-----------------------------------------------------------------------------
(* An answer that is none of an exception handler, or the right one. *)
IsRight(r, answer) ==
    answer.kind = "handler" =>
        r \in 1..Len(asked) /\ Specific(asked[r].route, answer)

AnswersInv ==
    /\ serving => Sorted(bps[App].handlers)
    /\ DOMAIN answers = Requests /\ DOMAIN by = Requests
    /\ \A r \in Requests : at[r] = "after" => by[r].kind # "handler"
    /\ \A r \in Requests : \A answer \in answers[r] : IsRight(r, answer)

(* No exception was handled yet. *)
LEMMA AnswersInit == Init => AnswersInv
BY DEF Init, AnswersInv

(* No exception is handled before the application serves. *)
LEMMA AnswersRegister ==
    ASSUME TreeInv, CacheInv, AnswersInv, Register
    PROVE  AnswersInv'
<1>1. ~serving /\ UNCHANGED <<asked, at, by, answers>>
  BY DEF Register, RegisterRoute, RegisterHook, RegisterHandler,
         NestBlueprint, AddBlueprint, Initialize, Made, Calls, task
<1>2. Len(asked) = 0
  BY <1>1 DEF CacheInv
<1>3. \A r, a : IsRight(r, a) => IsRight(r, a)'
  BY <1>1, <1>2 DEF IsRight
<1>4. serving' => Sorted(bps'[App].handlers)
  <2>1. CASE Initialize
    BY <2>1, InitializeTree
  <2>2. CASE ~Initialize
    BY <1>1, <2>2 DEF Register, RegisterRoute, RegisterHook,
       RegisterHandler, NestBlueprint, AddBlueprint, Made
  <2> QED BY <2>1, <2>2
<1>5. (serving => Sorted(bps[App].handlers))'
  BY <1>4 DEF Sorted
<1> QED BY <1>1, <1>3, <1>5 DEF AnswersInv

(* A step that gives right answers only. *)
LEMMA AnswersKeep ==
    ASSUME AnswersInv, UNCHANGED application,
           DOMAIN answers' = Requests, DOMAIN by' = Requests,
           \A r \in Requests : at'[r] = "after" => by'[r].kind # "handler",
           \A r \in Requests : \A a \in answers'[r] :
               a \in answers[r] \/ IsRight(r, a),
           \A r \in 1..Len(asked) :
               r \in 1..Len(asked') /\ asked'[r] = asked[r]
    PROVE  AnswersInv'
<1>1. UNCHANGED <<serving, bps>>
  BY DEF application
<1>2. \A route, a : Specific(route, a)' <=> Specific(route, a)
  BY <1>1 DEF Specific, Below, Willing
<1>3. ASSUME NEW r \in Requests, NEW a \in answers'[r] PROVE IsRight(r, a)'
  <2>1. IsRight(r, a)
    BY <1>3 DEF AnswersInv
  <2>2. PICK route : route = asked[r].route
    OBVIOUS
  <2>3. Specific(route, a)' <=> Specific(route, a)
    BY <1>2
  <2>4. a.kind = "handler" =>
            r \in 1..Len(asked') /\ route = asked'[r].route
            /\ Specific(route, a)'
    BY <2>1, <2>2, <2>3 DEF IsRight
  <2> QED BY SMTT(20), <2>4 DEF IsRight, Specific, Below, Willing
<1>4. (serving => Sorted(bps[App].handlers))'
  BY <1>1 DEF AnswersInv, Sorted
<1> QED BY <1>3, <1>4 DEF AnswersInv

(* An answer of another kind, and another response. *)
Sends(r) ==
    \E a : answers' = [answers EXCEPT ![r] = @ \cup {a}] /\ a.kind # "handler"
Gets(r) == \E a : by' = [by EXCEPT ![r] = a] /\ a.kind # "handler"

(* An answer that no exception handler gave. *)
LEMMA SendsOrGets ==
    ASSUME NEW r, NEW kind, kind # "handler", NEW who
    PROVE  /\ Send(r, By(kind, who, Nothing)) => Sends(r)
           /\ Responded(r, By(kind, who, Nothing)) => Gets(r)
           /\ by' = [by EXCEPT ![r] = By(kind, who, Nothing)] => Gets(r)
<1>1. PICK a : a = By(kind, who, Nothing)
  OBVIOUS
<1>2. a.kind # "handler"
  BY <1>1 DEF By
<1>3. Send(r, a) => Sends(r)
  BY <1>2 DEF Send, Sends
<1>4. by' = [by EXCEPT ![r] = a] => Gets(r)
  BY <1>2 DEF Gets
<1>5. Responded(r, a) => Gets(r)
  BY <1>4 DEF Responded
<1> QED BY <1>1, <1>3, <1>4, <1>5

(* The tasks of requests give no answers of exception handlers. *)
LEMMA AnswersTask ==
    ASSUME CacheInv, GuardInv, AnswersInv, NEW r \in Requests,
           HandleRequest(r)
    PROVE  AnswersInv'
<1>1. /\ at \in [Requests -> Places]
      /\ DOMAIN answers = Requests /\ DOMAIN by = Requests
      /\ at[r] = "after" => by[r].kind # "handler"
  BY DEF GuardInv, TaskTypes, AnswersInv
<1>2. UNCHANGED <<application, asked>>
  BY DEF HandleRequest, HookFails, HookPasses, HookReturns,
      AskEngineFirst, BeforeDone, AskEngine, CallHandler, EndpointReturns,
      EndpointRaises, Respond, HandleRequestEnds
<1>3. UNCHANGED answers \/ Sends(r)
  <2>1. CASE HookReturns(r)
    <3>1. \/ UNCHANGED answers
          \/ Send(r, By("hook", HookName(Head(todo[r])), Nothing))
      BY <2>1 DEF HookReturns
    <3> QED BY <3>1, SendsOrGets
  <2>2. CASE AskEngineFirst(r)
    <3>1. \/ UNCHANGED answers
          \/ Send(r, By("cache", RouteName(asked[r].route), Nothing))
      BY <2>2 DEF AskEngineFirst
    <3> QED BY <3>1, SendsOrGets
  <2>3. CASE Respond(r)
    BY <1>1, <2>3 DEF Respond, Send, Sends, At
  <2>4. CASE ~HookReturns(r) /\ ~AskEngineFirst(r) /\ ~Respond(r)
    BY <2>4 DEF HandleRequest, HookFails, HookPasses, BeforeDone, AskEngine,
       CallHandler, EndpointReturns, EndpointRaises, HandleRequestEnds
  <2> QED BY <2>1, <2>2, <2>3, <2>4
<1>4. \/ UNCHANGED <<at, by>>
      \/ /\ \E p \in Places \ {"after"} : at' = [at EXCEPT ![r] = p]
         /\ UNCHANGED by
      \/ /\ UNCHANGED at \/ at' = [at EXCEPT ![r] = "after"]
         /\ Gets(r)
  <2>0. /\ "done" \in Places /\ "endpoint" \in Places /\ "sent" \in Places
        /\ "call" \in Places /\ "before" \in Places /\ "fetch" \in Places
    BY DEF Places
  <2>1. CASE HookReturns(r)
    <3>1. CASE at[r] = "before"
      BY <2>0, <2>1, <3>1 DEF HookReturns, Goto
    <3>2. CASE at[r] # "before"
      <4>1. /\ by' = [by EXCEPT ![r] =
                           By("hook", HookName(Head(todo[r])), Nothing)]
            /\ UNCHANGED at
        BY <2>1, <3>2 DEF HookReturns
      <4> QED BY <4>1, SendsOrGets
    <3> QED BY <3>1, <3>2
  <2>2. CASE AskEngineFirst(r) \/ BeforeDone(r)
    BY <2>0, <2>2 DEF AskEngineFirst, BeforeDone, Goto
  <2>3. CASE AskEngine(r)
    <3>1. \/ Responded(r, By("cache", RouteName(asked[r].route), Nothing))
          \/ Goto(r, "call") /\ UNCHANGED by
      BY <2>3 DEF AskEngine
    <3>2. CASE Responded(r, By("cache", RouteName(asked[r].route), Nothing))
      <4>1. Gets(r)
        BY <3>2, SendsOrGets
      <4> QED BY <3>2, <4>1 DEF Responded, Goto
    <3> QED BY <2>0, <3>1, <3>2 DEF Goto
  <2>4. CASE EndpointReturns(r)
    <3>1. Responded(r, By("endpoint", RouteName(asked[r].route), Nothing))
      BY <2>4 DEF EndpointReturns
    <3>2. Gets(r)
      BY <3>1, SendsOrGets
    <3> QED BY <3>1, <3>2 DEF Responded, Goto
  <2>5. CASE HookFails(r) \/ CallHandler(r) \/ EndpointRaises(r)
    BY <2>0, <2>5 DEF HookFails, CallHandler, EndpointRaises, Raise, Goto
  <2>6. CASE Respond(r) \/ HandleRequestEnds(r)
    BY <2>0, <2>6 DEF Respond, HandleRequestEnds, Goto
  <2>7. CASE HookPasses(r)
    BY <2>7 DEF HookPasses
  <2> QED BY <2>1, <2>2, <2>3, <2>4, <2>5, <2>6, <2>7 DEF HandleRequest
<1>5. /\ DOMAIN answers' = Requests
      /\ \A x \in Requests : \A a \in answers'[x] :
            a \in answers[x] \/ IsRight(x, a)
  BY <1>1, <1>3 DEF IsRight, Sends
<1>6. /\ DOMAIN by' = Requests
      /\ \A x \in Requests : at'[x] = "after" => by'[x].kind # "handler"
  <2>1. \A x \in Requests : at[x] = "after" => by[x].kind # "handler"
    BY DEF AnswersInv
  <2>2. CASE UNCHANGED <<at, by>>
    BY <1>1, <2>1, <2>2
  <2>3. CASE /\ \E p \in Places \ {"after"} : at' = [at EXCEPT ![r] = p]
             /\ UNCHANGED by
    BY <1>1, <2>1, <2>3
  <2>4. CASE /\ UNCHANGED at \/ at' = [at EXCEPT ![r] = "after"]
             /\ Gets(r)
    BY <1>1, <2>1, <2>4 DEF Gets
  <2> QED BY <1>4, <2>2, <2>3, <2>4
<1>7. \A x \in 1..Len(asked) :
          x \in 1..Len(asked') /\ asked'[x] = asked[x]
  BY <1>2
<1> QED BY <1>2, <1>5, <1>6, <1>7, AnswersKeep

(* Nor does a new request. *)
LEMMA AnswersArrival ==
    ASSUME TreeInv, CacheInv, GuardInv, AnswersInv, NEW q \in setup.queries,
           OnHeadersComplete(q)
    PROVE  AnswersInv'
<1>1. PICK r, item : /\ r = Len(asked) + 1
                     /\ item = [query |-> q,
                                route |-> GetRoute(tables, cache, q).route]
  OBVIOUS
<1>2. /\ UNCHANGED <<application, by>>
      /\ asked' = Append(asked, item)
  BY <1>1 DEF OnHeadersComplete
<1>3. \A x \in 1..Len(asked) :
          x \in 1..Len(asked') /\ asked'[x] = asked[x]
  <2>1. PICK s, S : s = asked /\ s \in Seq(S)
    BY DEF CacheInv
  <2>2. \A x \in 1..Len(s) : x \in 1..Len(Append(s, item))
                             /\ Append(s, item)[x] = s[x]
    BY <2>1
  <2> QED BY <1>2, <2>1, <2>2
<1>4. /\ \E p : at' = [at EXCEPT ![r] = p] /\ p # "after"
      /\ UNCHANGED answers \/ Sends(r)
  <2>1. \A route : FirstStep(route) # "after"
    BY DEF FirstStep
  <2>2. \E p : at' = [at EXCEPT ![r] = p] /\ p # "after"
    BY <1>1, <2>1 DEF OnHeadersComplete
  <2>3. \/ UNCHANGED answers
        \/ Send(r, By("cache", RouteName(item.route), Nothing))
    BY <1>1 DEF OnHeadersComplete
  <2> QED BY <2>2, <2>3, SendsOrGets
<1>5. /\ at \in [Requests -> Places]
      /\ DOMAIN answers = Requests /\ DOMAIN by = Requests
      /\ \A x \in Requests : at[x] = "after" => by[x].kind # "handler"
  BY DEF GuardInv, TaskTypes, AnswersInv
<1>6. \A x \in Requests : at'[x] = "after" => by'[x].kind # "handler"
  BY <1>2, <1>4, <1>5
<1>7. /\ DOMAIN answers' = Requests
      /\ \A x \in Requests : \A a \in answers'[x] :
            a \in answers[x] \/ IsRight(x, a)
  BY <1>4, <1>5 DEF IsRight, Sends
<1> QED BY <1>2, <1>3, <1>5, <1>6, <1>7, AnswersKeep

(* handle_exception() answers with the handler it decided for. *)
LEMMA AnswersException ==
    ASSUME TreeInv, TablesInv, CacheInv, GuardInv, AnswersInv,
           NEW e \in errors, HandleException(e) \/ HandleExceptionFails(e)
    PROVE  AnswersInv'
<1>1. UNCHANGED <<application, asked, at, by>>
  BY DEF HandleException, HandleExceptionFails, task
<1>2. e.request \in 1..Len(asked)
  BY DEF GuardInv, TaskTypes
<1>3. /\ DOMAIN answers = Requests /\ DOMAIN by = Requests
      /\ \A x \in Requests : at[x] = "after" => by[x].kind # "handler"
  BY DEF AnswersInv
<1>4. /\ DOMAIN answers' = Requests
      /\ \A x \in Requests : \A a \in answers'[x] :
            a \in answers[x] \/ IsRight(x, a)
  <2>1. CASE HandleExceptionFails(e)
    BY <1>3, <2>1 DEF HandleExceptionFails
  <2>2. CASE HandleException(e)
    <3>1. PICK r, a :
              /\ r = e.request
              /\ a = By("handler", HandlerName(Tries(e)[Decides(e)]), e)
      OBVIOUS
    <3>2. answers' = [answers EXCEPT ![r] = @ \cup {a}] /\ Handles(e)
      BY <2>2, <3>1 DEF HandleException, Send
    <3>3. serving
      <4>1. Len(asked) # 0
        <5>1. Len(asked) \in Nat
          BY DEF CacheInv
        <5> QED BY <1>2, <5>1
      <4> QED BY <4>1 DEF CacheInv
    <3>4. Specific(asked[r].route, a)
      BY <1>2, <3>1, <3>2, <3>3, DecidingIsSpecific DEF AnswersInv
    <3>5. IsRight(r, a)
      BY <1>2, <3>1, <3>4 DEF IsRight
    <3> QED BY <1>3, <3>2, <3>5
  <2> QED BY <2>1, <2>2
<1> QED BY <1>1, <1>3, <1>4, AnswersKeep

(* Every step keeps the answers right. *)
LEMMA AnswersNext ==
    ASSUME TreeInv, TablesInv, CacheInv, GuardInv, AnswersInv, [Next]_vars
    PROVE  AnswersInv'
<1>1. CASE UNCHANGED vars
  <2>1. UNCHANGED <<application, asked, at, by, answers>>
    BY <1>1 DEF vars, task
  <2>2. /\ DOMAIN answers = Requests /\ DOMAIN by = Requests
        /\ \A x \in Requests : at[x] = "after" => by[x].kind # "handler"
    BY DEF AnswersInv
  <2> QED BY <2>1, <2>2, AnswersKeep
<1> QED BY <1>1, AnswersRegister, AnswersArrival, AnswersTask,
           AnswersException DEF Next

-----------------------------------------------------------------------------
(* All together. *)

(* The inductive invariant of the application and its requests. *)
ServingInv ==
    /\ TreeInv /\ CacheInv /\ TablesInv /\ HooksPlaced
    /\ GuardInv /\ AnswersInv

(* The whole invariant holds at first. *)
LEMMA ServingInit == Init => ServingInv
BY TreeInit, CacheInit, TablesInit, PlacedInit, GuardInit, AnswersInit
   DEF ServingInv

(* Every step keeps the whole invariant. *)
LEMMA ServingNext == ServingInv /\ [Next]_vars => ServingInv'
<1> SUFFICES ASSUME ServingInv, [Next]_vars PROVE ServingInv'
  OBVIOUS
<1> USE DEF ServingInv
<1>1. TreeInv'
  BY TreeNext
<1>2. CacheInv'
  BY RegisterKeeps, RoutingKeeps, TasksKeep DEF Next
<1>3. TablesInv'
  BY <1>1, TablesNext
<1>4. HooksPlaced'
  BY PlacedNext
<1>5. GuardInv'
  BY <1>2, <1>3, GuardNext
<1>6. AnswersInv'
  BY AnswersNext
<1> QED BY <1>1, <1>2, <1>3, <1>4, <1>5, <1>6

(* No endpoint runs before all hooks for BEFORE_ENDPOINT that guard it,    *)
(* for every application, every order in which it is put together and      *)
(* every interleaving of its tasks (add_blueprint(), exists_hook(),        *)
(* call_hooks(), handle_request()).                                        *)
THEOREM EndpointsAreGuarded == Spec => []EndpointIsGuarded
<1>1. ASSUME ServingInv, NEW r \in 1..Len(asked),
             \E o \in trace[r] : o.at = "call"
      PROVE  GuardsRan(r)
  BY <1>1 DEF ServingInv, GuardInv, Guarded
<1>2. ServingInv => EndpointIsGuarded
  BY <1>1 DEF EndpointIsGuarded, GuardsRan, GuardsOf, RanBefore
<1> QED BY ServingInit, ServingNext, <1>2, PTL DEF Spec

(* process_exception() answers an exception by a handler of the nearest    *)
(* blueprint that has a willing one, for exactly the exception's class if  *)
(* there is one there; and at the application by none for a superclass of  *)
(* a class that another willing handler is for, which is what              *)
(* sort_error_handlers() is for.                                           *)
THEOREM AnswersAreMostSpecific == Spec => []MostSpecificAnswers
<1>1. ServingInv => MostSpecificAnswers
  BY DEF ServingInv, AnswersInv, IsRight, Specific, MostSpecificAnswers
<1> QED BY ServingInit, ServingNext, <1>1, PTL DEF Spec
=============================================================================
