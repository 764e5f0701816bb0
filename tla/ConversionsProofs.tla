-------------------------- MODULE ConversionsProofs --------------------------
(***************************************************************************)
(* Proofs about the conversions of text, for every string of JSON, every   *)
(* string in memory and every line of the log.                             *)
(*                                                                         *)
(* The readers and their reference definitions are recursive functions     *)
(* over the places of a sequence.  That such a recursion has a solution is *)
(* shown once (Recursion), and what a solution computes is shown place by  *)
(* place, as a proof by the least counterexample (LeastOf).                *)
(***************************************************************************)
EXTENDS Conversions, FiniteSetTheorems, SequenceTheorems, WellFoundedInduction, TLAPS

-----------------------------------------------------------------------------
(* Recursion *)

\* A set of numbers has a least one, unless it is empty.
LEMMA LeastOf ==
    ASSUME NEW S \in SUBSET Nat, S # {}
    PROVE  \E x \in S : \A y \in S : x <= y
<1> DEFINE R == {ss \in Nat \X Nat : ss[1] < ss[2]}
<1>1. IsWellFoundedOn(R, Nat)
  BY NatLessThanWellFounded DEF OpToRel
<1> HIDE DEF R
<1>2. PICK x \in S : \A y \in S : ~(<<y, x>> \in R)
  BY <1>1, WFMin
<1>3. \A y \in S : y \in Nat /\ x \in Nat /\ (<<y, x>> \in R <=> y < x)
  BY DEF R
<1>4. \A y \in S : x <= y
  <2> SUFFICES ASSUME NEW y \in S
               PROVE  x <= y
    OBVIOUS
  <2>1. y \in Nat /\ x \in Nat /\ ~(y < x)
    BY <1>2, <1>3
  <2>2. QED
    BY <2>1
<1>5. QED
  BY <1>4

\* A bounded one has a greatest.
LEMMA GreatestOf ==
    ASSUME NEW k \in Nat, NEW S \in SUBSET (0..k), S # {}
    PROVE  \E x \in S : \A y \in S : y <= x
<1> DEFINE T == {j \in Nat : \E x \in S : j = k - x}
<1>1. T # {}
  <2>1. PICK x \in S : TRUE
    OBVIOUS
  <2>2. x \in 0..k
    BY <2>1
  <2>3. k - x \in T
    BY <2>2
  <2>4. QED
    BY <2>3
<1>2. PICK j \in T : \A y \in T : j <= y
  BY <1>1, LeastOf
<1>3. PICK x \in S : j = k - x
  BY <1>2
<1>4. ASSUME NEW y \in S
      PROVE  y <= x
  <2>1. y \in 0..k /\ x \in 0..k
    OBVIOUS
  <2>2. k - y \in T
    BY <2>1
  <2>3. j <= k - y
    BY <1>2, <2>2
  <2>4. QED
    BY <1>3, <2>1, <2>3
<1>5. QED
  BY <1>4

\* What holds of a place when it holds of all that follow holds everywhere.
LEMMA Backwards ==
    ASSUME NEW n \in Nat, NEW S,
           \A x \in 1..n : (\A y \in (x + 1)..n : y \in S) => x \in S
    PROVE  \A x \in 1..n : x \in S
<1> DEFINE Bad == {x \in 0..n : x >= 1 /\ x \notin S}
<1>1. Bad \in SUBSET (0..n)
  OBVIOUS
<1>2. Bad = {}
  <2> SUFFICES ASSUME Bad # {}
               PROVE  FALSE
    OBVIOUS
  <2>1. PICK x \in Bad : \A y \in Bad : y <= x
    <3> HIDE DEF Bad
    <3>1. QED
      BY <1>1, GreatestOf
  <2>2. x \in 1..n /\ x \notin S
    BY <2>1
  <2>3. ASSUME NEW y \in (x + 1)..n
        PROVE  y \in S
    <3>1. y \in 0..n /\ y >= 1 /\ ~(y <= x)
      BY <2>2
    <3>2. y \notin Bad
      BY <2>1, <3>1
    <3>3. QED
      BY <3>1, <3>2
  <2>4. QED
    BY <2>2, <2>3
<1>3. QED
  BY <1>2

\* A sequence of another type.
LEMMA Retyped ==
    ASSUME NEW S, NEW s \in Seq(S), NEW T, \A i \in 1..Len(s) : s[i] \in T
    PROVE  s \in Seq(T)
  OBVIOUS

\* What holds of a place when it holds of all before it holds everywhere.
LEMMA Forwards ==
    ASSUME NEW n \in Nat, NEW S,
           \A x \in 0..n : (\A y \in 0..(x - 1) : y \in S) => x \in S
    PROVE  \A x \in 0..n : x \in S
<1> DEFINE Bad == {x \in 0..n : x \notin S}
<1>1. Bad \in SUBSET Nat
  OBVIOUS
<1>2. Bad = {}
  <2> SUFFICES ASSUME Bad # {}
               PROVE  FALSE
    OBVIOUS
  <2>1. PICK x \in Bad : \A y \in Bad : x <= y
    <3> HIDE DEF Bad
    <3>1. QED
      BY <1>1, LeastOf
  <2>2. x \in 0..n /\ x \notin S
    BY <2>1
  <2>3. ASSUME NEW y \in 0..(x - 1)
        PROVE  y \in S
    <3>1. y \in 0..n /\ ~(x <= y)
      BY <2>2
    <3>2. y \notin Bad
      BY <2>1, <3>1
    <3>3. QED
      BY <3>1, <3>2
  <2>4. QED
    BY <2>2, <2>3
<1>3. QED
  BY <1>2

\* One sequence after another.
IsJoin(u, s, t) ==
    /\ Len(u) = Len(s) + Len(t)
    /\ \A i \in 1..(Len(s) + Len(t)) : u[i] = IF i <= Len(s) THEN s[i] ELSE t[i - Len(s)]

LEMMA Joined ==
    ASSUME NEW S, NEW s \in Seq(S), NEW t \in Seq(S)
    PROVE  s \o t \in Seq(S) /\ IsJoin(s \o t, s, t)
  BY DEF IsJoin

\* A recursion G has a solution when what it says of x only depends on places
\* of a lower rank, and ranks are bounded.
WellRanked(S, V, k, rank, G) ==
    /\ k \in Nat /\ rank \in [S -> 0..k]
    /\ G \in [S \X [S -> V] -> V]
    /\ \A x \in S : \A g, h \in [S -> V] :
           (\A y \in S : rank[y] < rank[x] => g[y] = h[y]) => G[<<x, g>>] = G[<<x, h>>]

Solvable(S, V, G) == \E f \in [S -> V] : \A x \in S : f[x] = G[<<x, f>>]

LEMMA Recursion ==
    ASSUME NEW S, NEW V, NEW v \in V, NEW K, NEW rank, NEW G, WellRanked(S, V, K, rank, G)
    PROVE  Solvable(S, V, G)
<1> USE DEF WellRanked, Solvable
<1> DEFINE Solved(f, k) == \A x \in S : rank[x] < k => f[x] = G[<<x, f>>]
           Bad == {k \in Nat : k <= K + 1 /\ ~ \E f \in [S -> V] : Solved(f, k)}
<1>1. Bad = {}
  <2> SUFFICES ASSUME Bad # {}
               PROVE  FALSE
    OBVIOUS
  <2>1. PICK k \in Bad : \A y \in Bad : k <= y
    BY LeastOf
  <2>2. k # 0
    <3>1. Solved([x \in S |-> v], 0)
      OBVIOUS
    <3>2. QED
      BY <3>1
  <2>3. k \in Nat /\ k - 1 \in Nat /\ k - 1 <= K + 1 /\ ~(k <= k - 1)
    BY <2>2
  <2>4. PICK f \in [S -> V] : Solved(f, k - 1)
    BY <2>1, <2>3
  <2> DEFINE g == [x \in S |-> IF rank[x] = k - 1 THEN G[<<x, f>>] ELSE f[x]]
  <2>5. g \in [S -> V]
    OBVIOUS
  <2>6. \A x \in S : (\A y \in S : rank[y] < rank[x] => f[y] = g[y]) => G[<<x, f>>] = G[<<x, g>>]
    BY <2>5
  <2>7. ASSUME NEW x \in S, rank[x] < k
        PROVE  g[x] = G[<<x, g>>]
    <3>1. rank[x] \in Nat /\ rank[x] <= k - 1
      BY <2>3, <2>7
    <3>2. \A y \in S : rank[y] < rank[x] => f[y] = g[y]
      BY <2>3, <3>1
    <3>3. G[<<x, f>>] = G[<<x, g>>]
      BY <2>6, <3>2
    <3>4. CASE rank[x] = k - 1
      BY <3>3, <3>4
    <3>5. CASE rank[x] # k - 1
      <4>1. rank[x] < k - 1
        BY <2>3, <3>1, <3>5
      <4>2. f[x] = G[<<x, f>>]
        BY <2>4, <4>1
      <4>3. QED
        BY <3>3, <3>5, <4>2
    <3>6. QED
      BY <3>4, <3>5
  <2>8. Solved(g, k)
    BY <2>7
  <2> HIDE DEF g, Solved
  <2>9. QED
    BY <2>5, <2>8
<1>2. PICK f \in [S -> V] : Solved(f, K + 1)
  <2>1. K + 1 \in Nat /\ K + 1 <= K + 1
    OBVIOUS
  <2> HIDE DEF Solved
  <2>2. QED
    BY <1>1, <2>1
<1>3. \A x \in S : rank[x] < K + 1
  OBVIOUS
<1>4. QED
  BY <1>2, <1>3

\* A sequence read from its front, some places at a time, each time for one item.
Unrolled(f, n, e, item, step) ==
    f = [x \in 1..(n + e) |-> IF x > n THEN <<>> ELSE <<item[x]>> \o f[x + step[x]]]

LEMMA Unrolling ==
    ASSUME NEW n \in Nat, NEW e \in Nat \ {0}, NEW item, NEW step \in [1..n -> 1..e]
    PROVE  \E f : Unrolled(f, n, e, item, step)
<1> DEFINE S == 1..(n + e)
           V == Seq({item[y] : y \in 1..n})
           Body(x, f) == IF x > n THEN <<>> ELSE <<item[x]>> \o f[x + step[x]]
           G == [p \in S \X [S -> V] |-> Body(p[1], p[2])]
           rank == [x \in S |-> n + e - x]
<1>1. <<>> \in V
  OBVIOUS
<1>2. rank \in [S -> 0..(n + e)] /\ n + e \in Nat
  OBVIOUS
<1>3. ASSUME NEW x \in S, x <= n
      PROVE  x + step[x] \in S /\ rank[x + step[x]] < rank[x] /\ x \in 1..n
  BY <1>3
<1>4. ASSUME NEW x \in S, NEW f \in [S -> V]
      PROVE  Body(x, f) \in V
  <2>1. CASE x > n
    BY <1>1, <2>1
  <2>2. CASE ~(x > n)
    <3>1. x \in 1..n /\ x + step[x] \in S
      BY <1>3, <2>2
    <3>2. <<item[x]>> \in V
      BY <3>1
    <3>3. f[x + step[x]] \in V
      <4> HIDE DEF V, S
      <4>1. QED
        BY <3>1
    <3>4. <<item[x]>> \o f[x + step[x]] \in V
      <4> HIDE DEF S
      <4>1. ASSUME NEW T, NEW s \in Seq(T), NEW r \in Seq(T) PROVE s \o r \in Seq(T)
        OBVIOUS
      <4>2. QED
        BY <3>2, <3>3, <4>1
    <3>5. QED
      BY <2>2, <3>4
  <2>3. QED
    BY <2>1, <2>2
<1>5. ASSUME NEW x \in S, NEW g \in [S -> V], NEW h \in [S -> V],
             \A y \in S : rank[y] < rank[x] => g[y] = h[y]
      PROVE  Body(x, g) = Body(x, h)
  <2>1. CASE x > n
    BY <2>1
  <2>2. CASE ~(x > n)
    BY <1>3, <1>5, <2>2
  <2>3. QED
    BY <2>1, <2>2
<1> HIDE DEF Body, rank, V
<1>6. G \in [S \X [S -> V] -> V]
  BY <1>4
<1>7. \A x \in S : \A g \in [S -> V] : G[<<x, g>>] = Body(x, g)
  OBVIOUS
<1> HIDE DEF G, S
<1>8. \A x \in S : \A g, h \in [S -> V] :
          (\A y \in S : rank[y] < rank[x] => g[y] = h[y]) => G[<<x, g>>] = G[<<x, h>>]
  BY <1>5, <1>7
<1>9. PICK f \in [S -> V] : \A x \in S : f[x] = G[<<x, f>>]
  <2>1. WellRanked(S, V, n + e, rank, G)
    BY <1>2, <1>6, <1>8 DEF WellRanked
  <2>2. Solvable(S, V, G)
    BY <1>1, <2>1, Recursion
  <2>3. QED
    BY <2>2 DEF Solvable
<1>10. f = [x \in S |-> Body(x, f)]
  BY <1>7, <1>9
<1>11. QED
  BY <1>9, <1>10 DEF Unrolled, S, V, Body

\* What it is place by place.
LEMMA UnrolledMeans ==
    ASSUME NEW n \in Nat, NEW e \in Nat \ {0}, NEW item, NEW step \in [1..n -> 1..e],
           NEW f, Unrolled(f, n, e, item, step)
    PROVE  /\ \A x \in (n + 1)..(n + e) : f[x] = <<>>
           /\ \A x \in 1..n : /\ f[x] = <<item[x]>> \o f[x + step[x]]
                              /\ x + step[x] \in (x + 1)..(n + e)
<1> DEFINE Body(x) == IF x > n THEN <<>> ELSE <<item[x]>> \o f[x + step[x]]
<1>1. f = [x \in 1..(n + e) |-> Body(x)]
  BY DEF Unrolled
<1> HIDE DEF Body
<1>2. \A x \in 1..(n + e) : f[x] = Body(x)
  BY <1>1
<1>3. \A x \in (n + 1)..(n + e) : x \in 1..(n + e) /\ x > n
  OBVIOUS
<1>4. \A x \in 1..n : x \in 1..(n + e) /\ ~(x > n) /\ x + step[x] \in (x + 1)..(n + e)
  OBVIOUS
<1>5. QED
  BY <1>2, <1>3, <1>4 DEF Body

\* What it finds are those items.
LEMMA UnrolledType ==
    ASSUME NEW n \in Nat, NEW e \in Nat \ {0}, NEW V, NEW item \in [1..n -> V],
           NEW step \in [1..n -> 1..e], NEW f, Unrolled(f, n, e, item, step)
    PROVE  \A x \in 1..(n + e) : f[x] \in Seq(V)
<1> DEFINE Bad == {x \in 0..(n + e) : x >= 1 /\ f[x] \notin Seq(V)}
<1>1. Bad = {}
  <2> SUFFICES ASSUME Bad # {}
               PROVE  FALSE
    OBVIOUS
  <2>1. PICK x \in Bad : \A y \in Bad : y <= x
    <3>1. n + e \in Nat /\ Bad \in SUBSET (0..(n + e))
      OBVIOUS
    <3> HIDE DEF Bad
    <3>2. QED
      BY <3>1, GreatestOf
  <2>2. x \in 1..(n + e) /\ f[x] \notin Seq(V)
    BY <2>1
  <2>3. x \in 1..n
    <3>1. CASE x > n
      <4>1. x \in (n + 1)..(n + e)
        BY <2>2, <3>1
      <4>2. f[x] = <<>>
        BY <4>1, UnrolledMeans
      <4>3. QED
        BY <2>2, <4>2
    <3>2. QED
      BY <2>2, <3>1
  <2>4. f[x] = <<item[x]>> \o f[x + step[x]] /\ x + step[x] \in (x + 1)..(n + e)
    BY <2>3, UnrolledMeans
  <2>5. f[x + step[x]] \in Seq(V)
    <3>1. x + step[x] \in 0..(n + e) /\ x + step[x] >= 1 /\ ~(x + step[x] <= x)
      BY <2>2, <2>4
    <3>2. QED
      BY <2>1, <3>1
  <2>6. <<item[x]>> \in Seq(V)
    BY <2>3
  <2> HIDE DEF Bad
  <2>7. QED
    BY <2>2, <2>4, <2>5, <2>6, ConcatProperties
<1>2. QED
  BY <1>1

-----------------------------------------------------------------------------
(* Sums *)

\* What is left to add from each place on.
IsTotal(f, s) ==
    /\ f \in [1..(Len(s) + 1) -> Nat]
    /\ f[Len(s) + 1] = 0
    /\ \A x \in 1..Len(s) : f[x] = s[x] + f[x + 1]
    /\ Total(s) = f[1]

LEMMA Totals ==
    ASSUME NEW s \in Seq(Nat)
    PROVE  \E f : IsTotal(f, s)
<1> DEFINE n == Len(s)
           S == 1..(n + 1)
           V == Nat
           Body(x, f) == IF x > n THEN 0 ELSE s[x] + f[x + 1]
           G == [p \in S \X [S -> V] |-> Body(p[1], p[2])]
           rank == [x \in S |-> n + 1 - x]
           Solves(f) == f = [x \in S |-> Body(x, f)]
<1>1. n \in Nat /\ \A x \in 1..n : s[x] \in Nat
  OBVIOUS
<1> HIDE DEF n
<1>2. rank \in [S -> 0..(n + 1)] /\ n + 1 \in Nat
  BY <1>1
<1>3. ASSUME NEW x \in S, ~(x > n)
      PROVE  x + 1 \in S /\ rank[x + 1] < rank[x] /\ x \in 1..n
  BY <1>1, <1>3
<1>4. ASSUME NEW x \in S, NEW f \in [S -> V]
      PROVE  Body(x, f) \in V
  <2>1. CASE x > n
    BY <2>1
  <2>2. CASE ~(x > n)
    <3>1. s[x] \in Nat /\ f[x + 1] \in Nat
      BY <1>1, <1>3, <2>2
    <3>2. QED
      BY <2>2, <3>1
  <2>3. QED
    BY <2>1, <2>2
<1>5. ASSUME NEW x \in S, NEW g \in [S -> V], NEW h \in [S -> V],
             \A y \in S : rank[y] < rank[x] => g[y] = h[y]
      PROVE  Body(x, g) = Body(x, h)
  <2>1. CASE x > n
    BY <2>1
  <2>2. CASE ~(x > n)
    BY <1>3, <1>5, <2>2
  <2>3. QED
    BY <2>1, <2>2
<1> HIDE DEF Body, rank, V
<1>6. G \in [S \X [S -> V] -> V]
  BY <1>4
<1>7. \A x \in S : \A g \in [S -> V] : G[<<x, g>>] = Body(x, g)
  OBVIOUS
<1>d. n + 1 \in S /\ 1 \in S /\ n + 1 > n /\ \A x \in 1..n : x \in S /\ ~(x > n)
  BY <1>1
<1> HIDE DEF G, S
<1>8. \A x \in S : \A g, h \in [S -> V] :
          (\A y \in S : rank[y] < rank[x] => g[y] = h[y]) => G[<<x, g>>] = G[<<x, h>>]
  BY <1>5, <1>7
<1>9. PICK f \in [S -> V] : \A x \in S : f[x] = G[<<x, f>>]
  <2>1. WellRanked(S, V, n + 1, rank, G)
    BY <1>2, <1>6, <1>8 DEF WellRanked
  <2>2. 0 \in V
    BY DEF V
  <2>3. Solvable(S, V, G)
    BY <2>1, <2>2, Recursion
  <2>4. QED
    BY <2>3 DEF Solvable
<1>10. Solves(f)
  BY <1>7, <1>9
<1> DEFINE g == CHOOSE g : Solves(g)
<1>11. Solves(g) /\ Total(s) = g[1]
  <2>1. Solves(g)
    BY <1>10
  <2>2. Total(s) = g[1]
    BY DEF Total, n, S, Body
  <2>3. QED
    BY <2>1, <2>2
<1> HIDE DEF g
<1>12. \A x \in S : g[x] = Body(x, g)
  BY <1>11
<1>13. g[n + 1] = 0 /\ \A x \in 1..n : g[x] = s[x] + g[x + 1]
  BY <1>12, <1>d DEF Body
<1>14. g \in [S -> Nat]
  <2>1. DOMAIN g = S /\ g = [x \in S |-> g[x]]
    BY <1>11
  <2> DEFINE Bad == {x \in 0..(n + 1) : x >= 1 /\ g[x] \notin Nat}
  <2>2. Bad = {}
    <3> SUFFICES ASSUME Bad # {}
                 PROVE  FALSE
      OBVIOUS
    <3>1. PICK x \in Bad : \A y \in Bad : y <= x
      <4>1. n + 1 \in Nat /\ Bad \in SUBSET (0..(n + 1))
        BY <1>1
      <4> HIDE DEF Bad
      <4>2. QED
        BY <4>1, GreatestOf
    <3>2. x \in 1..n /\ x + 1 \in 0..(n + 1) /\ x + 1 >= 1 /\ ~(x + 1 <= x)
      BY <1>1, <1>13, <3>1
    <3>3. g[x + 1] \in Nat
      BY <3>1, <3>2
    <3>4. s[x] \in Nat /\ g[x] = s[x] + g[x + 1]
      BY <1>1, <1>13, <3>2
    <3>5. g[x] \in Nat
      BY <3>3, <3>4
    <3>6. QED
      BY <3>5
  <2>3. \A x \in S : x \in 0..(n + 1) /\ x >= 1
    BY <1>1 DEF S
  <2> HIDE DEF S
  <2>4. QED
    BY <2>1, <2>2, <2>3
<1>15. QED
  BY <1>11, <1>13, <1>14 DEF IsTotal, S, n

-----------------------------------------------------------------------------
(* UTF-8 *)

Decodes(f, bytes) ==
    Unrolled(f, Len(bytes), 4, [x \in 1..Len(bytes) |-> Utf8Point(bytes, x)],
             [x \in 1..Len(bytes) |-> Utf8Length(bytes[x])])

LEMMA Decoding ==
    ASSUME NEW bytes, Len(bytes) \in Nat
    PROVE  \E f : Decodes(f, bytes) /\ FromUtf8(bytes) = f[1]
<1> DEFINE n == Len(bytes)
           item == [x \in 1..n |-> Utf8Point(bytes, x)]
           step == [x \in 1..n |-> Utf8Length(bytes[x])]
           Body(x, f) == IF x > n THEN <<>> ELSE <<Utf8Point(bytes, x)>> \o f[x + Utf8Length(bytes[x])]
           Solves(f) == f = [x \in 1..(n + 4) |-> Body(x, f)]
<1>1. step \in [1..n -> 1..4] /\ n \in Nat /\ 4 \in Nat \ {0}
  BY DEF Utf8Length
<1>2. \A x \in 1..(n + 4) : \A f :
          Body(x, f) = IF x > n THEN <<>> ELSE <<item[x]>> \o f[x + step[x]]
  <2> TAKE x \in 1..(n + 4)
  <2> TAKE f
  <2>1. ~(x > n) => item[x] = Utf8Point(bytes, x) /\ step[x] = Utf8Length(bytes[x])
    BY <1>1
  <2> HIDE DEF item, step
  <2>2. QED
    BY <2>1
<1> HIDE DEF Body
<1>3. \A f : Unrolled(f, n, 4, item, step) <=> Solves(f)
  BY <1>2 DEF Unrolled
<1>4. \E f : Solves(f)
  BY <1>1, <1>3, Unrolling
<1> DEFINE g == CHOOSE g : Solves(g)
<1>5. Solves(g)
  BY <1>4
<1>6. FromUtf8(bytes) = g[1]
  BY DEF FromUtf8, Body
<1> HIDE DEF g
<1>7. QED
  BY <1>3, <1>5, <1>6 DEF Decodes

\* Place by place.
LEMMA DecodesMeans ==
    ASSUME NEW bytes, Len(bytes) \in Nat, NEW f, Decodes(f, bytes)
    PROVE  /\ \A x \in (Len(bytes) + 1)..(Len(bytes) + 4) : f[x] = <<>>
           /\ \A x \in 1..Len(bytes) :
                  /\ f[x] = <<Utf8Point(bytes, x)>> \o f[x + Utf8Length(bytes[x])]
                  /\ x + Utf8Length(bytes[x]) \in (x + 1)..(Len(bytes) + 4)
<1> DEFINE n == Len(bytes)
           item == [x \in 1..n |-> Utf8Point(bytes, x)]
           step == [x \in 1..n |-> Utf8Length(bytes[x])]
<1>1. step \in [1..n -> 1..4] /\ n \in Nat /\ 4 \in Nat \ {0}
  BY DEF Utf8Length
<1>2. Unrolled(f, n, 4, item, step)
  BY DEF Decodes
<1>3. \A x \in 1..n : item[x] = Utf8Point(bytes, x) /\ step[x] = Utf8Length(bytes[x])
  OBVIOUS
<1> HIDE DEF item, step, n
<1>4. /\ \A x \in (n + 1)..(n + 4) : f[x] = <<>>
      /\ \A x \in 1..n : /\ f[x] = <<item[x]>> \o f[x + step[x]]
                         /\ x + step[x] \in (x + 1)..(n + 4)
  BY <1>1, <1>2, UnrolledMeans
<1>5. QED
  BY <1>3, <1>4 DEF n

\* A code point of Unicode, and bytes that stand at a place of others.
Unicode(c) == c \in Nat /\ c < 1114112
StandsAt(piece, bytes, x) == \A y \in 0..(Len(piece) - 1) : bytes[x + y] = piece[y + 1]

\* The bytes of a code point are bytes; those of a UTF-16 code unit are at most three.
LEMMA EncodedType ==
    ASSUME NEW c, Unicode(c)
    PROVE  /\ Encoded(c) \in Seq(0..255) /\ Len(Encoded(c)) \in 1..4
           /\ c < 65536 => Len(Encoded(c)) <= 3
<1> DEFINE one == 128 + ((c \div 1) % 64)
           two == 128 + ((c \div 64) % 64)
           three == 128 + ((c \div 4096) % 64)
<1>0. c \in Nat /\ c < 1114112
  BY SMT DEF Unicode
<1>1. one \in 0..255 /\ two \in 0..255 /\ three \in 0..255
  BY <1>0, SMT
<1>2. CASE c < 128
  <2>1. Encoded(c) = <<c>> /\ c \in 0..255
    BY <1>0, <1>2, SMT DEF Encoded
  <2>2. QED
    BY <2>1, SMT
<1>3. CASE c >= 128 /\ c < 2048
  <2> DEFINE first == 192 + c \div 64
  <2>1. Encoded(c) = <<first, one>>
    BY <1>0, <1>3, SMT DEF Encoded
  <2>2. first \in 0..255
    BY <1>0, <1>3, SMT
  <2> HIDE DEF first, one
  <2>3. QED
    BY <1>1, <2>1, <2>2, SMT
<1>4. CASE c >= 2048 /\ c < 65536
  <2> DEFINE first == 224 + c \div 4096
  <2>1. Encoded(c) = <<first, two, one>>
    BY <1>0, <1>4, SMT DEF Encoded
  <2>2. first \in 0..255
    BY <1>0, <1>4, SMT
  <2> HIDE DEF first, one, two
  <2>3. QED
    BY <1>1, <2>1, <2>2, SMT
<1>5. CASE c >= 65536
  <2> DEFINE first == 240 + c \div 262144
  <2>1. Encoded(c) = <<first, three, two, one>>
    BY <1>0, <1>5, SMT DEF Encoded
  <2>2. first \in 0..255
    BY <1>0, <1>5, SMT
  <2> HIDE DEF first, one, two, three
  <2>3. QED
    BY <1>0, <1>1, <1>5, <2>1, <2>2, SMT
<1>6. QED
  BY <1>0, <1>2, <1>3, <1>4, <1>5, SMT

\* What has been encoded, wherever it stands, is decoded to the same code point.
LEMMA EncodedPoint ==
    ASSUME NEW c, Unicode(c), NEW bytes, NEW x \in Nat, StandsAt(Encoded(c), bytes, x)
    PROVE  Utf8Length(bytes[x]) = Len(Encoded(c)) /\ Utf8Point(bytes, x) = c
<1> DEFINE one == 128 + ((c \div 1) % 64)
           two == 128 + ((c \div 64) % 64)
           three == 128 + ((c \div 4096) % 64)
<1>0. c \in Nat /\ c < 1114112
  BY SMT DEF Unicode
<1>1. CASE c < 128
  <2>1. Encoded(c) = <<c>>
    BY <1>0, <1>1, SMT DEF Encoded
  <2>2. bytes[x] = c
    BY <2>1, SMT DEF StandsAt
  <2>3. QED
    BY <1>0, <1>1, <2>1, <2>2, SMT DEF Utf8Length, Utf8Point
<1>2. CASE c >= 128 /\ c < 2048
  <2>1. Encoded(c) = <<192 + c \div 64, one>>
    BY <1>0, <1>2, SMT DEF Encoded
  <2>2. bytes[x] = 192 + c \div 64 /\ bytes[x + 1] = one
    BY <2>1, SMT DEF StandsAt
  <2>3. 192 + c \div 64 \in 192..223 /\ ((192 + c \div 64) - 192) * 64 + (one - 128) = c
    BY <1>0, <1>2, SMT
  <2>4. Utf8Length(bytes[x]) = 2
    BY <2>2, <2>3, SMT DEF Utf8Length
  <2> HIDE DEF one
  <2>5. QED
    BY <2>1, <2>2, <2>3, <2>4, SMT DEF Utf8Point
<1>3. CASE c >= 2048 /\ c < 65536
  <2>1. Encoded(c) = <<224 + c \div 4096, two, one>>
    BY <1>0, <1>3, SMT DEF Encoded
  <2>2. bytes[x] = 224 + c \div 4096 /\ bytes[x + 1] = two /\ bytes[x + 2] = one
    BY <2>1, SMT DEF StandsAt
  <2>3. 224 + c \div 4096 \in 224..239
        /\ (((224 + c \div 4096) - 224) * 64 + (two - 128)) * 64 + (one - 128) = c
    BY <1>0, <1>3, SMT
  <2>4. Utf8Length(bytes[x]) = 3
    BY <2>2, <2>3, SMT DEF Utf8Length
  <2> HIDE DEF one, two
  <2>5. QED
    BY <2>1, <2>2, <2>3, <2>4, SMT DEF Utf8Point
<1>4. CASE c >= 65536
  <2>1. Encoded(c) = <<240 + c \div 262144, three, two, one>>
    BY <1>0, <1>4, SMT DEF Encoded
  <2>2. /\ bytes[x] = 240 + c \div 262144 /\ bytes[x + 1] = three
        /\ bytes[x + 2] = two /\ bytes[x + 3] = one
    BY <2>1, SMT DEF StandsAt
  <2>3. 240 + c \div 262144 \in 240..244
        /\ ((((240 + c \div 262144) - 240) * 64 + (three - 128)) * 64 + (two - 128)) * 64 + (one - 128) = c
    BY <1>0, <1>4, SMT
  <2>4. Utf8Length(bytes[x]) = 4
    BY <2>2, <2>3, SMT DEF Utf8Length
  <2> HIDE DEF one, two, three
  <2>5. QED
    BY <2>1, <2>2, <2>3, <2>4, SMT DEF Utf8Point
<1>5. QED
  BY <1>0, <1>1, <1>2, <1>3, <1>4, SMT

-----------------------------------------------------------------------------
(* What is written between the quotes *)

\* points is what the units mean from each place on.
Point(units, x) ==
    IF x \in Surrogates(units, High)
    THEN 65536 + (units[x].code - 55296) * 1024 + (units[x + 1].code - 56320)
    ELSE Code(units[x])
Wide(units, x) == IF x \in Surrogates(units, High) THEN 2 ELSE 1
Means(points, units) ==
    Unrolled(points, Len(units), 2, [x \in 1..Len(units) |-> Point(units, x)],
             [x \in 1..Len(units) |-> Wide(units, x)])

LEMMA Meaning ==
    ASSUME NEW units, Len(units) \in Nat
    PROVE  \E f : Means(f, units) /\ CodePoints(units) = f[1]
<1> DEFINE n == Len(units)
           item == [x \in 1..n |-> Point(units, x)]
           step == [x \in 1..n |-> Wide(units, x)]
           Body(x, f) ==
               IF x > n THEN <<>>
               ELSE IF x \in Surrogates(units, High)
               THEN <<65536 + (units[x].code - 55296) * 1024 + (units[x + 1].code - 56320)>> \o f[x + 2]
               ELSE <<Code(units[x])>> \o f[x + 1]
           Solves(f) == f = [x \in 1..(n + 2) |-> Body(x, f)]
<1>1. step \in [1..n -> 1..2] /\ n \in Nat /\ 2 \in Nat \ {0}
  BY DEF Wide
<1>2. ASSUME NEW x \in 1..(n + 2), NEW f
      PROVE  Body(x, f) = IF x > n THEN <<>> ELSE <<item[x]>> \o f[x + step[x]]
  <2>1. CASE x > n
    BY <2>1
  <2>2. CASE ~(x > n)
    <3>1. x \in 1..n /\ item[x] = Point(units, x) /\ step[x] = Wide(units, x)
      BY <1>1, <2>2
    <3>2. Body(x, f) = <<Point(units, x)>> \o f[x + Wide(units, x)]
      <4> DEFINE pair == 65536 + (units[x].code - 55296) * 1024 + (units[x + 1].code - 56320)
      <4>1. CASE x \in Surrogates(units, High)
        <5>1. Point(units, x) = pair /\ Wide(units, x) = 2
          BY <4>1, SMT DEF Point, Wide
        <5> HIDE DEF pair
        <5>2. Body(x, f) = <<pair>> \o f[x + 2]
          BY <2>2, <4>1, SMT DEF pair
        <5> HIDE DEF Body
        <5>3. QED
          BY <5>1, <5>2
      <4>2. CASE x \notin Surrogates(units, High)
        <5>1. Point(units, x) = Code(units[x]) /\ Wide(units, x) = 1
          BY <4>2, SMT DEF Point, Wide
        <5>2. Body(x, f) = <<Code(units[x])>> \o f[x + 1]
          BY <2>2, <4>2, SMT
        <5> HIDE DEF Body
        <5>3. QED
          BY <5>1, <5>2
      <4> HIDE DEF Body, pair
      <4>3. QED
        BY <4>1, <4>2
    <3> HIDE DEF Body, item, step
    <3>3. QED
      BY <2>2, <3>1, <3>2
  <2> HIDE DEF Body
  <2>3. QED
    BY <2>1, <2>2
<1> HIDE DEF Body
<1>3. \A f : Unrolled(f, n, 2, item, step) <=> Solves(f)
  BY <1>2 DEF Unrolled
<1>4. \E f : Solves(f)
  BY <1>1, <1>3, Unrolling
<1> DEFINE g == CHOOSE g : Solves(g)
<1>5. Solves(g)
  BY <1>4
<1>6. CodePoints(units) = g[1]
  BY DEF CodePoints, Body
<1> HIDE DEF g
<1>7. QED
  BY <1>3, <1>5, <1>6 DEF Means

LEMMA MeansSteps ==
    ASSUME NEW units, Len(units) \in Nat, NEW f, Means(f, units)
    PROVE  /\ f[Len(units) + 1] = <<>>
           /\ \A x \in 1..Len(units) : f[x] = <<Point(units, x)>> \o f[x + Wide(units, x)]
<1> DEFINE n == Len(units)
           item == [x \in 1..n |-> Point(units, x)]
           step == [x \in 1..n |-> Wide(units, x)]
<1>1. step \in [1..n -> 1..2] /\ n \in Nat /\ 2 \in Nat \ {0} /\ n + 1 \in (n + 1)..(n + 2)
  BY DEF Wide
<1>2. Unrolled(f, n, 2, item, step)
  BY DEF Means
<1>3. \A x \in 1..n : item[x] = Point(units, x) /\ step[x] = Wide(units, x)
  OBVIOUS
<1> HIDE DEF item, step, n
<1>4. /\ \A x \in (n + 1)..(n + 2) : f[x] = <<>>
      /\ \A x \in 1..n : /\ f[x] = <<item[x]>> \o f[x + step[x]]
                         /\ x + step[x] \in (x + 1)..(n + 2)
  BY <1>1, <1>2, UnrolledMeans
<1>5. QED
  BY <1>1, <1>3, <1>4 DEF n

-----------------------------------------------------------------------------
(* Reading a string *)

\* The unit at x: whether it can be read, its bytes, and how many units they take.
Plain(units, x) == units[x].kind \in {"char", "escape", "lone"}
Readable(units, x) == Plain(units, x) \/ (units[x].kind # "bad" /\ utf16_literal_to_utf8(units, x).ok)
Piece(units, x) == IF Plain(units, x) THEN <<units[x].code>> ELSE utf16_literal_to_utf8(units, x).bytes
Taken(units, x) == IF Plain(units, x) THEN 1 ELSE utf16_literal_to_utf8(units, x).count

\* A unit is of one of the kinds, with the codes and the characters of that kind.
LEMMA UnitKinds ==
    ASSUME NEW u \in Units
    PROVE  /\ u.kind \in {"char", "escape", "lone", "u", "z", "bad", "cut"}
           /\ u.code \in Nat /\ u.code < 65536
           /\ u.kind \in {"char", "escape", "lone"} => u.code \in 0..255
           /\ u.kind \in {"escape", "lone"} => u.code < 128
           /\ u.kind \in {"z", "bad", "cut"} => u.code = 0
           /\ u.kind = "char" => u.code # Backslash
           /\ u.kind = "escape" => u.code \in Escapable
           /\ u.kind = "z" => u.rest \in Rests(4)
           /\ u.kind = "bad" => u.rest = <<>>
           /\ u.kind = "cut" => \E n \in 0..3 : u.rest \in Rests(n)
<1>1. \A c \in CodeUnits : c \in Nat /\ c < 65536
  BY SMT DEF CodeUnits
<1>2. \A c \in Escapable : c \in 0..255 /\ c < 128
  BY SMT DEF Escapable, Letters, Quote, Backslash
<1>3. \A c \in 0..255 : c \in Nat /\ c < 65536
  BY SMT
<1>4. 0 \in Nat /\ 0 < 65536 /\ Quote \in 0..255 /\ Quote < 128
  BY SMT DEF Quote
<1>5. \A kind, code : /\ Unit(kind, code).kind = kind /\ Unit(kind, code).code = code
                      /\ Unit(kind, code).rest = <<>>
  BY DEF Unit
<1>6. \A kind, rest : /\ UnitOf(kind, rest).kind = kind /\ UnitOf(kind, rest).code = 0
                      /\ UnitOf(kind, rest).rest = rest
  BY DEF UnitOf
<1>7. ASSUME NEW byte \in 0..255 \ {Backslash}, u = Unit("char", byte)
      PROVE  u.kind = "char" /\ u.code \in 0..255 /\ u.code # Backslash
  BY <1>5, <1>7
<1>8. ASSUME NEW byte \in Escapable, u = Unit("escape", byte)
      PROVE  u.kind = "escape" /\ u.code \in Escapable
  BY <1>5, <1>8
<1>9. ASSUME NEW code \in CodeUnits, u = Unit("u", code)
      PROVE  u.kind = "u" /\ u.code \in CodeUnits
  BY <1>5, <1>9
<1>10. ASSUME NEW rest \in Rests(4), u = UnitOf("z", rest)
       PROVE  u.kind = "z" /\ u.code = 0 /\ u.rest \in Rests(4)
  BY <1>6, <1>10
<1>11. ASSUME NEW n \in 0..3, NEW rest \in Rests(n), u = UnitOf("cut", rest)
       PROVE  u.kind = "cut" /\ u.code = 0 /\ \E m \in 0..3 : u.rest \in Rests(m)
  BY <1>6, <1>11
<1>12. \/ u.kind = "char" /\ u.code \in 0..255 /\ u.code # Backslash
       \/ u.kind = "escape" /\ u.code \in Escapable
       \/ u.kind = "u" /\ u.code \in CodeUnits
       \/ u.kind = "z" /\ u.code = 0 /\ u.rest \in Rests(4)
       \/ u.kind = "cut" /\ u.code = 0 /\ \E m \in 0..3 : u.rest \in Rests(m)
       \/ u.kind = "bad" /\ u.code = 0 /\ u.rest = <<>>
       \/ u.kind = "lone" /\ u.code = Quote
  <2>1. \/ \E byte \in 0..255 \ {Backslash} : u = Unit("char", byte)
        \/ \E byte \in Escapable : u = Unit("escape", byte)
        \/ \E code \in CodeUnits : u = Unit("u", code)
        \/ \E rest \in Rests(4) : u = UnitOf("z", rest)
        \/ \E n \in 0..3 : \E rest \in Rests(n) : u = UnitOf("cut", rest)
        \/ u = Unit("bad", 0) \/ u = Unit("lone", Quote)
    BY Zenon DEF Units
  <2>2. CASE \E byte \in 0..255 \ {Backslash} : u = Unit("char", byte)
    BY <1>7, <2>2
  <2>3. CASE \E byte \in Escapable : u = Unit("escape", byte)
    BY <1>8, <2>3
  <2>4. CASE \E code \in CodeUnits : u = Unit("u", code)
    BY <1>9, <2>4
  <2>5. CASE \E rest \in Rests(4) : u = UnitOf("z", rest)
    BY <1>10, <2>5
  <2>6. CASE \E n \in 0..3 : \E rest \in Rests(n) : u = UnitOf("cut", rest)
    BY <1>11, <2>6
  <2>7. CASE u = Unit("bad", 0) \/ u = Unit("lone", Quote)
    BY <1>5, <2>7
  <2>8. QED
    BY <2>1, <2>2, <2>3, <2>4, <2>5, <2>6, <2>7
<1>13. CASE u.kind = "char" /\ u.code \in 0..255 /\ u.code # Backslash
  BY <1>3, <1>13
<1>14. CASE u.kind = "escape" /\ u.code \in Escapable
  BY <1>2, <1>3, <1>14
<1>15. CASE u.kind = "u" /\ u.code \in CodeUnits
  BY <1>1, <1>15
<1>16. CASE u.kind = "z" /\ u.code = 0 /\ u.rest \in Rests(4)
  BY <1>4, <1>16
<1>17. CASE u.kind = "cut" /\ u.code = 0 /\ \E m \in 0..3 : u.rest \in Rests(m)
  BY <1>4, <1>17
<1>18. CASE u.kind = "bad" /\ u.code = 0 /\ u.rest = <<>>
  BY <1>4, <1>18
<1>19. CASE u.kind = "lone" /\ u.code = Quote
  BY <1>3, <1>4, <1>19
<1>20. QED
  BY <1>12, <1>13, <1>14, <1>15, <1>16, <1>17, <1>18, <1>19

\* What the unit at x, with the one after it, gives when it is a \u.
Scalar(units, x) ==
    LET first == parse_hex4(units[x])
        second == IF x < Len(units) THEN parse_hex4(units[x + 1]) ELSE 0
    IN  IF first \in High THEN 65536 + (first % 1024) * 1024 + (second % 1024) ELSE first

\* A scalar is a code point of Unicode, below 65536 unless it is of a pair.
LEMMA Scalars ==
    ASSUME NEW units \in Seq(Units), NEW x \in 1..Len(units)
    PROVE  /\ Unicode(Scalar(units, x))
           /\ parse_hex4(units[x]) \notin High => Scalar(units, x) < 65536
<1>1. units[x] \in Units /\ (x < Len(units) => units[x + 1] \in Units)
  OBVIOUS
<1>2. /\ units[x].code \in Nat /\ units[x].code < 65536
      /\ x < Len(units) => units[x + 1].code \in Nat /\ units[x + 1].code < 65536
  BY <1>1, UnitKinds
<1> DEFINE first == parse_hex4(units[x])
           second == IF x < Len(units) THEN parse_hex4(units[x + 1]) ELSE 0
<1>3. first \in Nat /\ first < 65536 /\ second \in Nat
  BY <1>2, SMT DEF parse_hex4
<1>4. Scalar(units, x) = IF first \in High THEN 65536 + (first % 1024) * 1024 + (second % 1024) ELSE first
  BY SMT DEF Scalar
<1> HIDE DEF first, second
<1>5. first % 1024 \in 0..1023 /\ second % 1024 \in 0..1023
  BY <1>3, SMT
<1>6. Unicode(Scalar(units, x)) /\ (first \notin High => Scalar(units, x) < 65536)
  <2> DEFINE i == first % 1024
             j == second % 1024
  <2>1. i \in 0..1023 /\ j \in 0..1023
    BY <1>5
  <2> HIDE DEF i, j
  <2>2. Unicode(65536 + i * 1024 + j)
    BY <2>1, SMT DEF Unicode
  <2>3. CASE first \in High
    BY <1>4, <2>2, <2>3, SMT DEF i, j
  <2>4. CASE first \notin High
    BY <1>3, <1>4, <2>4, SMT DEF Unicode
  <2>5. QED
    BY <2>3, <2>4, SMT
<1>7. QED
  BY <1>6, SMT DEF first

\* A \u is read when it is not cut, nor the second half of a pair; and the
\* first half of one only before the second.
LEMMA Literals ==
    ASSUME NEW units, NEW x
    PROVE  LET literal == utf16_literal_to_utf8(units, x)
               pair == parse_hex4(units[x]) \in High
           IN  /\ literal.ok <=> /\ units[x].kind # "cut" /\ parse_hex4(units[x]) \notin Low
                                 /\ pair => /\ x < Len(units) /\ units[x + 1].kind \in {"u", "z"}
                                            /\ parse_hex4(units[x + 1]) \in Low
               /\ literal.ok \in BOOLEAN
               /\ literal.count = IF pair THEN 2 ELSE 1
               /\ literal.bytes = Encoded(Scalar(units, x))
  BY DEF utf16_literal_to_utf8, Scalar

LEMMA UnitBytes ==
    ASSUME NEW units \in Seq(Units), NEW x \in 1..Len(units)
    PROVE  /\ Readable(units, x) \in BOOLEAN
           /\ Taken(units, x) \in 1..2
           /\ Readable(units, x) => x + Taken(units, x) \in (x + 1)..(Len(units) + 1)
           /\ Piece(units, x) \in Seq(0..255)
           /\ Len(Piece(units, x)) \in 1..4
           /\ Plain(units, x) => Len(Piece(units, x)) = 1
           /\ Taken(units, x) = 1 => Len(Piece(units, x)) <= 3
<1>1. units[x] \in Units /\ Len(units) \in Nat
  OBVIOUS
<1>2. CASE Plain(units, x)
  <2>1. units[x].code \in 0..255
    BY <1>1, <1>2, UnitKinds DEF Plain
  <2>2. Readable(units, x) = TRUE /\ Piece(units, x) = <<units[x].code>> /\ Taken(units, x) = 1
    BY <1>2 DEF Readable, Piece, Taken
  <2>3. QED
    BY <2>1, <2>2, <1>1, <1>2
<1>3. CASE ~Plain(units, x)
  <2> DEFINE literal == utf16_literal_to_utf8(units, x)
  <2>1. /\ Readable(units, x) <=> units[x].kind # "bad" /\ literal.ok
        /\ Readable(units, x) \in BOOLEAN
        /\ Piece(units, x) = literal.bytes /\ Taken(units, x) = literal.count
    BY <1>3 DEF Readable, Piece, Taken
  <2>2. /\ literal.ok => (parse_hex4(units[x]) \in High => x < Len(units))
        /\ literal.count = IF parse_hex4(units[x]) \in High THEN 2 ELSE 1
        /\ literal.bytes = Encoded(Scalar(units, x))
    BY Literals
  <2> HIDE DEF literal
  <2> DEFINE c == Scalar(units, x)
  <2>3. Unicode(c) /\ (parse_hex4(units[x]) \notin High => c < 65536)
    BY Scalars
  <2> HIDE DEF c
  <2>4. /\ Encoded(c) \in Seq(0..255) /\ Len(Encoded(c)) \in 1..4
        /\ parse_hex4(units[x]) \notin High => Len(Encoded(c)) <= 3
    BY <2>3, EncodedType
  <2>5. QED
    BY <1>1, <1>3, <2>1, <2>2, <2>4 DEF c
<1>4. QED
  BY <1>2, <1>3

\* What parse_string reads from each place on.
Reads(r, units) ==
    /\ r \in [1..(Len(units) + 1) -> [ok : BOOLEAN, bytes : Seq(0..255)]]
    /\ r[Len(units) + 1] = [ok |-> TRUE, bytes |-> <<>>]
    /\ \A x \in 1..Len(units) :
           IF Readable(units, x)
           THEN /\ r[x].ok = r[x + Taken(units, x)].ok
                /\ r[x].bytes = Piece(units, x) \o r[x + Taken(units, x)].bytes
           ELSE r[x].ok = FALSE /\ r[x].bytes = <<>>
    /\ parse_string(units).ok = r[1].ok /\ parse_string(units).bytes = r[1].bytes

LEMMA Reading ==
    ASSUME NEW units \in Seq(Units)
    PROVE  \E r : Reads(r, units)
<1> DEFINE n == Len(units)
           S == 1..(n + 1)
           V == [ok : BOOLEAN, bytes : Seq(0..255)]
           Then(bytes, rest) == [ok |-> rest.ok, bytes |-> bytes \o rest.bytes]
           Failed == [ok |-> FALSE, bytes |-> <<>>]
           Empty == [ok |-> TRUE, bytes |-> <<>>]
           Code_(x, r) ==
               IF x > n THEN [ok |-> TRUE, bytes |-> <<>>]
               ELSE IF units[x].kind \in {"char", "escape", "lone"} THEN Then(<<units[x].code>>, r[x + 1])
               ELSE LET literal == utf16_literal_to_utf8(units, x)
                    IN  IF units[x].kind # "bad" /\ literal.ok
                        THEN Then(literal.bytes, r[x + literal.count])
                        ELSE [ok |-> FALSE, bytes |-> <<>>]
           Body(x, r) ==
               IF x > n THEN Empty
               ELSE IF Readable(units, x) THEN Then(Piece(units, x), r[x + Taken(units, x)])
               ELSE Failed
           G == [p \in S \X [S -> V] |-> Body(p[1], p[2])]
           rank == [x \in S |-> n + 1 - x]
           Solves(f) == f = [x \in S |-> Body(x, f)]
<1>0. \A x, r : Code_(x, r) = Body(x, r)
  <2> SUFFICES ASSUME NEW x, NEW r
               PROVE  Code_(x, r) = Body(x, r)
    OBVIOUS
  <2> HIDE DEF Then
  <2>1. QED
    BY DEF Readable, Piece, Taken, Plain
<1>1. n \in Nat /\ \A x \in 1..n : x \in S /\ ~(x > n)
  OBVIOUS
<1>2. rank \in [S -> 0..(n + 1)] /\ n + 1 \in Nat
  BY <1>1
<1>3. ASSUME NEW x \in S, ~(x > n), Readable(units, x)
      PROVE  x + Taken(units, x) \in S /\ rank[x + Taken(units, x)] < rank[x]
  <2>1. x \in 1..n /\ x + Taken(units, x) \in (x + 1)..(n + 1)
    BY <1>3, UnitBytes
  <2> HIDE DEF n
  <2>2. QED
    BY <1>1, <2>1
<1>t. ASSUME NEW s \in Seq(0..255), NEW v \in V
      PROVE  Then(s, v) \in V
  OBVIOUS
<1>e. Empty \in V /\ Failed \in V
  OBVIOUS
<1>f. \A x \in S : ~(x > n) => Piece(units, x) \in Seq(0..255)
  <2>1. \A x \in S : ~(x > n) => x \in 1..Len(units)
    OBVIOUS
  <2>2. QED
    BY <2>1, UnitBytes
<1> HIDE DEF V, Then, Empty, Failed
<1>4. ASSUME NEW x \in S, NEW f \in [S -> V]
      PROVE  Body(x, f) \in V
  BY <1>t, <1>e, <1>f, <1>3
<1>5. ASSUME NEW x \in S, NEW g \in [S -> V], NEW h \in [S -> V],
             \A y \in S : rank[y] < rank[x] => g[y] = h[y]
      PROVE  Body(x, g) = Body(x, h)
  BY <1>3, <1>5
<1> HIDE DEF Code_, Body, rank, n
<1>6. G \in [S \X [S -> V] -> V]
  BY <1>4
<1>7. \A x \in S : \A g \in [S -> V] : G[<<x, g>>] = Body(x, g)
  OBVIOUS
<1>d. n + 1 \in S /\ 1 \in S /\ n + 1 > n
  BY <1>1
<1> HIDE DEF G, S
<1>8. \A x \in S : \A g, h \in [S -> V] :
          (\A y \in S : rank[y] < rank[x] => g[y] = h[y]) => G[<<x, g>>] = G[<<x, h>>]
  BY <1>5, <1>7
<1>9. PICK f \in [S -> V] : \A x \in S : f[x] = G[<<x, f>>]
  <2>1. WellRanked(S, V, n + 1, rank, G)
    BY <1>2, <1>6, <1>8 DEF WellRanked
  <2>3. Solvable(S, V, G)
    BY <1>e, <2>1, Recursion
  <2>4. QED
    BY <2>3 DEF Solvable
<1>10. Solves(f)
  BY <1>7, <1>9
<1> DEFINE g == CHOOSE g : g = [x \in S |-> Code_(x, g)]
<1>11. Solves(g) /\ parse_string(units).ok = g[1].ok /\ parse_string(units).bytes = g[1].bytes
  <2>1. \A h : Solves(h) <=> h = [x \in S |-> Code_(x, h)]
    BY <1>0
  <2>2. Solves(g)
    BY <1>10, <2>1
  <2>3. parse_string(units).ok = g[1].ok /\ parse_string(units).bytes = g[1].bytes
    BY DEF parse_string, n, S, Code_, Then
  <2>4. QED
    BY <2>2, <2>3
<1> HIDE DEF g
<1>12. \A x \in S : g[x] = Body(x, g)
  BY <1>11
<1>13. /\ g[n + 1] = Empty
       /\ \A x \in 1..n : g[x] = IF Readable(units, x) THEN Then(Piece(units, x), g[x + Taken(units, x)])
                                 ELSE Failed
  BY <1>1, <1>12, <1>d DEF Body
<1>14. g \in [S -> V]
  <2>1. DOMAIN g = S /\ g = [x \in S |-> g[x]]
    BY <1>11
  <2> DEFINE Bad == {x \in 0..(n + 1) : x >= 1 /\ g[x] \notin V}
  <2>2. Bad = {}
    <3> SUFFICES ASSUME Bad # {}
                 PROVE  FALSE
      OBVIOUS
    <3>1. PICK x \in Bad : \A y \in Bad : y <= x
      <4>1. n + 1 \in Nat /\ Bad \in SUBSET (0..(n + 1))
        BY <1>1
      <4> HIDE DEF Bad
      <4>2. QED
        BY <4>1, GreatestOf
    <3>2. x \in 1..n /\ x \in S /\ ~(x > n)
      BY <1>1, <1>13, <1>e, <3>1 DEF S
    <3>3. CASE Readable(units, x)
      <4>1. x + Taken(units, x) \in S
        BY <1>3, <3>2, <3>3
      <4>2. x + Taken(units, x) \in (x + 1)..(n + 1)
        BY <3>2, <3>3, UnitBytes DEF n
      <4>3. g[x + Taken(units, x)] \in V
        BY <3>1, <3>2, <4>2
      <4>4. Then(Piece(units, x), g[x + Taken(units, x)]) \in V
        BY <4>3, <1>t, <1>f, <3>2
      <4>5. QED
        BY <1>13, <3>1, <3>2, <3>3, <4>4
    <3>4. CASE ~Readable(units, x)
      BY <1>13, <1>e, <3>1, <3>2, <3>4
    <3>6. QED
      BY <3>3, <3>4
  <2>3. \A x \in S : x \in 0..(n + 1) /\ x >= 1
    BY <1>1 DEF S
  <2> HIDE DEF S
  <2>4. QED
    BY <2>1, <2>2, <2>3
<1>15. /\ g \in [1..(Len(units) + 1) -> [ok : BOOLEAN, bytes : Seq(0..255)]]
       /\ g[Len(units) + 1] = [ok |-> TRUE, bytes |-> <<>>]
  BY <1>13, <1>14 DEF S, n, V, Empty
<1>16. ASSUME NEW x \in 1..Len(units)
       PROVE  IF Readable(units, x)
              THEN /\ g[x].ok = g[x + Taken(units, x)].ok
                   /\ g[x].bytes = Piece(units, x) \o g[x + Taken(units, x)].bytes
              ELSE g[x].ok = FALSE /\ g[x].bytes = <<>>
  <2>1. g[x] = IF Readable(units, x) THEN Then(Piece(units, x), g[x + Taken(units, x)]) ELSE Failed
    BY <1>13 DEF n
  <2>2. CASE Readable(units, x)
    BY <2>1, <2>2 DEF Then
  <2>3. CASE ~Readable(units, x)
    BY <2>1, <2>3 DEF Failed
  <2>4. QED
    BY <2>2, <2>3
<1>17. QED
  BY <1>11, <1>15, <1>16 DEF Reads

-----------------------------------------------------------------------------
(* The first pass *)

\* How the units are spelled.
LEMMA Spelling ==
    ASSUME NEW u \in Units
    PROVE  /\ Width(u) \in 1..MaxWidth
           /\ u.kind = "char" => Width(u) = 1 /\ Spelled(u)[1] = u.code
           /\ u.kind = "lone" => Width(u) = 1
           /\ u.kind = "escape" =>
                  /\ Width(u) = 2 /\ Spelled(u)[1] = Backslash
                  /\ Spelled(u)[2] = IF u.code \in Letters THEN Letter ELSE u.code
           /\ u.kind = "u" => /\ Width(u) = 6 /\ Spelled(u)[1] = Backslash
                              /\ \A k \in 2..6 : Spelled(u)[k] = Letter
           /\ u.kind = "z" => Width(u) = 6
           /\ u.kind = "bad" => Width(u) = 2
<1>1. u.kind \in {"char", "escape", "lone", "u", "z", "bad", "cut"}
  BY UnitKinds
<1>2. CASE u.kind \in {"char", "lone"}
  BY <1>2 DEF Width, Spelled, MaxWidth
<1>3. CASE u.kind = "escape"
  BY <1>3 DEF Width, Spelled, MaxWidth
<1>4. CASE u.kind = "u"
  <2>1. Spelled(u) = <<Backslash, Letter, Letter, Letter, Letter, Letter>>
    BY <1>4 DEF Spelled
  <2>2. 2..6 = {2, 3, 4, 5, 6}
    OBVIOUS
  <2>3. QED
    BY <1>4, <2>1, <2>2 DEF Width, MaxWidth
<1>5. ASSUME NEW n \in Nat, n <= 4, u.rest \in Seq({Quote, Backslash, Letter}), Len(u.rest) = n,
             u.kind \in {"z", "bad", "cut"}
      PROVE  Width(u) = 2 + n /\ Width(u) \in 1..MaxWidth
  <2>1. Spelled(u) = <<Backslash, Letter>> \o u.rest
    BY <1>5 DEF Spelled
  <2>2. QED
    BY <1>5, <2>1 DEF Width, MaxWidth
<1>6. ASSUME NEW n \in 0..4, u.rest \in Rests(n)
      PROVE  u.rest \in Seq({Quote, Backslash, Letter}) /\ Len(u.rest) = n /\ n \in Nat /\ n <= 4
  BY <1>6 DEF Rests
<1>7. CASE u.kind = "z"
  <2>1. u.rest \in Rests(4) /\ 4 \in 0..4
    BY <1>7, UnitKinds
  <2>2. Width(u) = 2 + 4 /\ Width(u) \in 1..MaxWidth
    BY <1>5, <1>6, <1>7, <2>1
  <2>3. QED
    BY <1>7, <2>2
<1>8. CASE u.kind = "bad"
  <2>1. u.rest = <<>>
    BY <1>8, UnitKinds
  <2>2. Width(u) = 2 + 0 /\ Width(u) \in 1..MaxWidth
    BY <1>5, <1>8, <2>1
  <2>3. QED
    BY <1>8, <2>2
<1>9. CASE u.kind = "cut"
  <2>1. PICK n \in 0..3 : u.rest \in Rests(n)
    BY <1>9, UnitKinds
  <2>2. n \in 0..4
    OBVIOUS
  <2>3. QED
    BY <1>5, <1>6, <1>9, <2>1, <2>2
<1>10. QED
  BY <1>1, <1>2, <1>3, <1>4, <1>7, <1>8, <1>9

\* The places of the characters, and which of them begin an escape.
PlacesOf(units) == (DOMAIN units) \X (1..MaxWidth)
IsAt(units, p, char) == p[2] <= Width(units[p[1]]) /\ Spelled(units[p[1]])[p[2]] = char
Previous(units, p) ==
    IF p[2] > 1 THEN <<p[1], p[2] - 1>> ELSE <<p[1] - 1, Width(units[p[1] - 1])>>
Scans(b, units) ==
    /\ \A p \in PlacesOf(units) :
           b[p] <=> IsAt(units, p, Backslash) /\ (p # <<1, 1>> => ~b[Previous(units, p)])
    /\ FirstPass(units).skipped =
           Total([x \in DOMAIN units |-> Cardinality({k \in 1..MaxWidth : b[<<x, k>>]})])
    /\ FirstPass(units).ends <=>
           /\ \A p \in PlacesOf(units) : IsAt(units, p, Quote) => p # <<1, 1>> /\ b[Previous(units, p)]
           /\ units # <<>> => ~b[<<Len(units), Width(Last(units))>>]

LEMMA Scanning ==
    ASSUME NEW units \in Seq(Units)
    PROVE  \E b : Scans(b, units)
<1> DEFINE n == Len(units)
           S == PlacesOf(units)
           Body(p, f) == IsAt(units, p, Backslash) /\ (p # <<1, 1>> => ~f[Previous(units, p)])
           G == [q \in S \X [S -> BOOLEAN] |-> Body(q[1], q[2])]
           rank == [p \in S |-> MaxWidth * p[1] + p[2]]
           Solves(f) == f = [p \in S |-> Body(p, f)]
<1>1. n \in Nat /\ DOMAIN units = 1..n /\ \A x \in 1..n : Width(units[x]) \in 1..6
  <2>1. \A x \in 1..n : units[x] \in Units
    OBVIOUS
  <2>2. QED
    BY <2>1, Spelling DEF MaxWidth
<1> HIDE DEF n
<1>2. S = (1..n) \X (1..6)
  BY <1>1 DEF PlacesOf, MaxWidth
<1>3. ASSUME NEW x \in 1..n, NEW k \in 1..6, <<x, k>> # <<1, 1>>
      PROVE  Previous(units, <<x, k>>) \in S
             /\ 6 * Previous(units, <<x, k>>)[1] + Previous(units, <<x, k>>)[2] < 6 * x + k
  <2>1. CASE k > 1
    BY <1>1, <1>2, <2>1 DEF Previous
  <2>2. CASE ~(k > 1)
    <3>1. k = 1 /\ x - 1 \in 1..n
      BY <1>1, <1>3, <2>2
    <3> DEFINE w == Width(units[x - 1])
    <3>2. w \in 1..6
      BY <1>1, <3>1
    <3>3. Previous(units, <<x, k>>) = <<x - 1, w>>
      BY <2>2 DEF Previous
    <3> HIDE DEF w
    <3>4. QED
      BY <1>1, <1>2, <3>1, <3>2, <3>3
  <2>3. QED
    BY <2>1, <2>2
<1>4. \A p \in S : \E x \in 1..n, k \in 1..6 : p = <<x, k>>
  BY <1>2
<1>5. ASSUME NEW p \in S, p # <<1, 1>>
      PROVE  Previous(units, p) \in S /\ rank[Previous(units, p)] < rank[p]
  <2>1. PICK x \in 1..n, k \in 1..6 : p = <<x, k>>
    BY <1>4
  <2>2. Previous(units, p) \in S /\ 6 * Previous(units, p)[1] + Previous(units, p)[2] < 6 * x + k
    BY <1>3, <1>5, <2>1
  <2>3. rank[p] = 6 * x + k /\ \A q \in S : rank[q] = 6 * q[1] + q[2]
    BY <2>1 DEF MaxWidth
  <2> HIDE DEF rank, S
  <2>4. QED
    BY <2>2, <2>3
<1>6. rank \in [S -> 0..(6 * n + 6)] /\ 6 * n + 6 \in Nat
  <2>1. ASSUME NEW p \in S
        PROVE  rank[p] \in 0..(6 * n + 6)
    <3>1. PICK x \in 1..n, k \in 1..6 : p = <<x, k>>
      BY <1>4
    <3>2. rank[p] = 6 * x + k
      BY <3>1 DEF MaxWidth
    <3> HIDE DEF rank, S
    <3>3. QED
      BY <1>1, <3>2
  <2>2. QED
    BY <1>1, <2>1
<1>7. \A p, f : Body(p, f) \in BOOLEAN
  OBVIOUS
<1>8. ASSUME NEW p \in S, NEW g \in [S -> BOOLEAN], NEW h \in [S -> BOOLEAN],
             \A q \in S : rank[q] < rank[p] => g[q] = h[q]
      PROVE  Body(p, g) = Body(p, h)
  <2>1. p # <<1, 1>> => g[Previous(units, p)] = h[Previous(units, p)]
    BY <1>5, <1>8, Zenon
  <2>2. QED
    BY <2>1, Zenon
<1> HIDE DEF Body, rank, S
<1>9. G \in [S \X [S -> BOOLEAN] -> BOOLEAN]
  BY <1>7
<1>10. \A p \in S : \A g \in [S -> BOOLEAN] : G[<<p, g>>] = Body(p, g)
  OBVIOUS
<1> HIDE DEF G
<1>11. \A p \in S : \A g, h \in [S -> BOOLEAN] :
           (\A q \in S : rank[q] < rank[p] => g[q] = h[q]) => G[<<p, g>>] = G[<<p, h>>]
  BY <1>8, <1>10
<1>12. PICK f \in [S -> BOOLEAN] : \A p \in S : f[p] = G[<<p, f>>]
  <2>1. WellRanked(S, BOOLEAN, 6 * n + 6, rank, G)
    BY <1>6, <1>9, <1>11 DEF WellRanked
  <2>2. Solvable(S, BOOLEAN, G)
    BY <2>1, Recursion
  <2>3. QED
    BY <2>2 DEF Solvable
<1>13. Solves(f)
  BY <1>10, <1>12
<1> DEFINE b == CHOOSE b : Solves(b)
<1>14. Solves(b)
  BY <1>13
<1>15. /\ FirstPass(units).skipped =
              Total([x \in DOMAIN units |-> Cardinality({k \in 1..MaxWidth : b[<<x, k>>]})])
       /\ FirstPass(units).ends <=>
              /\ \A p \in S : IsAt(units, p, Quote) => p # <<1, 1>> /\ b[Previous(units, p)]
              /\ units # <<>> => ~b[<<Len(units), Width(Last(units))>>]
  BY DEF FirstPass, S, Body, PlacesOf, IsAt, Previous
<1> HIDE DEF b
<1>16. \A p \in S : b[p] = Body(p, b)
  BY <1>14
<1>17. QED
  BY <1>15, <1>16 DEF Scans, S, Body

\* Escapes do not begin side by side: at most half of the characters of a unit
\* begin one, and none does in a unit of one character.
LEMMA SkippedInUnit ==
    ASSUME NEW units, IsText(units), NEW b, Scans(b, units), NEW x \in 1..Len(units)
    PROVE  LET skipped == Cardinality({k \in 1..MaxWidth : b[<<x, k>>]})
           IN  /\ skipped \in Nat /\ 2 * skipped <= Width(units[x]) + 1
               /\ units[x].kind \in {"char", "lone"} => skipped = 0
<1> DEFINE K == {k \in 1..MaxWidth : b[<<x, k>>]}
           w == Width(units[x])
<1>1. /\ units \in Seq(Units) /\ DOMAIN units = 1..Len(units) /\ Len(units) \in Nat
      /\ units[x] \in Units
  BY DEF IsText
<1>2. w \in 1..6 /\ MaxWidth = 6
  BY <1>1, Spelling DEF MaxWidth
<1>3. ASSUME NEW k \in 1..6
      PROVE  b[<<x, k>>] <=> /\ k <= w /\ Spelled(units[x])[k] = Backslash
                             /\ <<x, k>> # <<1, 1>> => ~b[Previous(units, <<x, k>>)]
  <2>1. <<x, k>> \in PlacesOf(units)
    BY <1>1, <1>2 DEF PlacesOf
  <2>2. QED
    BY <2>1, Zenon DEF Scans, IsAt
<1>4. ASSUME NEW k \in 1..5, k \in K
      PROVE  k + 1 \notin K
  <2>1. k + 1 \in 1..6 /\ <<x, k + 1>> # <<1, 1>> /\ Previous(units, <<x, k + 1>>) = <<x, k>>
    BY DEF Previous
  <2>2. b[<<x, k>>]
    BY <1>4
  <2>3. ~b[<<x, k + 1>>]
    BY <1>3, <2>1, <2>2
  <2>4. QED
    BY <2>3
<1>5. \A k \in K : k \in 1..w
  BY <1>2, <1>3
<1>6. units[x].kind \in {"char", "lone"} => K = {}
  <2>1. ASSUME units[x].kind \in {"char", "lone"}, NEW k \in K
        PROVE  FALSE
    <3>0. w = 1
      BY <1>1, <2>1, Spelling
    <3>1. w = 1 /\ k = 1 /\ b[<<x, 1>>] /\ Spelled(units[x])[1] = Backslash
      <4>1. k \in 1..1 /\ b[<<x, k>>]
        BY <1>5, <3>0
      <4>2. k = 1 /\ 1 \in 1..6
        BY <4>1
      <4>3. Spelled(units[x])[1] = Backslash
        BY <1>3, <4>1, <4>2, Zenon
      <4>4. QED
        BY <3>0, <4>1, <4>2, <4>3
    <3>2. CASE units[x].kind = "char"
      BY <1>1, <3>1, <3>2, Spelling, UnitKinds
    <3>3. CASE units[x].kind = "lone"
      <4>1. x = Len(units)
        <5>1. \A m \in 1..(Len(units) - 1) : units[m].kind \notin {"cut", "lone"}
          BY DEF IsText
        <5>2. x \notin 1..(Len(units) - 1)
          BY <3>3, <5>1, Zenon
        <5>3. x \in 1..Len(units) /\ Len(units) \in Nat
          BY <1>1
        <5> HIDE DEF K, w
        <5>4. QED
          BY <5>2, <5>3, SMT
      <4>2. units # <<>> /\ Last(units) = units[x]
        BY <1>1, <4>1 DEF Last
      <4>3. ~b[<<x, w>>]
        BY <4>1, <4>2, Zenon DEF Scans, IsText
      <4>4. QED
        BY <3>1, <4>3
    <3>4. QED
      BY <2>1, <3>2, <3>3
  <2>2. QED
    BY <2>1
<1> HIDE DEF K, w
<1>7. IsFiniteSet(K) /\ Cardinality(K) \in Nat /\ 2 * Cardinality(K) <= w + 1
  <2> DEFINE half == (w + 1) \div 2
             f == [k \in K |-> (k + 1) \div 2]
  <2>1. half \in Nat /\ 2 * half <= w + 1 /\ \A k \in 1..w : (k + 1) \div 2 \in 1..half
    BY <1>2
  <2>2. \A k \in K : f[k] \in 1..half
    BY <1>5, <2>1
  <2>3. ASSUME NEW k \in K, NEW m \in K, f[k] = f[m]
        PROVE  k = m
    <3>0. f[k] = (k + 1) \div 2 /\ f[m] = (m + 1) \div 2
      OBVIOUS
    <3>1. k \in 1..6 /\ m \in 1..6 /\ (k + 1) \div 2 = (m + 1) \div 2
      <4>1. k \in 1..w /\ m \in 1..w
        BY <1>5
      <4> HIDE DEF f
      <4>2. k \in 1..6 /\ m \in 1..6
        BY <1>2, <4>1
      <4>3. QED
        BY <2>3, <3>0, <4>2
    <3>2. k = m \/ (k \in 1..5 /\ m = k + 1) \/ (m \in 1..5 /\ k = m + 1)
      BY <3>1
    <3>3. QED
      BY <1>4, <3>2
  <2> HIDE DEF half
  <2>4. f \in Injection(K, 1..half)
    BY <2>2, <2>3 DEF Injection, IsInjective
  <2>5. IsFiniteSet(1..half) /\ Cardinality(1..half) = half
    BY <2>1, FS_Interval
  <2> HIDE DEF f
  <2>6. IsFiniteSet(K) /\ Cardinality(K) <= half
    BY <2>4, <2>5, FS_Injection
  <2>7. Cardinality(K) \in Nat
    BY <2>6, FS_CardinalityType
  <2>8. QED
    BY <1>2, <2>1, <2>6, <2>7
<1>8. K = {} => Cardinality(K) = 0
  BY FS_EmptySet
<1>9. QED
  BY <1>6, <1>7, <1>8 DEF K, w

\* The buffer of a string has room for its bytes and the zero.
LEMMA RoomEnough ==
    ASSUME NEW units \in Seq(Units), IsText(units)
    PROVE  Len(parse_string(units).bytes) + 1 <= parse_string(units).room
<1> DEFINE n == Len(units)
           widths == [x \in DOMAIN units |-> Width(units[x])]
<1>0. PICK b : Scans(b, units)
  BY Scanning
<1> DEFINE escapes == [x \in DOMAIN units |-> Cardinality({k \in 1..MaxWidth : b[<<x, k>>]})]
<1>1. /\ n \in Nat /\ widths \in Seq(Nat) /\ escapes \in Seq(Nat) /\ Len(widths) = n /\ Len(escapes) = n
      /\ \A x \in 1..n : /\ units[x] \in Units
                         /\ units[x].kind \in {"char", "escape", "lone", "u", "z", "bad", "cut"}
                         /\ widths[x] = Width(units[x])
                         /\ escapes[x] \in Nat /\ 2 * escapes[x] <= Width(units[x]) + 1
                         /\ units[x].kind \in {"char", "lone"} => escapes[x] = 0
  <2>1. \A x \in 1..n : /\ units[x] \in Units
                        /\ units[x].kind \in {"char", "escape", "lone", "u", "z", "bad", "cut"}
    <3>1. \A x \in 1..n : units[x] \in Units
      OBVIOUS
    <3>2. QED
      BY <3>1, UnitKinds
  <2>2. \A x \in 1..n : Width(units[x]) \in Nat
    BY <2>1, Spelling
  <2>3. \A x \in 1..n : widths[x] = Width(units[x])
    OBVIOUS
  <2>4. \A x \in 1..n : /\ escapes[x] \in Nat /\ 2 * escapes[x] <= Width(units[x]) + 1
                        /\ units[x].kind \in {"char", "lone"} => escapes[x] = 0
    BY <1>0, SkippedInUnit
  <2>5. n \in Nat /\ widths \in Seq(Nat) /\ Len(widths) = n
    BY <2>2
  <2>6. escapes \in Seq(Nat) /\ Len(escapes) = n
    <3>1. DOMAIN units = 1..n /\ n \in Nat
      OBVIOUS
    <3>2. DOMAIN escapes = 1..n /\ \A x \in 1..n : escapes[x] \in Nat
      BY <2>4, <3>1
    <3>3. escapes = [x \in 1..n |-> escapes[x]]
      BY <3>1
    <3> HIDE DEF escapes, n
    <3>4. QED
      BY <3>1, <3>2, <3>3
  <2> HIDE DEF escapes, widths, n
  <2>7. QED
    BY <2>1, <2>3, <2>4, <2>5, <2>6
<1>2. PICK r : Reads(r, units)
  BY Reading
<1>3. PICK t : IsTotal(t, widths)
  <2> HIDE DEF widths
  <2>1. QED
    BY <1>1, Totals
<1>4. PICK e : IsTotal(e, escapes)
  <2> HIDE DEF escapes
  <2>1. QED
    BY <1>1, Totals
<1>5. parse_string(units).room = t[1] + 1 - e[1] + 1 /\ parse_string(units).bytes = r[1].bytes
  BY <1>0, <1>2, <1>3, <1>4 DEF parse_string, Characters, IsTotal, Reads, Scans
<1>6. /\ t \in [1..(n + 1) -> Nat] /\ e \in [1..(n + 1) -> Nat] /\ t[n + 1] = 0 /\ e[n + 1] = 0
      /\ \A x \in 1..n : t[x] = widths[x] + t[x + 1] /\ e[x] = escapes[x] + e[x + 1]
  BY <1>1, <1>3, <1>4 DEF IsTotal
<1> HIDE DEF widths, escapes
<1>7. /\ r \in [1..(n + 1) -> [ok : BOOLEAN, bytes : Seq(0..255)]]
      /\ r[n + 1] = [ok |-> TRUE, bytes |-> <<>>]
      /\ \A x \in 1..n : /\ Readable(units, x) => r[x].bytes = Piece(units, x) \o r[x + Taken(units, x)].bytes
                         /\ ~Readable(units, x) => r[x].bytes = <<>>
  BY <1>2 DEF Reads
<1> DEFINE S == {x \in 1..(n + 1) : e[x] <= t[x] /\ Len(r[x].bytes) + e[x] <= t[x]}
<1>8. n + 1 \in S
  BY <1>1, <1>6, <1>7
<1>9. ASSUME NEW x \in 1..n, \A y \in (x + 1)..(n + 1) : y \in S
      PROVE  x \in S
  <2>1. /\ x + 1 \in (x + 1)..(n + 1) /\ x \in 1..(n + 1) /\ x + 1 \in 1..(n + 1) /\ n \in Nat
        /\ x # n => x + 1 \in 1..n /\ x + 2 \in (x + 1)..(n + 1) /\ x + 2 \in 1..(n + 1)
    BY <1>1
  <2>2. /\ t[x] = Width(units[x]) + t[x + 1] /\ e[x] = escapes[x] + e[x + 1]
        /\ t[x] \in Nat /\ e[x] \in Nat /\ t[x + 1] \in Nat /\ e[x + 1] \in Nat
        /\ escapes[x] \in Nat /\ 2 * escapes[x] <= Width(units[x]) + 1
        /\ units[x].kind \in {"char", "lone"} => escapes[x] = 0
        /\ units[x].kind \in {"char", "escape", "lone", "u", "z", "bad", "cut"}
    BY <1>1, <1>6, <2>1
  <2>3. /\ Width(units[x]) \in Nat /\ Width(units[x]) >= 1
        /\ units[x].kind = "escape" => Width(units[x]) = 2
        /\ units[x].kind \in {"u", "z"} => Width(units[x]) = 6
    <3>1. units[x] \in Units
      BY <1>1
    <3>2. QED
      BY <3>1, Spelling DEF MaxWidth
  <2>4. e[x + 1] <= t[x + 1] /\ Len(r[x + 1].bytes) + e[x + 1] <= t[x + 1]
    BY <1>9, <2>1
  <2>5. e[x] <= t[x]
    BY <2>2, <2>3, <2>4
  <2>6. CASE ~Readable(units, x)
    <3>1. r[x].bytes = <<>> /\ Len(<<>>) = 0
      BY <1>7, <2>6
    <3>2. QED
      BY <2>1, <2>2, <2>5, <3>1
  <2>7. CASE Readable(units, x)
    <3> DEFINE piece == Piece(units, x)
               k == Taken(units, x)
               rest == r[x + k].bytes
    <3>1. /\ k \in 1..2 /\ x + k \in (x + 1)..(n + 1) /\ piece \in Seq(0..255) /\ Len(piece) \in 1..4
          /\ Plain(units, x) => Len(piece) = 1
          /\ k = 1 => Len(piece) <= 3
      BY <2>7, UnitBytes
    <3>2. r[x].bytes = piece \o rest
      BY <1>7, <2>7
    <3>3. rest \in Seq(0..255) /\ e[x + k] <= t[x + k] /\ Len(rest) + e[x + k] <= t[x + k]
      BY <1>7, <1>9, <3>1, <2>1
    <3> HIDE DEF piece
    <3>4. Len(r[x].bytes) = Len(piece) + Len(rest) /\ Len(rest) \in Nat
      BY <3>1, <3>2, <3>3, ConcatProperties
    <3>5. CASE k = 1
      <4>1. Len(piece) + escapes[x] <= Width(units[x])
        <5>1. CASE units[x].kind \in {"char", "lone"}
          <6>1. Plain(units, x)
            BY <5>1 DEF Plain
          <6>2. Len(piece) = 1
            BY <3>1, <6>1
          <6>3. QED
            BY <2>2, <2>3, <5>1, <6>2
        <5>2. CASE units[x].kind = "escape"
          <6>1. Plain(units, x)
            BY <5>2 DEF Plain
          <6>2. Len(piece) = 1
            BY <3>1, <6>1
          <6>3. QED
            BY <2>2, <2>3, <5>2, <6>2
        <5>3. CASE units[x].kind \in {"u", "z"}
          BY <2>2, <2>3, <3>1, <3>5, <5>3
        <5>4. CASE units[x].kind \in {"bad", "cut"}
          BY <2>7, <5>4, Literals DEF Readable, Plain
        <5>5. QED
          BY <2>2, <5>1, <5>2, <5>3, <5>4
      <4>2. e[x + 1] <= t[x + 1] /\ Len(rest) + e[x + 1] <= t[x + 1] /\ Len(piece) \in Nat
        BY <3>1, <3>3, <3>5
      <4> HIDE DEF rest, k
      <4>3. Len(r[x].bytes) + e[x] <= t[x]
        <5>1. \A lb, lr, d, w, e1, t1 \in Nat :
                  lb + d <= w /\ lr + e1 <= t1 => (lb + lr) + (d + e1) <= w + t1
          OBVIOUS
        <5>2. escapes[x] \in Nat
          BY <2>2
        <5>3. /\ Len(piece) \in Nat /\ Len(rest) \in Nat /\ Width(units[x]) \in Nat
              /\ e[x + 1] \in Nat /\ t[x + 1] \in Nat
          BY <2>2, <2>3, <3>4, <4>2
        <5>4. (Len(piece) + Len(rest)) + (escapes[x] + e[x + 1]) <= Width(units[x]) + t[x + 1]
          BY <5>1, <5>2, <5>3, <4>1, <4>2
        <5>5. QED
          BY <5>4, <2>2, <3>4
      <4>4. QED
        BY <2>1, <2>5, <4>3
    <3>6. CASE k = 2
      <4>1. x # n /\ x + 1 \in 1..n /\ x + 2 \in 1..(n + 1)
        BY <2>1, <3>1, <3>6
      <4>2. ~Plain(units, x) /\ units[x].kind \in {"u", "z"} /\ units[x + 1].kind \in {"u", "z"}
        <5>1. ~Plain(units, x) /\ utf16_literal_to_utf8(units, x).ok /\ utf16_literal_to_utf8(units, x).count = 2
          BY <2>7, <3>6 DEF Taken, Readable
        <5>2. units[x + 1].kind \in {"u", "z"} /\ units[x].kind # "cut"
          BY <5>1, Literals
        <5>3. units[x].kind # "bad"
          BY <2>7, <5>1 DEF Readable
        <5>4. QED
          BY <2>2, <5>1, <5>2, <5>3 DEF Plain
      <4>3. /\ Width(units[x]) = 6 /\ Width(units[x + 1]) = 6
            /\ escapes[x] \in 0..3 /\ escapes[x + 1] \in 0..3
        <5>1. Width(units[x]) = 6 /\ Width(units[x + 1]) = 6
          BY <1>1, <4>1, <4>2, Spelling
        <5>2. \A c \in Nat : 2 * c <= 6 + 1 => c \in 0..3
          OBVIOUS
        <5>3. QED
          BY <1>1, <4>1, <5>1, <5>2
      <4>4. /\ t[x + 1] = 6 + t[x + 2] /\ e[x + 1] = escapes[x + 1] + e[x + 2]
            /\ t[x + 2] \in Nat /\ e[x + 2] \in Nat
        <5>1. (x + 1) + 1 = x + 2
          OBVIOUS
        <5>2. QED
          BY <1>1, <1>6, <4>1, <4>3, <5>1
      <4>5. Len(rest) + e[x + 2] <= t[x + 2] /\ Len(piece) \in 1..4
        BY <3>1, <3>3, <3>6
      <4> HIDE DEF rest, k
      <4>6. Len(r[x].bytes) + e[x] <= t[x]
        <5>1. \A lb \in 1..4 : \A c, d \in 0..3 : \A lr, e2, t2 \in Nat :
                  lr + e2 <= t2 => (lb + lr) + (c + (d + e2)) <= 6 + (6 + t2)
          OBVIOUS
        <5>2. e[x] = escapes[x] + (escapes[x + 1] + e[x + 2]) /\ t[x] = 6 + (6 + t[x + 2])
          BY <2>2, <4>3, <4>4
        <5>3. QED
          BY <5>1, <5>2, <3>4, <4>3, <4>4, <4>5
      <4>7. QED
        BY <2>1, <2>5, <4>6
    <3>7. QED
      BY <3>1, <3>5, <3>6
  <2>8. QED
    BY <2>6, <2>7
<1> HIDE DEF S
<1>10. \A x \in 1..(n + 1) : x \in S
  <2>1. ASSUME NEW x \in 1..(n + 1), \A y \in (x + 1)..(n + 1) : y \in S
        PROVE  x \in S
    <3>1. x = n + 1 \/ x \in 1..n
      BY <1>1
    <3>2. QED
      BY <1>8, <1>9, <2>1, <3>1
  <2>2. n + 1 \in Nat
    BY <1>1
  <2>3. QED
    BY <2>1, <2>2, Backwards
<1>11. 1 \in 1..(n + 1)
  BY <1>1
<1>12. Len(r[1].bytes) + e[1] <= t[1] /\ e[1] \in Nat /\ t[1] \in Nat
  BY <1>6, <1>10, <1>11 DEF S
<1>13. Len(r[1].bytes) \in Nat
  BY <1>7, <1>11
<1> HIDE DEF n
<1>14. QED
  BY <1>5, <1>12, <1>13

\* The codes of the halves.
LEMMA HalfCodes ==
    /\ \A c \in High : c \in Int /\ c >= 55296 /\ c <= 56319
    /\ \A c \in Low : c \in Int /\ c >= 56320 /\ c <= 57343
<1>1. \A c \in High : c \in Int /\ c >= 55296 /\ c <= 56319
  BY SMT DEF High
<1>2. \A c \in Low : c \in Int /\ c >= 56320 /\ c <= 57343
  BY SMT DEF Low
<1>3. QED
  BY <1>1, <1>2, SMT

\* The halves of pairs: what reading a \u says of the place it stands at.
LEMMA Halves ==
    ASSUME NEW units \in Seq(Units), NEW x \in 1..Len(units)
    PROVE  /\ x \in Surrogates(units, High) <=> units[x].kind = "u" /\ units[x].code \in High
           /\ x \in Surrogates(units, Low) <=> units[x].kind = "u" /\ units[x].code \in Low
           /\ ~(x \in Surrogates(units, High) /\ x \in Surrogates(units, Low))
           /\ units[x].kind \in {"u", "z"} /\ parse_hex4(units[x]) \in Low <=> x \in Surrogates(units, Low)
           /\ ~Plain(units, x) /\ parse_hex4(units[x]) \in High <=> x \in Surrogates(units, High)
<1>1. units[x].kind \in {"char", "escape", "lone", "u", "z", "bad", "cut"} /\ DOMAIN units = 1..Len(units)
      /\ (units[x].kind \in {"z", "bad", "cut"} => units[x].code = 0)
  BY UnitKinds
<1>2. 0 \notin High /\ 0 \notin Low /\ \A c : ~(c \in High /\ c \in Low)
  BY HalfCodes, SMT
<1>3. QED
  BY <1>1, <1>2 DEF Surrogates, Plain, parse_hex4

\* What can be read is neither wrong nor the second half of a pair, and the
\* first half is followed by the second.
LEMMA ReadableUnit ==
    ASSUME NEW units \in Seq(Units), NEW x \in 1..Len(units)
    PROVE  /\ Readable(units, x) <=>
                  /\ units[x].kind \notin {"bad", "cut"} /\ x \notin Surrogates(units, Low)
                  /\ x \in Surrogates(units, High) => x + 1 \in Surrogates(units, Low)
           /\ Taken(units, x) = Wide(units, x)
<1>1. units[x].kind \in {"char", "escape", "lone", "u", "z", "bad", "cut"} /\ DOMAIN units = 1..Len(units)
      /\ Len(units) \in Nat
  BY UnitKinds
<1>2. CASE Plain(units, x)
  <2>1. x \notin Surrogates(units, Low) /\ x \notin Surrogates(units, High)
        /\ units[x].kind \notin {"bad", "cut"}
    BY <1>2, Halves DEF Plain
  <2>2. QED
    BY <1>2, <2>1 DEF Readable, Taken, Wide
<1>3. CASE ~Plain(units, x)
  <2> DEFINE literal == utf16_literal_to_utf8(units, x)
             pair == parse_hex4(units[x]) \in High
  <2>1. /\ literal.ok <=> /\ units[x].kind # "cut" /\ parse_hex4(units[x]) \notin Low
                          /\ pair => /\ x < Len(units) /\ units[x + 1].kind \in {"u", "z"}
                                     /\ parse_hex4(units[x + 1]) \in Low
        /\ literal.count = IF pair THEN 2 ELSE 1
    BY Literals
  <2>2. pair <=> x \in Surrogates(units, High)
    BY <1>3, Halves
  <2>3. /\ Readable(units, x) <=> units[x].kind # "bad" /\ literal.ok
        /\ Taken(units, x) = literal.count
    BY <1>3 DEF Readable, Taken
  <2>4. x < Len(units) /\ units[x + 1].kind \in {"u", "z"} /\ parse_hex4(units[x + 1]) \in Low
        <=> x + 1 \in Surrogates(units, Low)
    <3>1. CASE x < Len(units)
      <4>1. x + 1 \in 1..Len(units)
        BY <1>1, <3>1
      <4>2. QED
        BY <3>1, <4>1, Halves
    <3>2. CASE ~(x < Len(units))
      <4>1. x + 1 \notin 1..Len(units)
        BY <1>1, <3>2
      <4>2. QED
        BY <1>1, <3>2, <4>1 DEF Surrogates
    <3>3. QED
      BY <3>1, <3>2
  <2>5. units[x].kind # "bad" /\ units[x].kind # "cut" =>
        (parse_hex4(units[x]) \notin Low <=> x \notin Surrogates(units, Low))
    <3>1. units[x].kind # "bad" /\ units[x].kind # "cut" => units[x].kind \in {"u", "z"}
      BY <1>1, <1>3 DEF Plain
    <3>2. QED
      BY <3>1, Halves
  <2> HIDE DEF literal, pair
  <2>6. Readable(units, x) <=>
            /\ units[x].kind \notin {"bad", "cut"} /\ x \notin Surrogates(units, Low)
            /\ x \in Surrogates(units, High) => x + 1 \in Surrogates(units, Low)
    BY <2>1, <2>2, <2>3, <2>4, <2>5
  <2>7. Taken(units, x) = Wide(units, x)
    BY <2>1, <2>2, <2>3 DEF Wide
  <2>8. QED
    BY <2>6, <2>7
<1>4. QED
  BY <1>2, <1>3

\* From x on, the units are those of a string of JSON.
GoodFrom(units, x) ==
    \A y \in x..Len(units) :
        /\ units[y].kind \notin {"bad", "cut"}
        /\ y \in Surrogates(units, High) => y + 1 \in Surrogates(units, Low)
        /\ y \in Surrogates(units, Low) => y - 1 >= x /\ y - 1 \in Surrogates(units, High)

LEMMA GoodIsWellFormed ==
    ASSUME NEW units \in Seq(Units)
    PROVE  GoodFrom(units, 1) <=> WellFormed(units)
<1>1. DOMAIN units = 1..Len(units) /\ Len(units) \in Nat
  OBVIOUS
<1> DEFINE H == Surrogates(units, High)
           L == Surrogates(units, Low)
<1>2. H \subseteq 1..Len(units) /\ L \subseteq 1..Len(units)
  BY <1>1 DEF Surrogates
<1> HIDE DEF H, L
<1>3. ASSUME GoodFrom(units, 1)
      PROVE  {x + 1 : x \in H} = L
  <2>1. \A x \in H : x + 1 \in L
    BY <1>2, <1>3 DEF GoodFrom, H, L
  <2>2. \A y \in L : y - 1 \in H /\ y = (y - 1) + 1
    BY <1>2, <1>3 DEF GoodFrom, H, L
  <2>3. QED
    BY <2>1, <2>2
<1>4. ASSUME {x + 1 : x \in H} = L, \A x \in 1..Len(units) : units[x].kind \notin {"bad", "cut"}
      PROVE  GoodFrom(units, 1)
  <2>1. \A y \in H : y + 1 \in L
    BY <1>4
  <2>2. ASSUME NEW y \in L
        PROVE  y - 1 >= 1 /\ y - 1 \in H
    <3>1. PICK x \in H : y = x + 1
      BY <1>4
    <3>2. x \in 1..Len(units)
      BY <1>2
    <3>3. y - 1 = x /\ x >= 1
      BY <3>1, <3>2
    <3>4. QED
      BY <3>3
  <2>3. QED
    BY <1>4, <2>1, <2>2 DEF GoodFrom, H, L
<1>5. QED
  BY <1>1, <1>3, <1>4 DEF WellFormed, GoodFrom, H, L

\* parse_string accepts what is well formed.
LEMMA AcceptsWellFormed ==
    ASSUME NEW units \in Seq(Units)
    PROVE  parse_string(units).ok <=> WellFormed(units)
<1> DEFINE n == Len(units)
           H == Surrogates(units, High)
           L == Surrogates(units, Low)
<1>1. PICK r : Reads(r, units)
  BY Reading
<1>2. /\ parse_string(units).ok = r[1].ok /\ n \in Nat /\ r[n + 1].ok = TRUE
      /\ \A x \in 1..(n + 1) : r[x].ok \in BOOLEAN
      /\ \A x \in 1..n : r[x].ok <=> Readable(units, x) /\ r[x + Taken(units, x)].ok
  <2>1. \A x \in 1..(Len(units) + 1) : r[x].ok \in BOOLEAN
    BY <1>1 DEF Reads
  <2>2. \A x \in 1..Len(units) : r[x].ok <=> Readable(units, x) /\ r[x + Taken(units, x)].ok
    BY <1>1 DEF Reads
  <2>3. QED
    BY <1>1, <2>1, <2>2 DEF Reads
<1>3. H \subseteq 1..n /\ L \subseteq 1..n /\ \A x : ~(x \in H /\ x \in L)
  <2>1. H \subseteq 1..n /\ L \subseteq 1..n
    BY DEF Surrogates
  <2>2. QED
    BY <2>1, Halves
<1>4. \A x \in 1..n :
          /\ Readable(units, x) <=>
                 units[x].kind \notin {"bad", "cut"} /\ x \notin L /\ (x \in H => x + 1 \in L)
          /\ Taken(units, x) = IF x \in H THEN 2 ELSE 1
  BY ReadableUnit DEF Wide
<1> DEFINE Good(x, y) == /\ units[y].kind \notin {"bad", "cut"}
                         /\ y \in H => y + 1 \in L
                         /\ y \in L => y - 1 >= x /\ y - 1 \in H
           From(x) == \A y \in x..n : Good(x, y)
           S == {x \in 1..(n + 1) : r[x].ok <=> From(x)}
<1> HIDE DEF H, L, n
<1>5. n + 1 \in S
  BY <1>2
<1>6. ASSUME NEW x \in 1..n, \A y \in (x + 1)..(n + 1) : y \in S
      PROVE  x \in S
  <2>1. n \in Nat /\ x \in Nat /\ x >= 1 /\ x <= n
    BY <1>2
  <2>2. CASE ~Readable(units, x)
    <3>1. ~Good(x, x)
      BY <1>4, <2>1, <2>2
    <3>2. x \in x..n
      BY <2>1
    <3> HIDE DEF Good
    <3>3. QED
      BY <1>2, <2>1, <2>2, <3>1, <3>2
  <2>3. CASE Readable(units, x) /\ x \notin H
    <3>1. r[x].ok <=> r[x + 1].ok
      BY <1>2, <1>4, <2>3
    <3>2. r[x + 1].ok <=> From(x + 1)
      <4>1. x + 1 \in (x + 1)..(n + 1)
        BY <2>1
      <4>2. QED
        BY <1>6, <4>1
    <3>3. ASSUME From(x)
          PROVE  From(x + 1)
      <4>1. ASSUME NEW y \in (x + 1)..n
            PROVE  Good(x + 1, y)
        <5>1. y \in x..n /\ y \in Nat
          BY <2>1
        <5>2. Good(x, y)
          BY <3>3, <5>1
        <5>3. y - 1 \in H => y - 1 # x
          BY <2>3
        <5>4. QED
          BY <2>1, <5>1, <5>2, <5>3
      <4> HIDE DEF Good
      <4>2. QED
        BY <4>1
    <3>4. ASSUME From(x + 1)
          PROVE  From(x)
      <4>1. ASSUME NEW y \in x..n
            PROVE  Good(x, y)
        <5>1. CASE y = x
          BY <1>4, <2>3, <5>1
        <5>2. CASE y # x
          <6>1. y \in (x + 1)..n
            BY <2>1, <5>2
          <6>2. Good(x + 1, y)
            BY <3>4, <6>1
          <6>3. QED
            BY <2>1, <6>1, <6>2
        <5>3. QED
          BY <5>1, <5>2
      <4> HIDE DEF Good
      <4>2. QED
        BY <4>1
    <3> HIDE DEF From
    <3>5. r[x].ok <=> From(x)
      BY <3>1, <3>2, <3>3, <3>4
    <3>6. QED
      BY <2>1, <3>5
  <2>4. CASE Readable(units, x) /\ x \in H
    <3>1. x + 1 \in L /\ x + 1 \in 1..n /\ x \notin L /\ x + 1 \notin H
      BY <1>3, <1>4, <2>4
    <3>2. r[x].ok <=> r[x + 2].ok
      BY <1>2, <1>4, <2>4
    <3>3. r[x + 2].ok <=> From(x + 2)
      <4>1. x + 2 \in (x + 1)..(n + 1)
        BY <2>1, <3>1
      <4>2. QED
        BY <1>6, <4>1
    <3>4. ASSUME From(x)
          PROVE  From(x + 2)
      <4>1. ASSUME NEW y \in (x + 2)..n
            PROVE  Good(x + 2, y)
        <5>1. y \in x..n /\ y \in Nat /\ y >= x + 2
          BY <2>1
        <5>2. Good(x, y)
          BY <3>4, <5>1
        <5>3. y - 1 \in H => y - 1 # x + 1
          BY <3>1
        <5>4. QED
          BY <2>1, <5>1, <5>2, <5>3
      <4> HIDE DEF Good
      <4>2. QED
        BY <4>1
    <3>5. ASSUME From(x + 2)
          PROVE  From(x)
      <4>1. ASSUME NEW y \in x..n
            PROVE  Good(x, y)
        <5>1. CASE y = x
          BY <1>4, <2>4, <3>1, <5>1
        <5>2. CASE y = x + 1
          <6>1. (x + 1) - 1 = x
            BY <2>1
          <6>2. units[x + 1].kind \notin {"bad", "cut"}
            BY <3>1, Halves DEF L, n
          <6>3. QED
            BY <2>1, <2>4, <3>1, <5>2, <6>1, <6>2
        <5>3. CASE y # x /\ y # x + 1
          <6>1. y \in (x + 2)..n
            BY <2>1, <5>3
          <6>2. Good(x + 2, y)
            BY <3>5, <6>1
          <6>3. QED
            BY <2>1, <6>1, <6>2
        <5>4. QED
          BY <5>1, <5>2, <5>3
      <4> HIDE DEF Good
      <4>2. QED
        BY <4>1
    <3> HIDE DEF From
    <3>6. r[x].ok <=> From(x)
      BY <3>2, <3>3, <3>4, <3>5
    <3>7. QED
      BY <2>1, <3>6
  <2>5. QED
    BY <2>2, <2>3, <2>4
<1> HIDE DEF S
<1>7. \A x \in 1..(n + 1) : x \in S
  <2>1. ASSUME NEW x \in 1..(n + 1), \A y \in (x + 1)..(n + 1) : y \in S
        PROVE  x \in S
    <3>1. x = n + 1 \/ x \in 1..n
      BY <1>2
    <3>2. QED
      BY <1>5, <1>6, <2>1, <3>1
  <2>2. n + 1 \in Nat
    BY <1>2
  <2>3. QED
    BY <2>1, <2>2, Backwards
<1>8. r[1].ok <=> From(1)
  <2>1. 1 \in 1..(n + 1)
    BY <1>2
  <2> HIDE DEF From
  <2>2. QED
    BY <1>7, <2>1 DEF S
<1>9. From(1) <=> GoodFrom(units, 1)
  BY DEF GoodFrom, n, H, L
<1>10. QED
  BY <1>2, <1>8, <1>9, GoodIsWellFormed

\* What is read of a unit is the UTF-8 of what it means.
LEMMA PieceMeans ==
    ASSUME NEW units \in Seq(Units), NEW x \in 1..Len(units), Readable(units, x),
           units[x].kind = "char" => units[x].code < 128
    PROVE  /\ Unicode(Point(units, x))
           /\ Piece(units, x) = Encoded(Point(units, x))
<1>1. /\ units[x].code \in Nat
      /\ units[x].kind \in {"escape", "lone"} => units[x].code < 128
      /\ units[x].kind = "z" => units[x].code = 0
  BY UnitKinds
<1>2. CASE Plain(units, x)
  <2>1. x \notin Surrogates(units, High)
    BY <1>2, Halves DEF Plain
  <2>2. Point(units, x) = units[x].code
    BY <1>2, <2>1, SMT DEF Point, Code, Plain
  <2>3. units[x].code < 128
    BY <1>1, <1>2 DEF Plain
  <2> DEFINE c == units[x].code
  <2>4. c \in Nat /\ c < 128
    BY <1>1, <2>3
  <2> HIDE DEF c
  <2>5. Unicode(c) /\ Encoded(c) = <<c>>
    BY <2>4, SMT DEF Encoded, Unicode
  <2>6. QED
    BY <1>2, <2>2, <2>5 DEF Piece, c
<1>3. CASE ~Plain(units, x)
  <2>1. Piece(units, x) = Encoded(Scalar(units, x))
    BY <1>3, Literals DEF Piece
  <2>2. Unicode(Scalar(units, x))
    BY Scalars
  <2>3. Scalar(units, x) = Point(units, x)
    <3>1. CASE x \in Surrogates(units, High)
      <4>1. x + 1 \in Surrogates(units, Low)
        BY <3>1, ReadableUnit
      <4>2. x + 1 \in 1..Len(units) /\ x < Len(units)
        BY <4>1 DEF Surrogates
      <4> DEFINE first == units[x].code
                 second == units[x + 1].code
      <4>3. units[x].kind = "u" /\ first \in High /\ units[x + 1].kind = "u" /\ second \in Low
        BY <3>1, <4>1, <4>2, Halves
      <4>4. parse_hex4(units[x]) = first /\ parse_hex4(units[x + 1]) = second
        BY <4>3 DEF parse_hex4
      <4>5. Scalar(units, x) = 65536 + (first % 1024) * 1024 + (second % 1024)
        BY <4>2, <4>3, <4>4, SMT DEF Scalar
      <4>6. Point(units, x) = 65536 + (first - 55296) * 1024 + (second - 56320)
        BY <3>1, SMT DEF Point
      <4> HIDE DEF first, second
      <4>7. first \in Int /\ first >= 55296 /\ first <= 56319
        BY <4>3, HalfCodes, SMT
      <4>8. second \in Int /\ second >= 56320 /\ second <= 57343
        BY <4>3, HalfCodes, SMT
      <4>9. first % 1024 = first - 55296
        BY <4>7, SMT
      <4>10. second % 1024 = second - 56320
        BY <4>8, SMT
      <4>11. QED
        BY <4>5, <4>6, <4>9, <4>10, SMT
    <3>2. CASE x \notin Surrogates(units, High)
      <4>1. parse_hex4(units[x]) \notin High
        BY <1>3, <3>2, Halves
      <4>2. Scalar(units, x) = parse_hex4(units[x])
        BY <4>1, SMT DEF Scalar
      <4>3. Point(units, x) = Code(units[x])
        BY <3>2, SMT DEF Point
      <4>4. QED
        BY <1>1, <4>2, <4>3 DEF parse_hex4, Code
    <3>3. QED
      BY <3>1, <3>2
  <2>4. QED
    BY <2>1, <2>2, <2>3
<1>4. QED
  BY <1>2, <1>3

\* The bytes of a string of ASCII and escapes mean what was written.
LEMMA MeansWhatIsWritten ==
    ASSUME NEW units \in Seq(Units), parse_string(units).ok, Ascii(units)
    PROVE  FromUtf8(parse_string(units).bytes) = CodePoints(units)
<1> DEFINE n == Len(units)
           B == parse_string(units).bytes
<1>1. PICK r : Reads(r, units)
  BY Reading
<1>2. PICK p : Means(p, units) /\ CodePoints(units) = p[1]
  BY Meaning
<1>3. /\ n \in Nat /\ r[1].ok /\ B = r[1].bytes /\ r[n + 1].bytes = <<>>
      /\ \A x \in 1..(n + 1) : r[x].bytes \in Seq(0..255)
      /\ \A x \in 1..n : r[x].ok => /\ Readable(units, x) /\ r[x + Taken(units, x)].ok
                                    /\ r[x].bytes = Piece(units, x) \o r[x + Taken(units, x)].bytes
  <2>1. \A x \in 1..(Len(units) + 1) : r[x].bytes \in Seq(0..255)
    BY <1>1 DEF Reads
  <2>2. \A x \in 1..Len(units) : r[x].ok => /\ Readable(units, x) /\ r[x + Taken(units, x)].ok
                                    /\ r[x].bytes = Piece(units, x) \o r[x + Taken(units, x)].bytes
    BY <1>1 DEF Reads
  <2>3. QED
    BY <1>1, <2>1, <2>2 DEF Reads
<1>4. B \in Seq(0..255) /\ Len(B) \in Nat
  <2>1. 1 \in 1..(n + 1)
    BY <1>3
  <2> HIDE DEF B
  <2>2. B \in Seq(0..255)
    BY <1>3, <2>1
  <2>3. QED
    BY <2>2
<1> HIDE DEF B
<1>5. PICK f : Decodes(f, B) /\ FromUtf8(B) = f[1]
  BY <1>4, Decoding
<1>6. /\ f[Len(B) + 1] = <<>>
      /\ \A x \in 1..Len(B) : f[x] = <<Utf8Point(B, x)>> \o f[x + Utf8Length(B[x])]
  <2>1. Len(B) + 1 \in (Len(B) + 1)..(Len(B) + 4)
    BY <1>4
  <2>2. /\ \A x \in (Len(B) + 1)..(Len(B) + 4) : f[x] = <<>>
        /\ \A x \in 1..Len(B) : /\ f[x] = <<Utf8Point(B, x)>> \o f[x + Utf8Length(B[x])]
                                /\ x + Utf8Length(B[x]) \in (x + 1)..(Len(B) + 4)
    BY <1>4, <1>5, DecodesMeans
  <2>3. QED
    BY <2>1, <2>2
<1>7. /\ p[n + 1] = <<>>
      /\ \A x \in 1..n : p[x] = <<Point(units, x)>> \o p[x + Wide(units, x)]
  BY <1>2, <1>3, MeansSteps
\* The bytes end with s.
<1> DEFINE Ends(s) == /\ Len(s) <= Len(B)
                      /\ \A i \in 1..Len(s) : s[i] = B[Len(B) - Len(s) + i]
           S == {x \in 1..(n + 1) :
                     r[x].ok /\ Ends(r[x].bytes) => f[Len(B) - Len(r[x].bytes) + 1] = p[x]}
<1>8. n + 1 \in S
  <2>1. Len(B) - Len(r[n + 1].bytes) + 1 = Len(B) + 1
    BY <1>3, <1>4
  <2>2. n + 1 \in 1..(n + 1)
    BY <1>3
  <2> HIDE DEF Ends
  <2>3. QED
    BY <1>6, <1>7, <2>1, <2>2
<1>9. ASSUME NEW x \in 1..n, \A y \in (x + 1)..(n + 1) : y \in S
      PROVE  x \in S
  <2>1. x \in 1..(n + 1)
    BY <1>3
  <2>2. SUFFICES ASSUME r[x].ok, Ends(r[x].bytes)
                 PROVE  f[Len(B) - Len(r[x].bytes) + 1] = p[x]
    BY <2>1
  <2> DEFINE b == Piece(units, x)
             y == x + Taken(units, x)
             rest == r[y].bytes
             k == Len(B) - Len(r[x].bytes) + 1
             c == Point(units, x)
  <2>3. Readable(units, x) /\ r[y].ok /\ r[x].bytes = b \o rest
    BY <1>3, <2>2
  <2>4. y \in (x + 1)..(n + 1) /\ b \in Seq(0..255) /\ Len(b) \in 1..4
    BY <2>3, UnitBytes
  <2>5. rest \in Seq(0..255) /\ y \in 1..(n + 1)
    <3>1. y \in 1..(n + 1)
      BY <2>4
    <3> HIDE DEF y
    <3>2. QED
      BY <1>3, <3>1
  <2>6. units[x].kind = "char" => units[x].code < 128
    BY DEF Ascii
  <2>7. Unicode(c) /\ b = Encoded(c)
    BY <2>3, <2>6, PieceMeans
  <2> HIDE DEF b, y, rest, c
  <2>8. /\ Len(r[x].bytes) = Len(b) + Len(rest) /\ Len(rest) \in Nat
        /\ \A i \in 1..Len(b) : r[x].bytes[i] = b[i]
        /\ \A i \in 1..Len(rest) : r[x].bytes[Len(b) + i] = rest[i]
    BY <2>3, <2>4, <2>5
  <2>9. k \in 1..Len(B) /\ k + Len(b) = Len(B) - Len(rest) + 1
    <3>1. Len(r[x].bytes) <= Len(B)
      BY <2>2
    <3> DEFINE all == Len(B)
               head == Len(b)
               tail == Len(rest)
               both == Len(r[x].bytes)
    <3>2. all \in Nat /\ head \in 1..4 /\ tail \in Nat /\ both = head + tail /\ both <= all /\ k = all - both + 1
      BY <1>4, <2>4, <2>8, <3>1, Zenon
    <3> HIDE DEF Ends, all, head, tail, both, k
    <3>3. k \in 1..all /\ k + head = all - tail + 1
      BY <3>2
    <3>4. QED
      BY <3>3 DEF all, head, tail
  <2>10. Ends(rest)
    <3>1. Len(rest) <= Len(B)
      BY <1>4, <2>2, <2>4, <2>8
    <3>2. ASSUME NEW i \in 1..Len(rest)
          PROVE  rest[i] = B[Len(B) - Len(rest) + i]
      <4>1. Len(b) + i \in 1..Len(r[x].bytes)
        BY <2>4, <2>8
      <4>2. r[x].bytes[Len(b) + i] = B[Len(B) - Len(r[x].bytes) + (Len(b) + i)]
        BY <2>2, <4>1
      <4>3. Len(B) - Len(r[x].bytes) + (Len(b) + i) = Len(B) - Len(rest) + i
        BY <1>4, <2>4, <2>8
      <4>4. QED
        BY <2>8, <4>2, <4>3
    <3>3. QED
      BY <3>1, <3>2
  <2>11. \A i \in 0..(Len(b) - 1) : B[k + i] = b[i + 1]
    <3>1. ASSUME NEW i \in 0..(Len(b) - 1)
          PROVE  B[k + i] = b[i + 1]
      <4>1. i + 1 \in 1..Len(b) /\ i + 1 \in 1..Len(r[x].bytes)
        BY <2>4, <2>8
      <4>2. r[x].bytes[i + 1] = B[Len(B) - Len(r[x].bytes) + (i + 1)]
        BY <2>2, <4>1
      <4>3. Len(B) - Len(r[x].bytes) + (i + 1) = k + i
        BY <1>4, <2>4, <2>8
      <4>4. QED
        BY <2>8, <4>1, <4>2, <4>3
    <3>2. QED
      BY <3>1
  <2>12. f[k + Len(b)] = p[y]
    <3>1. y \in S
      BY <1>9, <2>4
    <3>2. f[Len(B) - Len(r[y].bytes) + 1] = p[y]
      BY <2>3, <2>10, <3>1 DEF rest
    <3>3. QED
      BY <2>9, <3>2 DEF rest
  <2>13. Utf8Length(B[k]) = Len(b) /\ Utf8Point(B, k) = c
    <3>1. k \in Nat
      BY <2>9
    <3>2. StandsAt(Encoded(c), B, k)
      BY <2>7, <2>11 DEF StandsAt
    <3> HIDE DEF k
    <3>3. QED
      BY <2>7, <3>1, <3>2, EncodedPoint
  <2>14. p[x] = <<c>> \o p[y]
    BY <1>7, ReadableUnit DEF c, y
  <2> HIDE DEF S, Ends
  <2>15. QED
    BY <1>6, <2>9, <2>12, <2>13, <2>14
<1> HIDE DEF S
<1>10. \A x \in 1..(n + 1) : x \in S
  <2>1. ASSUME NEW x \in 1..(n + 1), \A y \in (x + 1)..(n + 1) : y \in S
        PROVE  x \in S
    <3>1. x = n + 1 \/ x \in 1..n
      BY <1>3
    <3>2. QED
      BY <1>8, <1>9, <2>1, <3>1
  <2>2. n + 1 \in Nat
    BY <1>3
  <2>3. QED
    BY <2>1, <2>2, Backwards
<1>11. Ends(r[1].bytes) /\ Len(B) - Len(r[1].bytes) + 1 = 1
  BY <1>3, <1>4
<1>12. 1 \in S
  BY <1>3, <1>10
<1> HIDE DEF Ends
<1>13. f[1] = p[1]
  BY <1>3, <1>11, <1>12 DEF S
<1>14. QED
  BY <1>2, <1>5, <1>13 DEF B

-----------------------------------------------------------------------------
(* Printing a string *)

\* A string in memory has no zero before its end.
LEMMA NoZero ==
    ASSUME NEW bytes \in Seq(0..255)
    PROVE  ToZero(bytes) \in Seq(1..255)
<1> DEFINE I == {i \in 1..Len(bytes) : bytes[i] = 0}
           zero == SelectInSeq(bytes, LAMBDA b : b = 0)
<1>1. zero = IF I # {} THEN Min(I) ELSE 0
  BY DEF SelectInSeq
<1>2. ToZero(bytes) = IF zero = 0 THEN bytes ELSE SubSeq(bytes, 1, zero - 1)
  BY DEF ToZero
<1> HIDE DEF zero
<1>3. CASE I = {}
  <2>1. \A i \in 1..Len(bytes) : bytes[i] \in 0..255 /\ bytes[i] # 0
    BY <1>3
  <2>2. \A i \in 1..Len(bytes) : bytes[i] \in 1..255
    BY <2>1
  <2>3. bytes \in Seq(1..255)
    BY <2>2, Retyped
  <2>5. QED
    BY <1>1, <1>2, <1>3, <2>3
<1>4. CASE I # {}
  <2>1. PICK m \in I : \A y \in I : m <= y
    <3>1. I \in SUBSET Nat
      OBVIOUS
    <3> HIDE DEF I
    <3>2. QED
      BY <1>4, <3>1, LeastOf
  <2>2. Min(I) \in I /\ \A y \in I : Min(I) <= y
    <3> HIDE DEF I
    <3>1. QED
      BY <2>1 DEF Min
  <2>3. zero \in 1..Len(bytes) /\ \A y \in I : zero <= y
    BY <1>1, <1>4, <2>2
  <2>4. \A i \in 1..(zero - 1) : bytes[i] \in 1..255
    <3>1. ASSUME NEW i \in 1..(zero - 1)
          PROVE  bytes[i] \in 1..255
      <4>1. i \in 1..Len(bytes) /\ ~(zero <= i)
        BY <2>3
      <4>2. bytes[i] \in 0..255 /\ i \notin I
        <5>1. i \notin I
          <6> HIDE DEF I
          <6>1. QED
            BY <2>3, <4>1
        <5>2. bytes[i] \in 0..255
          <6> DEFINE T == 0..255
          <6>1. bytes \in Seq(T)
            OBVIOUS
          <6> HIDE DEF T
          <6>2. bytes[i] \in T
            BY <4>1, <6>1
          <6>3. QED
            BY <6>2 DEF T
        <5>3. QED
          BY <5>1, <5>2
      <4>3. bytes[i] # 0
        BY <4>1, <4>2
      <4>4. QED
        BY <4>2, <4>3
    <3>2. QED
      BY <3>1
  <2>5. SubSeq(bytes, 1, zero - 1) \in Seq(1..255)
    <3>1. SubSeq(bytes, 1, zero - 1) = [i \in 1..(zero - 1) |-> bytes[i]] /\ zero - 1 \in Nat
      BY <2>3
    <3>2. QED
      BY <2>4, <3>1
  <2>6. QED
    BY <1>2, <2>3, <2>5
<1>5. QED
  BY <1>3, <1>4

\* What is printed for a byte is a unit, of the width that was reckoned.
LEMMA EscapedUnit ==
    ASSUME NEW b \in 1..255
    PROVE  /\ Escaped(b) \in Units /\ Width(Escaped(b)) = 1 + Added(b)
           /\ Escaped(b).code = b
           /\ Escaped(b).kind \in {"char", "escape", "u"}
           /\ Escaped(b).kind = "u" => b < 32
           /\ Escaped(b).kind = "char" => b # Quote
<1> DEFINE marks == {Quote, Backslash}
<1>1. marks \union Letters \subseteq Escapable
  BY DEF Escapable
<1>2. \A c \in Letters : c < 32
  BY SMT DEF Letters
<1>3. b \in CodeUnits /\ b \in 0..255
  BY SMT DEF CodeUnits
<1>4. Escaped(b) = IF b > 31 /\ b \notin marks THEN Unit("char", b)
                   ELSE IF b \in marks \union Letters THEN Unit("escape", b) ELSE Unit("u", b)
  BY DEF Escaped
<1>5. Added(b) = IF b \in marks \union Letters THEN 1 ELSE IF b < 32 THEN 5 ELSE 0
  BY DEF Added
<1>6. \A kind, code : Unit(kind, code).kind = kind /\ Unit(kind, code).code = code
  BY DEF Unit
<1>7. Quote \in marks /\ Backslash \in marks
  OBVIOUS
<1> HIDE DEF marks
<1>8. CASE b > 31 /\ b \notin marks
  <2>1. Escaped(b) = Unit("char", b) /\ b # Backslash /\ b # Quote
    BY <1>4, <1>7, <1>8
  <2>2. Escaped(b) \in Units
    BY <1>3, <2>1, Zenon DEF Units
  <2>3. Added(b) = 0 /\ Width(Escaped(b)) = 1
    BY <1>2, <1>5, <1>6, <1>8, <2>1, <2>2, Spelling
  <2>4. QED
    BY <1>6, <2>1, <2>2, <2>3
<1>9. CASE ~(b > 31 /\ b \notin marks) /\ b \in marks \union Letters
  <2>1. Escaped(b) = Unit("escape", b)
    BY <1>4, <1>9
  <2>2. Escaped(b) \in Units
    BY <1>1, <1>9, <2>1, Zenon DEF Units
  <2>3. Added(b) = 1 /\ Width(Escaped(b)) = 2
    BY <1>5, <1>6, <1>9, <2>1, <2>2, Spelling
  <2>4. QED
    BY <1>6, <2>1, <2>2, <2>3
<1>10. CASE ~(b > 31 /\ b \notin marks) /\ b \notin marks \union Letters
  <2>1. b < 32 /\ Escaped(b) = Unit("u", b)
    BY <1>4, <1>10
  <2>2. Escaped(b) \in Units
    BY <1>3, <2>1, Zenon DEF Units
  <2>3. Added(b) = 5 /\ Width(Escaped(b)) = 6
    BY <1>5, <1>6, <1>10, <2>1, <2>2, Spelling
  <2>4. QED
    BY <1>6, <2>1, <2>2, <2>3
<1>11. QED
  BY <1>8, <1>9, <1>10

\* The first pass finds the closing quote of what is printed.
LEMMA FindsTheEnd ==
    ASSUME NEW units \in Seq(Units),
           \A x \in 1..Len(units) : /\ units[x].kind \in {"char", "escape", "u"}
                                    /\ units[x].kind = "char" => units[x].code # Quote
    PROVE  IsText(units)
<1> DEFINE n == Len(units)
           w(x) == Width(units[x])
<1>1. PICK b : Scans(b, units)
  BY Scanning
<1>2. n \in Nat /\ DOMAIN units = 1..n /\ Quote # Backslash /\ Letter # Quote /\ Letter # Backslash
  BY DEF Quote, Backslash, Letter
<1>s. 1 \in 1..6 /\ 2 \in 1..6 /\ 6 \in 1..6 /\ 1 <= 1 /\ 1 <= 2 /\ 1 <= 6 /\ 6 \in 2..6
  OBVIOUS
<1>3. ASSUME NEW x \in 1..n
      PROVE  /\ units[x].kind = "char" =>
                    w(x) = 1 /\ Spelled(units[x])[1] # Backslash /\ Spelled(units[x])[1] # Quote
             /\ units[x].kind = "escape" => w(x) = 2 /\ Spelled(units[x])[1] = Backslash
             /\ units[x].kind = "u" => /\ w(x) = 6 /\ Spelled(units[x])[1] = Backslash
                                       /\ \A k \in 2..6 : Spelled(units[x])[k] = Letter
             /\ units[x].kind \in {"char", "escape", "u"}
  <2>1. units[x] \in Units
    OBVIOUS
  <2>2. QED
    BY <2>1, Spelling, UnitKinds
<1>4. ASSUME NEW x \in 1..n, NEW k \in 1..6
      PROVE  b[<<x, k>>] <=> /\ k <= w(x) /\ Spelled(units[x])[k] = Backslash
                             /\ <<x, k>> # <<1, 1>> => ~b[Previous(units, <<x, k>>)]
  <2>1. <<x, k>> \in PlacesOf(units)
    BY <1>2 DEF PlacesOf, MaxWidth
  <2>2. QED
    BY <1>1, <2>1, Zenon DEF Scans, IsAt
<1>5. \A x \in 0..n : x = 0 \/ ~b[<<x, w(x)>>]
  <2> DEFINE T == {x \in 0..n : x = 0 \/ ~b[<<x, w(x)>>]}
  <2>1. ASSUME NEW x \in 0..n, \A y \in 0..(x - 1) : y \in T
        PROVE  x \in T
    <3>1. CASE x = 0
      BY <3>1
    <3>2. CASE x # 0
      <4>1. x \in 1..n
        BY <3>2
      <4>2. CASE units[x].kind = "char"
        <5>1. w(x) = 1 /\ Spelled(units[x])[1] # Backslash
          BY <1>3, <4>1, <4>2
        <5>2. ~b[<<x, 1>>]
          BY <1>4, <1>s, <4>1, <5>1, Zenon
        <5>3. QED
          BY <5>1, <5>2
      <4>3. CASE units[x].kind = "escape"
        <5>1. w(x) = 2 /\ Spelled(units[x])[1] = Backslash
          BY <1>3, <4>1, <4>3
        <5>2. <<x, 1>> # <<1, 1>> => ~b[Previous(units, <<x, 1>>)]
          <6> SUFFICES ASSUME <<x, 1>> # <<1, 1>>
                       PROVE  ~b[Previous(units, <<x, 1>>)]
            OBVIOUS
          <6>1. x - 1 \in 0..(x - 1) /\ x - 1 # 0
            BY <4>1
          <6>2. ~b[<<x - 1, w(x - 1)>>]
            BY <2>1, <6>1
          <6>3. Previous(units, <<x, 1>>) = <<x - 1, w(x - 1)>>
            BY DEF Previous
          <6>4. QED
            BY <6>2, <6>3
        <5>3. b[<<x, 1>>]
          BY <1>4, <1>s, <4>1, <5>1, <5>2, Zenon
        <5>4. <<x, 2>> # <<1, 1>> /\ Previous(units, <<x, 2>>) = <<x, 1>>
          BY DEF Previous
        <5>5. ~b[<<x, 2>>]
          BY <1>4, <1>s, <4>1, <5>3, <5>4, Zenon
        <5>6. QED
          BY <5>1, <5>5
      <4>4. CASE units[x].kind = "u"
        <5>1. w(x) = 6 /\ Spelled(units[x])[6] # Backslash
          BY <1>2, <1>3, <1>s, <4>1, <4>4
        <5>2. ~b[<<x, 6>>]
          BY <1>4, <1>s, <4>1, <5>1, Zenon
        <5>3. QED
          BY <5>1, <5>2
      <4>5. QED
        BY <1>3, <4>1, <4>2, <4>3, <4>4
    <3>3. QED
      BY <3>1, <3>2
  <2> HIDE DEF T
  <2>2. \A x \in 0..n : x \in T
    BY <1>2, <2>1, Forwards
  <2>3. QED
    BY <2>2 DEF T
<1>6. ASSUME NEW p \in PlacesOf(units), IsAt(units, p, Quote)
      PROVE  p # <<1, 1>> /\ b[Previous(units, p)]
  <2>1. PICK x \in 1..n, k \in 1..6 : p = <<x, k>>
    BY <1>2 DEF PlacesOf, MaxWidth
  <2>2. k <= w(x) /\ Spelled(units[x])[k] = Quote
    BY <1>6, <2>1 DEF IsAt
  <2>3. units[x].kind = "escape" /\ k = 2
    <3>1. units[x].kind # "char"
      BY <1>3, <2>2
    <3>2. units[x].kind # "u"
      <4>1. k = 1 \/ k \in 2..6
        OBVIOUS
      <4>2. QED
        BY <1>2, <1>3, <2>2, <4>1
    <3>3. QED
      BY <1>2, <1>3, <2>2, <3>1, <3>2
  <2>4. w(x) = 2 /\ Spelled(units[x])[1] = Backslash
    BY <1>3, <2>3
  <2>5. <<x, 1>> # <<1, 1>> => ~b[Previous(units, <<x, 1>>)]
    <3> SUFFICES ASSUME <<x, 1>> # <<1, 1>>
                 PROVE  ~b[Previous(units, <<x, 1>>)]
      OBVIOUS
    <3>1. x - 1 \in 0..n /\ x - 1 # 0
      BY <1>2
    <3>2. Previous(units, <<x, 1>>) = <<x - 1, w(x - 1)>>
      BY DEF Previous
    <3>3. QED
      BY <1>5, <3>1, <3>2
  <2>6. b[<<x, 1>>]
    BY <1>4, <1>s, <2>4, <2>5, Zenon
  <2>7. p # <<1, 1>> /\ Previous(units, p) = <<x, 1>>
    BY <2>1, <2>3 DEF Previous
  <2>8. QED
    BY <2>6, <2>7
<1>7. units # <<>> => ~b[<<Len(units), Width(Last(units))>>]
  <2> SUFFICES ASSUME units # <<>>
               PROVE  ~b[<<n, Width(Last(units))>>]
    OBVIOUS
  <2>1. n \in 0..n /\ n # 0 /\ Last(units) = units[n]
    BY <1>2 DEF Last
  <2>2. QED
    BY <1>5, <2>1
<1>8. FirstPass(units).ends
  BY <1>1, <1>6, <1>7, Zenon DEF Scans
<1>9. QED
  BY <1>3, <1>8 DEF IsText

\* What is printed has the length that was reckoned and reads back.
LEMMA PrintedReadsBack ==
    ASSUME NEW bytes \in Seq(0..255)
    PROVE  LET printed == print_string_ptr(bytes)
           IN  /\ Characters(printed.units) = printed.output_length
               /\ IsText(printed.units) /\ parse_string(printed.units).ok
               /\ parse_string(printed.units).bytes = ToZero(bytes)
<1> DEFINE s == ToZero(bytes)
           units == [x \in DOMAIN s |-> Escaped(s[x])]
           n == Len(s)
<1>1. /\ print_string_ptr(bytes).units = units
      /\ print_string_ptr(bytes).output_length = Total([x \in DOMAIN s |-> 1 + Added(s[x])])
  BY DEF print_string_ptr
<1>2. s \in Seq(1..255)
  BY NoZero
<1> HIDE DEF s
<1>3. n \in Nat /\ DOMAIN s = 1..n /\ \A x \in 1..n : s[x] \in 1..255
  <2> DEFINE T == 1..255
  <2>1. s \in Seq(T)
    BY <1>2
  <2> HIDE DEF T
  <2>2. n \in Nat /\ DOMAIN s = 1..n /\ \A x \in 1..n : s[x] \in T
    BY <2>1
  <2>3. QED
    BY <2>2 DEF T
<1>4. \A x \in 1..n : units[x] = Escaped(s[x])
  BY <1>3
<1>5. /\ units \in Seq(Units) /\ Len(units) = n /\ DOMAIN units = DOMAIN s
      /\ \A x \in 1..n : /\ Width(units[x]) = 1 + Added(s[x]) /\ units[x].code = s[x]
                         /\ units[x].kind \in {"char", "escape", "u"}
                         /\ units[x].kind = "u" => s[x] < 32
                         /\ units[x].kind = "char" => units[x].code # Quote
  <2>1. \A x \in 1..n : Escaped(s[x]) \in Units
    BY <1>3, EscapedUnit
  <2>2. units \in Seq(Units) /\ Len(units) = n /\ DOMAIN units = DOMAIN s
    BY <1>3, <2>1
  <2> HIDE DEF units
  <2>3. ASSUME NEW x \in 1..n
        PROVE  /\ Width(units[x]) = 1 + Added(s[x]) /\ units[x].code = s[x]
               /\ units[x].kind \in {"char", "escape", "u"}
               /\ units[x].kind = "u" => s[x] < 32
               /\ units[x].kind = "char" => units[x].code # Quote
    <3>1. s[x] \in 1..255 /\ units[x] = Escaped(s[x])
      BY <1>3, <1>4
    <3>2. QED
      BY <3>1, EscapedUnit
  <2>4. QED
    BY <2>2, <2>3
<1> HIDE DEF units, n
<1>6. Characters(units) = Total([x \in DOMAIN s |-> 1 + Added(s[x])])
  <2>1. [x \in DOMAIN units |-> Width(units[x])] = [x \in DOMAIN s |-> 1 + Added(s[x])]
    BY <1>3, <1>5
  <2>2. QED
    BY <2>1 DEF Characters
<1>7. PICK r : Reads(r, units)
  BY <1>5, Reading
<1>8. ASSUME NEW x \in 1..n
      PROVE  Readable(units, x) /\ Taken(units, x) = 1 /\ Piece(units, x) = <<s[x]>>
  <2>1. x \notin Surrogates(units, High) /\ x \notin Surrogates(units, Low)
    <3>1. units[x].kind = "u" => units[x].code \notin High /\ units[x].code \notin Low
      BY <1>3, <1>5, HalfCodes, SMT
    <3>2. QED
      BY <1>5, <3>1, Halves
  <2>2. Readable(units, x) /\ Taken(units, x) = 1
    BY <1>5, <2>1, ReadableUnit DEF Wide
  <2>3. CASE units[x].kind \in {"char", "escape"}
    BY <1>5, <2>2, <2>3 DEF Piece, Plain
  <2>4. CASE units[x].kind = "u"
    <3>1. Piece(units, x) = Encoded(Point(units, x))
      BY <1>5, <2>2, <2>4, PieceMeans
    <3>2. Point(units, x) = s[x]
      BY <1>5, <2>1, <2>4, SMT DEF Point, Code
    <3> DEFINE c == s[x]
    <3>c. c \in 1..255 /\ c < 32
      BY <1>3, <1>5, <2>4
    <3> HIDE DEF c
    <3>d. Encoded(c) = <<c>>
      BY <3>c, SMT DEF Encoded
    <3>3. Encoded(s[x]) = <<s[x]>>
      BY <3>d DEF c
    <3>4. QED
      BY <2>2, <3>1, <3>2, <3>3
  <2>5. QED
    BY <1>5, <2>3, <2>4
<1> DEFINE tail(x) == [i \in 1..(n - x + 1) |-> s[x + i - 1]]
           S == {x \in 1..(n + 1) : r[x].ok = TRUE /\ r[x].bytes = tail(x)}
<1>9. /\ r[n + 1] = [ok |-> TRUE, bytes |-> <<>>]
      /\ \A x \in 1..n : r[x].ok = r[x + 1].ok /\ r[x].bytes = <<s[x]>> \o r[x + 1].bytes
      /\ parse_string(units).ok = r[1].ok /\ parse_string(units).bytes = r[1].bytes
  <2>1. \A x \in 1..n : Readable(units, x) => /\ r[x].ok = r[x + Taken(units, x)].ok
                                              /\ r[x].bytes = Piece(units, x) \o r[x + Taken(units, x)].bytes
    BY <1>5, <1>7 DEF Reads
  <2>2. QED
    BY <1>5, <1>7, <1>8, <2>1 DEF Reads
<1>10. n + 1 \in S
  <2>1. tail(n + 1) = <<>> /\ n + 1 \in 1..(n + 1)
    BY <1>3
  <2>2. r[n + 1].ok = TRUE /\ r[n + 1].bytes = <<>>
    BY <1>9
  <2> HIDE DEF tail
  <2>3. QED
    BY <2>1, <2>2
<1>11. ASSUME NEW x \in 1..n, \A y \in (x + 1)..(n + 1) : y \in S
       PROVE  x \in S
  <2>0. x + 1 \in (x + 1)..(n + 1) /\ x \in 1..(n + 1)
    BY <1>3
  <2>1. x + 1 \in S /\ x \in 1..(n + 1)
    <3> HIDE DEF S
    <3>1. QED
      BY <1>11, <2>0
  <2>2. r[x].bytes = <<s[x]>> \o tail(x + 1) /\ r[x].ok = TRUE
    BY <1>9, <2>1
  <2>3. <<s[x]>> \o tail(x + 1) = tail(x)
    <3>1. tail(x + 1) \in Seq(1..255) /\ Len(tail(x + 1)) = n - x
      BY <1>3
    <3>2. tail(x) \in Seq(1..255) /\ Len(tail(x)) = n - x + 1
      BY <1>3
    <3>3. <<s[x]>> \in Seq(1..255)
      BY <1>3
    <3>4. /\ <<s[x]>> \o tail(x + 1) \in Seq(1..255) /\ Len(<<s[x]>> \o tail(x + 1)) = n - x + 1
          /\ \A i \in 1..(n - x + 1) :
                 (<<s[x]>> \o tail(x + 1))[i] = IF i = 1 THEN s[x] ELSE tail(x + 1)[i - 1]
      <4> HIDE DEF tail
      <4>1. QED
        BY <1>3, <3>1, <3>3
    <3>5. ASSUME NEW i \in 1..(n - x + 1)
          PROVE  (<<s[x]>> \o tail(x + 1))[i] = tail(x)[i]
      <4>1. CASE i = 1
        BY <1>3, <3>4, <4>1
      <4>2. CASE i # 1
        <5>1. i - 1 \in 1..(n - x)
          BY <1>3, <4>2
        <5>2. tail(x + 1)[i - 1] = s[x + i - 1]
          BY <1>3, <5>1
        <5>3. QED
          BY <3>4, <4>2, <5>2
      <4>3. QED
        BY <4>1, <4>2
    <3> HIDE DEF tail
    <3>6. QED
      BY <1>3, <3>2, <3>4, <3>5
  <2>4. QED
    BY <2>1, <2>2, <2>3
<1> HIDE DEF S
<1>12. \A x \in 1..(n + 1) : x \in S
  <2>1. ASSUME NEW x \in 1..(n + 1), \A y \in (x + 1)..(n + 1) : y \in S
        PROVE  x \in S
    <3>1. x = n + 1 \/ x \in 1..n
      BY <1>3
    <3>2. QED
      BY <1>10, <1>11, <2>1, <3>1
  <2>2. n + 1 \in Nat
    BY <1>3
  <2>3. QED
    BY <2>1, <2>2, Backwards
<1>13. 1 \in S
  BY <1>3, <1>12
<1>14. tail(1) = s
  BY <1>2, <1>3 DEF n
<1>15. parse_string(units).ok /\ parse_string(units).bytes = s
  BY <1>9, <1>13, <1>14 DEF S
<1>16. IsText(units)
  BY <1>5, FindsTheEnd
<1>17. QED
  BY <1>1, <1>6, <1>15, <1>16 DEF s

-----------------------------------------------------------------------------
(* Numbers *)

\* A computation of n steps.
Iterates(f, n, first, step) ==
    f = [x \in 0..n |-> IF x = 0 THEN first ELSE step[<<x, f[x - 1]>>]]

LEMMA Iteration ==
    ASSUME NEW n \in Nat, NEW V, NEW first \in V, NEW step \in [(1..n) \X V -> V]
    PROVE  \E f \in [0..n -> V] : Iterates(f, n, first, step)
<1> DEFINE S == 0..n
           Body(x, f) == IF x = 0 THEN first ELSE step[<<x, f[x - 1]>>]
           G == [p \in S \X [S -> V] |-> Body(p[1], p[2])]
           rank == [x \in S |-> x]
<1>1. rank \in [S -> 0..n]
  OBVIOUS
<1>2. \A x \in S : x # 0 => x \in 1..n /\ x - 1 \in S /\ rank[x - 1] < rank[x]
  OBVIOUS
<1> HIDE DEF S, rank
<1>3. ASSUME NEW x \in S, NEW f \in [S -> V]
      PROVE  Body(x, f) \in V
  BY <1>2
<1>4. ASSUME NEW x \in S, NEW g \in [S -> V], NEW h \in [S -> V],
             \A y \in S : rank[y] < rank[x] => g[y] = h[y]
      PROVE  Body(x, g) = Body(x, h)
  BY <1>2, <1>4
<1> HIDE DEF Body
<1>5. G \in [S \X [S -> V] -> V]
  BY <1>3
<1>6. \A x \in S : \A g \in [S -> V] : G[<<x, g>>] = Body(x, g)
  OBVIOUS
<1> HIDE DEF G
<1>7. \A x \in S : \A g, h \in [S -> V] :
          (\A y \in S : rank[y] < rank[x] => g[y] = h[y]) => G[<<x, g>>] = G[<<x, h>>]
  BY <1>4, <1>6
<1>8. PICK f \in [S -> V] : \A x \in S : f[x] = G[<<x, f>>]
  <2>1. WellRanked(S, V, n, rank, G)
    BY <1>1, <1>5, <1>7 DEF WellRanked
  <2>2. Solvable(S, V, G)
    BY <2>1, Recursion
  <2>3. QED
    BY <2>2 DEF Solvable
<1>9. f = [x \in S |-> Body(x, f)]
  BY <1>6, <1>8
<1>10. QED
  BY <1>8, <1>9 DEF Iterates, S, Body

\* The value of the first x digits.
Values(v, s, radix) ==
    /\ v \in [0..Len(s) -> Int] /\ v[0] = 0
    /\ \A x \in 1..Len(s) : v[x] = IF s[x] < 0 THEN v[x - 1] ELSE v[x - 1] * radix + s[x]
    /\ Value(s, radix) = v[Len(s)]

LEMMA Valued ==
    ASSUME NEW s \in Seq(Int), NEW radix \in Int
    PROVE  \E v : Values(v, s, radix)
<1> DEFINE n == Len(s)
           Then(x, w) == IF s[x] < 0 THEN w ELSE w * radix + s[x]
           step == [p \in (1..n) \X Int |-> Then(p[1], p[2])]
           Solves(v) == v = [x \in 0..n |-> IF x = 0 THEN 0 ELSE Then(x, v[x - 1])]
<1>1. n \in Nat /\ \A x \in 1..n : s[x] \in Int
  OBVIOUS
<1> HIDE DEF n
<1>2. \A x \in 1..n : \A w \in Int : Then(x, w) \in Int
  BY <1>1
<1> HIDE DEF Then
<1>3. step \in [(1..n) \X Int -> Int] /\ \A x \in 1..n : \A w \in Int : step[<<x, w>>] = Then(x, w)
  BY <1>2
<1> HIDE DEF step
<1>4. PICK f \in [0..n -> Int] : Iterates(f, n, 0, step)
  <2> DEFINE V == Int
             first == 0
  <2>1. n \in Nat /\ first \in V /\ step \in [(1..n) \X V -> V]
    BY <1>1, <1>3
  <2> HIDE DEF V, first
  <2>2. \E f \in [0..n -> V] : Iterates(f, n, first, step)
    BY <2>1, Iteration
  <2>3. QED
    BY <2>2 DEF V, first
<1>5. Solves(f)
  <2>1. \A x \in 0..n : x # 0 => x \in 1..n /\ f[x - 1] \in Int
    BY <1>1
  <2>2. \A x \in 0..n : x # 0 => step[<<x, f[x - 1]>>] = Then(x, f[x - 1])
    BY <1>3, <2>1
  <2>3. QED
    BY <1>4, <2>2 DEF Iterates
<1> DEFINE g == CHOOSE g : Solves(g)
<1>6. Solves(g)
  BY <1>5
<1>7. Value(s, radix) = g[n]
  BY DEF Value, n, Then
<1> HIDE DEF g
<1>8. \A x \in 0..n : g[x] = IF x = 0 THEN 0 ELSE Then(x, g[x - 1])
  BY <1>6
<1>9. g[0] = 0 /\ \A x \in 1..n : g[x] = Then(x, g[x - 1])
  BY <1>1, <1>8
<1> DEFINE S == {x \in 0..n : g[x] \in Int}
<1>10. ASSUME NEW x \in 0..n, \A y \in 0..(x - 1) : y \in S
       PROVE  x \in S
  <2>1. CASE x = 0
    BY <1>9, <2>1
  <2>2. CASE x # 0
    <3>1. x \in 1..n /\ x - 1 \in 0..(x - 1)
      BY <1>1, <2>2
    <3>2. g[x - 1] \in Int
      BY <1>10, <3>1
    <3>3. QED
      BY <1>2, <1>9, <3>1, <3>2
  <2>3. QED
    BY <2>1, <2>2
<1> HIDE DEF S
<1>11. \A x \in 0..n : x \in S
  BY <1>1, <1>10, Forwards
<1>12. g \in [0..n -> Int]
  BY <1>6, <1>11 DEF S
<1>13. QED
  BY <1>7, <1>9, <1>12 DEF Values, n, Then

\* No digit, and one digit more.
LEMMA ValueOfNone ==
    ASSUME NEW radix \in Int
    PROVE  Value(<<>>, radix) = 0
<1>1. PICK v : Values(v, <<>>, radix)
  <2>1. <<>> \in Seq(Int)
    OBVIOUS
  <2>2. QED
    BY <2>1, Valued
<1>2. QED
  BY <1>1 DEF Values

LEMMA ValueOfMore ==
    ASSUME NEW s \in Seq(Int), NEW d \in Int, NEW radix \in Int
    PROVE  /\ Value(s, radix) \in Int
           /\ Value(Append(s, d), radix) = IF d < 0 THEN Value(s, radix) ELSE Value(s, radix) * radix + d
<1> DEFINE t == Append(s, d)
           n == Len(s)
<1>1. t \in Seq(Int) /\ Len(t) = n + 1 /\ n \in Nat /\ t[n + 1] = d /\ \A x \in 1..n : t[x] = s[x]
  OBVIOUS
<1>2. PICK v : Values(v, s, radix)
  BY Valued
<1> HIDE DEF t
<1>3. PICK w : Values(w, t, radix)
  BY <1>1, Valued
<1> DEFINE Then(x, u, q) == IF q[x] < 0 THEN u ELSE u * radix + q[x]
           S == {x \in 0..n : v[x] = w[x]}
<1>4. /\ v \in [0..n -> Int] /\ v[0] = 0 /\ Value(s, radix) = v[n]
      /\ \A x \in 1..n : v[x] = Then(x, v[x - 1], s)
  BY <1>2 DEF Values
<1>5. /\ w \in [0..(n + 1) -> Int] /\ w[0] = 0 /\ Value(t, radix) = w[n + 1]
      /\ \A x \in 1..(n + 1) : w[x] = Then(x, w[x - 1], t)
  BY <1>1, <1>3 DEF Values
<1>6. ASSUME NEW x \in 0..n, \A y \in 0..(x - 1) : y \in S
      PROVE  x \in S
  <2>1. CASE x = 0
    BY <1>4, <1>5, <2>1
  <2>2. CASE x # 0
    <3>1. x \in 1..n /\ x \in 1..(n + 1) /\ x - 1 \in 0..(x - 1)
      BY <1>1, <2>2
    <3>2. v[x - 1] = w[x - 1]
      BY <1>6, <3>1
    <3>3. v[x] = Then(x, v[x - 1], s) /\ w[x] = Then(x, w[x - 1], t) /\ t[x] = s[x]
      BY <1>1, <1>4, <1>5, <3>1
    <3>4. v[x] = w[x]
      BY <3>2, <3>3
    <3>5. QED
      BY <3>4
  <2>3. QED
    BY <2>1, <2>2
<1> HIDE DEF S
<1>7. n \in S
  <2>1. \A x \in 0..n : x \in S
    BY <1>1, <1>6, Forwards
  <2>2. QED
    BY <1>1, <2>1
<1>8. v[n] = w[n] /\ v[n] \in Int
  BY <1>1, <1>4, <1>7 DEF S
<1>9. w[n + 1] = Then(n + 1, w[n], t)
  <2>1. n + 1 \in 1..(n + 1) /\ (n + 1) - 1 = n
    BY <1>1
  <2> HIDE DEF Then
  <2>2. QED
    BY <1>5, <2>1
<1>10. QED
  BY <1>1, <1>4, <1>5, <1>8, <1>9 DEF t

\* What is no digit, and zeros, before a number.
LEMMA ValueOfPadding ==
    ASSUME NEW s \in Seq(Int), NEW radix \in Int, \A x \in 1..Len(s) : s[x] <= 0
    PROVE  Value(s, radix) = 0
<1>1. PICK v : Values(v, s, radix)
  BY Valued
<1> DEFINE n == Len(s)
           S == {x \in 0..n : v[x] = 0}
<1>2. n \in Nat /\ \A x \in 1..n : s[x] \in Int /\ s[x] <= 0
  OBVIOUS
<1>3. /\ v[0] = 0 /\ Value(s, radix) = v[n]
      /\ \A x \in 1..n : v[x] = IF s[x] < 0 THEN v[x - 1] ELSE v[x - 1] * radix + s[x]
  BY <1>1 DEF Values
<1>4. ASSUME NEW x \in 0..n, \A y \in 0..(x - 1) : y \in S
      PROVE  x \in S
  <2>1. CASE x = 0
    BY <1>3, <2>1
  <2>2. CASE x # 0
    <3>1. x \in 1..n /\ x - 1 \in 0..(x - 1)
      BY <1>2, <2>2
    <3>2. v[x - 1] = 0
      BY <1>4, <3>1
    <3>3. 0 * radix = 0
      OBVIOUS
    <3>4. v[x] = 0
      BY <1>2, <1>3, <3>1, <3>2, <3>3
    <3>5. QED
      BY <3>4
  <2>3. QED
    BY <2>1, <2>2
<1> HIDE DEF S
<1>5. \A x \in 0..n : x \in S
  BY <1>2, <1>4, Forwards
<1>6. QED
  BY <1>2, <1>3, <1>5 DEF S

\* Division by a radix.
LEMMA Dividing ==
    ASSUME NEW r \in {10, 16}, NEW n \in Nat
    PROVE  /\ n % r \in 0..(r - 1) /\ n \div r \in Nat /\ (n \div r) * r + (n % r) = n
           /\ n >= r => n \div r < n
<1>1. CASE r = 10
  BY <1>1, SMT
<1>2. CASE r = 16
  BY <1>2, SMT
<1>3. QED
  BY <1>1, <1>2

\* The digits of every number up to v.
HasDigits(f, v, r) ==
    /\ f \in [0..v -> Seq(0..(r - 1))] /\ Digits(v, r) = f[v]
    /\ \A n \in 0..v : f[n] = IF n < r THEN <<n>> ELSE <<n % r>> \o f[n \div r]

LEMMA DigitsOfAll ==
    ASSUME NEW v \in Nat, NEW r \in {10, 16}
    PROVE  \E f : HasDigits(f, v, r)
<1> DEFINE S == 0..v
           D == 0..(r - 1)
           V == Seq(D)
           Body(n, f) == IF n < r THEN <<n>> ELSE <<n % r>> \o f[n \div r]
           G == [p \in S \X [S -> V] |-> Body(p[1], p[2])]
           rank == [x \in S |-> x]
           Solves(f) == f = [n \in S |-> Body(n, f)]
<1>1. r \in Nat /\ r >= 2 /\ rank \in [S -> 0..v] /\ \A n \in S : n \in Nat /\ n <= v /\ rank[n] = n
  OBVIOUS
<1>2. ASSUME NEW n \in S, ~(n < r)
      PROVE  n \div r \in S /\ n \div r < n /\ rank[n \div r] < rank[n] /\ n % r \in D
  <2>1. n \div r \in Nat /\ n \div r < n /\ n % r \in 0..(r - 1)
    BY <1>1, <1>2, Dividing
  <2>2. QED
    BY <1>1, <2>1
<1>3. \A n \in S : n < r => n \in D
  BY <1>1
<1>4. \A d \in D : <<d>> \in V
  <2> HIDE DEF D
  <2>1. QED
    OBVIOUS
<1>5. \A d \in D : \A s \in V : <<d>> \o s \in V
  <2> HIDE DEF D
  <2>1. QED
    OBVIOUS
<1> HIDE DEF V, D
<1>6. ASSUME NEW n \in S, NEW f \in [S -> V]
      PROVE  Body(n, f) \in V
  <2>1. CASE n < r
    BY <1>3, <1>4, <2>1
  <2>2. CASE ~(n < r)
    <3>1. n \div r \in S /\ n % r \in D
      BY <1>2, <2>2
    <3> HIDE DEF S
    <3>2. f[n \div r] \in V
      BY <3>1
    <3>3. QED
      BY <1>5, <2>2, <3>1, <3>2
  <2>3. QED
    BY <2>1, <2>2
<1>7. ASSUME NEW n \in S, NEW g \in [S -> V], NEW h \in [S -> V],
             \A y \in S : rank[y] < rank[n] => g[y] = h[y]
      PROVE  Body(n, g) = Body(n, h)
  <2>1. ~(n < r) => g[n \div r] = h[n \div r]
    <3> HIDE DEF S, rank
    <3>1. QED
      BY <1>2, <1>7
  <2>2. QED
    BY <2>1
<1> HIDE DEF Body, rank
<1>8. G \in [S \X [S -> V] -> V]
  BY <1>6
<1>9. \A x \in S : \A g \in [S -> V] : G[<<x, g>>] = Body(x, g)
  OBVIOUS
<1>d. \A n \in S : \A m \in 0..(n - 1) : m \in S
  BY <1>1
<1>e. v \in S /\ S = 0..v
  OBVIOUS
<1> HIDE DEF G, S
<1>10. \A x \in S : \A g, h \in [S -> V] :
          (\A y \in S : rank[y] < rank[x] => g[y] = h[y]) => G[<<x, g>>] = G[<<x, h>>]
  BY <1>7, <1>9
<1>11. PICK f \in [S -> V] : \A x \in S : f[x] = G[<<x, f>>]
  <2>1. WellRanked(S, V, v, rank, G)
    BY <1>1, <1>8, <1>10 DEF WellRanked
  <2>2. <<>> \in V
    BY DEF V
  <2>3. Solvable(S, V, G)
    BY <2>1, <2>2, Recursion
  <2>4. QED
    BY <2>3 DEF Solvable
<1>12. Solves(f)
  BY <1>9, <1>11
<1> DEFINE g == CHOOSE g : Solves(g)
<1>13. Solves(g)
  BY <1>12
<1>14. Digits(v, r) = g[v]
  BY DEF Digits, S, Body
<1> HIDE DEF g
<1>15. \A n \in S : g[n] = Body(n, g)
  BY <1>13
<1> DEFINE T == {n \in S : g[n] \in V}
<1>16. ASSUME NEW n \in 0..v, \A y \in 0..(n - 1) : y \in T
       PROVE  n \in T
  <2>1. n \in S
    BY <1>e
  <2>2. CASE n < r
    BY <1>3, <1>4, <1>15, <2>1, <2>2 DEF Body
  <2>3. CASE ~(n < r)
    <3>1. n \div r \in S /\ n \div r < n /\ n % r \in D
      BY <1>2, <2>1, <2>3
    <3>2. n \div r \in 0..(n - 1)
      BY <1>1, <2>1, <3>1
    <3>3. g[n \div r] \in V
      BY <1>16, <3>2
    <3>4. QED
      BY <1>5, <1>15, <2>1, <2>3, <3>1, <3>3 DEF Body
  <2>4. QED
    BY <2>2, <2>3
<1> HIDE DEF T
<1>17. \A n \in 0..v : n \in T
  BY <1>16, Forwards
<1>18. g \in [S -> V]
  BY <1>13, <1>17, <1>e DEF T
<1>19. QED
  BY <1>14, <1>15, <1>18, <1>e DEF HasDigits, V, D, Body

\* Reversing what begins with d ends with it.
LEMMA ReverseMore ==
    ASSUME NEW S, NEW d \in S, NEW s \in Seq(S)
    PROVE  /\ Reverse(s) \in Seq(S) /\ Reverse(<<d>> \o s) = Append(Reverse(s), d)
           /\ Len(Reverse(s)) = Len(s)
<1>1. Reverse(s) \in Seq(S) /\ Len(Reverse(s)) = Len(s) /\ Len(s) \in Nat
      /\ \A i \in 1..Len(s) : Reverse(s)[i] = s[Len(s) - i + 1]
  BY DEF Reverse
<1> DEFINE t == <<d>> \o s
<1>2. t \in Seq(S) /\ Len(t) = Len(s) + 1 /\ t[1] = d /\ \A i \in 1..Len(s) : t[i + 1] = s[i]
  OBVIOUS
<1> HIDE DEF t
<1>3. Reverse(t) \in Seq(S) /\ Len(Reverse(t)) = Len(t)
      /\ \A i \in 1..Len(t) : Reverse(t)[i] = t[Len(t) - i + 1]
  BY <1>2 DEF Reverse
<1> DEFINE u == Append(Reverse(s), d)
<1>4. u \in Seq(S) /\ Len(u) = Len(s) + 1 /\ u[Len(s) + 1] = d /\ \A i \in 1..Len(s) : u[i] = Reverse(s)[i]
  BY <1>1
<1> HIDE DEF u
<1>5. ASSUME NEW i \in 1..(Len(s) + 1)
      PROVE  Reverse(t)[i] = u[i]
  <2>1. CASE i = Len(s) + 1
    BY <1>1, <1>2, <1>3, <1>4, <2>1
  <2>2. CASE i # Len(s) + 1
    <3>1. i \in 1..Len(s) /\ Len(s) - i + 1 \in 1..Len(s)
      BY <1>1, <2>2
    <3>2. Reverse(t)[i] = t[(Len(s) - i + 1) + 1]
      BY <1>1, <1>2, <1>3
    <3>3. u[i] = s[Len(s) - i + 1]
      BY <1>1, <1>4, <3>1
    <3>4. QED
      BY <1>2, <3>1, <3>2, <3>3
  <2>3. QED
    BY <2>1, <2>2
<1>6. Reverse(t) = u
  BY <1>1, <1>2, <1>3, <1>4, <1>5
<1>7. QED
  BY <1>1, <1>6 DEF t, u

\* The digits of a number, highest first and after what is worth nothing, read
\* as that number.
LEMMA DigitsRead ==
    ASSUME NEW v \in Nat, NEW r \in {10, 16}, NEW p \in Seq(Int), Value(p, r) = 0
    PROVE  /\ Digits(v, r) \in Seq(Nat) /\ Len(Digits(v, r)) >= 1
           /\ Value(p \o Reverse(Digits(v, r)), r) = v
<1>1. PICK f : HasDigits(f, v, r)
  BY DigitsOfAll
<1>2. /\ f \in [0..v -> Seq(0..(r - 1))] /\ Digits(v, r) = f[v]
      /\ \A n \in 0..v : f[n] = IF n < r THEN <<n>> ELSE <<n % r>> \o f[n \div r]
  BY <1>1 DEF HasDigits
<1>3. \A n \in 0..v : f[n] \in Seq(Nat)
  <2> DEFINE D == 0..(r - 1)
  <2>1. \A n \in 0..v : f[n] \in Seq(D)
    BY <1>2
  <2>2. \A d \in D : d \in Nat
    OBVIOUS
  <2> HIDE DEF D
  <2>3. ASSUME NEW n \in 0..v
        PROVE  f[n] \in Seq(Nat)
    <3>1. f[n] \in Seq(D)
      BY <2>1
    <3>2. \A i \in 1..Len(f[n]) : f[n][i] \in Nat
      BY <2>2, <3>1
    <3>3. QED
      BY <3>1, <3>2, Retyped
  <2>4. QED
    BY <2>3
<1> DEFINE S == {n \in 0..v : Len(f[n]) >= 1 /\ Value(p \o Reverse(f[n]), r) = n}
<1>4. ASSUME NEW n \in 0..v, \A y \in 0..(n - 1) : y \in S
      PROVE  n \in S
  <2>1. n \in Nat /\ r \in Int /\ r >= 2 /\ Value(p, r) = 0
    OBVIOUS
  <2>2. CASE n < r
    <3>1. f[n] = <<n>>
      BY <1>2, <2>2
    <3>2. p \o Reverse(<<n>>) = Append(p, n)
      BY DEF Reverse
    <3>3. Value(Append(p, n), r) = n
      <4>1. n \in Int /\ ~(n < 0) /\ 0 * r + n = n
        BY <2>1
      <4>2. QED
        BY <2>1, <4>1, ValueOfMore
    <3>4. Len(f[n]) >= 1
      BY <3>1
    <3>5. p \o Reverse(f[n]) = Append(p, n)
      BY <3>1, <3>2
    <3>6. QED
      BY <3>3, <3>4, <3>5
  <2>3. CASE ~(n < r)
    <3> DEFINE d == n % r
               m == n \div r
    <3>1. d \in Nat /\ m \in 0..(n - 1) /\ m * r + d = n
      <4>1. d \in 0..(r - 1) /\ m \in Nat /\ m < n /\ m * r + d = n
        BY <2>1, <2>3, Dividing
      <4> HIDE DEF d, m
      <4>2. QED
        BY <2>1, <4>1
    <3>2. f[n] = <<d>> \o f[m]
      BY <1>2, <2>3
    <3> HIDE DEF d, m
    <3>3. m \in 0..v /\ Value(p \o Reverse(f[m]), r) = m /\ Len(f[m]) >= 1
      BY <1>4, <3>1
    <3>4. f[m] \in Seq(Nat)
      BY <1>3, <3>3
    <3>5. Reverse(f[n]) = Append(Reverse(f[m]), d) /\ Reverse(f[m]) \in Seq(Nat)
      BY <3>1, <3>2, <3>4, ReverseMore
    <3>6. p \o Append(Reverse(f[m]), d) = Append(p \o Reverse(f[m]), d) /\ p \o Reverse(f[m]) \in Seq(Int)
      <4> DEFINE q == Reverse(f[m])
      <4>1. q \in Seq(Int)
        BY <3>5, Retyped
      <4> HIDE DEF q
      <4>2. p \o Append(q, d) = Append(p \o q, d) /\ p \o q \in Seq(Int)
        BY <3>1, <4>1
      <4>3. QED
        BY <4>2 DEF q
    <3>7. Value(p \o Reverse(f[n]), r) = m * r + d
      <4> DEFINE q == p \o Reverse(f[m])
      <4>1. q \in Seq(Int) /\ Value(q, r) = m /\ d \in Int /\ ~(d < 0)
        BY <3>1, <3>3, <3>6
      <4>2. p \o Reverse(f[n]) = Append(q, d)
        BY <3>5, <3>6
      <4> HIDE DEF q
      <4>3. Value(Append(q, d), r) = m * r + d
        BY <2>1, <4>1, ValueOfMore
      <4>4. QED
        BY <4>2, <4>3
    <3>8. Len(f[n]) >= 1
      BY <3>2, <3>4
    <3> HIDE DEF S
    <3>9. QED
      BY <3>1, <3>7, <3>8 DEF S
  <2>4. QED
    BY <2>2, <2>3
<1> HIDE DEF S
<1>5. v \in S
  <2>1. \A x \in 0..v : x \in S
    BY <1>4, Forwards
  <2>2. QED
    BY <2>1
<1>6. f[v] \in Seq(Nat)
  BY <1>3
<1>7. QED
  BY <1>2, <1>5, <1>6 DEF S

\* The width of a field is at least the number its digits stand for, and the
\* flag 0 makes it negative.
LEMMA FieldIsWide ==
    ASSUME NEW digits \in Seq(0..9)
    PROVE  /\ Field(FALSE, digits) \in Nat /\ Field(TRUE, digits) = -Field(FALSE, digits)
           /\ Field(FALSE, digits) >= Value(digits, 10)
<1> DEFINE n == Len(digits)
           Then(x, w) == w + w * 10 + digits[x]
           step == [p \in (1..n) \X Nat |-> Then(p[1], p[2])]
           Solves(w) == w = [x \in 0..n |-> IF x = 0 THEN 0 ELSE Then(x, w[x - 1])]
<1>1. n \in Nat /\ \A x \in 1..n : digits[x] \in Nat
  <2> DEFINE D == 0..9
  <2>1. digits \in Seq(D) /\ \A d \in D : d \in Nat
    OBVIOUS
  <2> HIDE DEF D
  <2>2. QED
    BY <2>1
<1>s. digits \in Seq(Int)
  BY <1>1, Retyped
<1> HIDE DEF n
<1>2. \A x \in 1..n : \A w \in Nat : Then(x, w) \in Nat
  BY <1>1
<1> HIDE DEF Then
<1>3. step \in [(1..n) \X Nat -> Nat] /\ \A x \in 1..n : \A w \in Nat : step[<<x, w>>] = Then(x, w)
  BY <1>2
<1> HIDE DEF step
<1>4. PICK f \in [0..n -> Nat] : Iterates(f, n, 0, step)
  <2> DEFINE V == Nat
             first == 0
  <2>1. n \in Nat /\ first \in V /\ step \in [(1..n) \X V -> V]
    BY <1>1, <1>3
  <2> HIDE DEF V, first
  <2>2. \E f \in [0..n -> V] : Iterates(f, n, first, step)
    BY <2>1, Iteration
  <2>3. QED
    BY <2>2 DEF V, first
<1>5. Solves(f)
  <2>1. \A x \in 0..n : x # 0 => x \in 1..n /\ f[x - 1] \in Nat
    BY <1>1
  <2>2. \A x \in 0..n : x # 0 => step[<<x, f[x - 1]>>] = Then(x, f[x - 1])
    BY <1>3, <2>1
  <2>3. QED
    BY <1>4, <2>2 DEF Iterates
<1> DEFINE g == CHOOSE g : Solves(g)
<1>6. Solves(g)
  BY <1>5
<1>7. Field(FALSE, digits) = g[n] /\ Field(TRUE, digits) = -g[n]
  BY DEF Field, n, Then
<1> HIDE DEF g
<1>8. \A x \in 0..n : g[x] = IF x = 0 THEN 0 ELSE Then(x, g[x - 1])
  BY <1>6
<1>9. g[0] = 0 /\ \A x \in 1..n : g[x] = g[x - 1] + g[x - 1] * 10 + digits[x]
  BY <1>1, <1>8 DEF Then
<1>10. PICK v : Values(v, digits, 10)
  BY <1>s, Valued
<1>11. /\ v \in [0..n -> Int] /\ v[0] = 0 /\ Value(digits, 10) = v[n]
       /\ \A x \in 1..n : v[x] = IF digits[x] < 0 THEN v[x - 1] ELSE v[x - 1] * 10 + digits[x]
  BY <1>10 DEF Values, n
<1> DEFINE S == {x \in 0..n : g[x] \in Nat /\ v[x] \in Nat /\ g[x] >= v[x]}
<1>12. ASSUME NEW x \in 0..n, \A y \in 0..(x - 1) : y \in S
       PROVE  x \in S
  <2>1. CASE x = 0
    BY <1>9, <1>11, <2>1
  <2>2. CASE x # 0
    <3>1. x \in 1..n /\ x - 1 \in 0..(x - 1)
      BY <1>1, <2>2
    <3>2. g[x - 1] \in Nat /\ v[x - 1] \in Nat /\ g[x - 1] >= v[x - 1] /\ digits[x] \in Nat
      BY <1>1, <1>12, <3>1
    <3>3. /\ g[x] = g[x - 1] + g[x - 1] * 10 + digits[x]
          /\ v[x] = v[x - 1] * 10 + digits[x]
      BY <1>9, <1>11, <3>1, <3>2
    <3>4. g[x] \in Nat /\ v[x] \in Nat /\ g[x] >= v[x]
      BY <3>2, <3>3
    <3>5. QED
      BY <3>4
  <2>3. QED
    BY <2>1, <2>2
<1> HIDE DEF S
<1>13. n \in S
  <2>1. \A x \in 0..n : x \in S
    BY <1>1, <1>12, Forwards
  <2>2. QED
    BY <1>1, <2>1
<1>14. QED
  BY <1>7, <1>11, <1>13 DEF S

LEMMA ReverseConcat ==
    ASSUME NEW S, NEW a \in Seq(S), NEW b \in Seq(S)
    PROVE  Reverse(a \o b) = Reverse(b) \o Reverse(a)
<1> DEFINE t == a \o b
           u == Reverse(b) \o Reverse(a)
           m == Len(a)
           n == Len(b)
<1>1. /\ m \in Nat /\ n \in Nat /\ t \in Seq(S) /\ Len(t) = m + n
      /\ \A i \in 1..m : t[i] = a[i]
      /\ \A i \in 1..n : t[m + i] = b[i]
  OBVIOUS
<1>2. /\ Reverse(a) \in Seq(S) /\ Len(Reverse(a)) = m /\ \A i \in 1..m : Reverse(a)[i] = a[m - i + 1]
      /\ Reverse(b) \in Seq(S) /\ Len(Reverse(b)) = n /\ \A i \in 1..n : Reverse(b)[i] = b[n - i + 1]
  BY DEF Reverse
<1>3. /\ u \in Seq(S) /\ Len(u) = m + n
      /\ \A i \in 1..n : u[i] = Reverse(b)[i]
      /\ \A i \in 1..m : u[n + i] = Reverse(a)[i]
  <2>1. /\ u \in Seq(S) /\ Len(u) = n + m
        /\ \A i \in 1..(n + m) : u[i] = IF i <= n THEN Reverse(b)[i] ELSE Reverse(a)[i - n]
    <3>1. u \in Seq(S) /\ IsJoin(u, Reverse(b), Reverse(a))
      BY <1>2, Joined
    <3> HIDE DEF u
    <3>2. QED
      BY <1>2, <3>1 DEF IsJoin
  <2> HIDE DEF u, m, n
  <2>2. \A i \in 1..m : n + i \in 1..(n + m) /\ ~(n + i <= n) /\ (n + i) - n = i
    BY <1>1
  <2>3. \A i \in 1..n : i \in 1..(n + m) /\ i <= n
    BY <1>1
  <2>4. QED
    BY <1>1, <2>1, <2>2, <2>3
<1> HIDE DEF t, u
<1>4. /\ Reverse(t) \in Seq(S) /\ Len(Reverse(t)) = m + n
      /\ \A i \in 1..(m + n) : Reverse(t)[i] = t[(m + n) - i + 1]
  BY <1>1 DEF Reverse
<1> HIDE DEF m, n
<1>5. ASSUME NEW i \in 1..(m + n)
      PROVE  Reverse(t)[i] = u[i]
  <2>1. Reverse(t)[i] = t[(m + n) - i + 1]
    BY <1>4
  <2>2. CASE i <= n
    <3>1. i \in 1..n /\ n - i + 1 \in 1..n /\ (m + n) - i + 1 = m + (n - i + 1)
      BY <1>1, <2>2
    <3>2. t[m + (n - i + 1)] = b[n - i + 1] /\ u[i] = b[n - i + 1]
      BY <1>1, <1>2, <1>3, <3>1
    <3>3. QED
      BY <2>1, <3>1, <3>2
  <2>3. CASE ~(i <= n)
    <3>1. i - n \in 1..m /\ m - (i - n) + 1 \in 1..m /\ (m + n) - i + 1 = m - (i - n) + 1 /\ i = n + (i - n)
      BY <1>1, <2>3
    <3>2. u[i] = Reverse(a)[i - n]
      BY <1>3, <3>1
    <3>3. QED
      BY <1>1, <1>2, <2>1, <3>1, <3>2
  <2>4. QED
    BY <2>2, <2>3
<1>6. Reverse(t) = u
  BY <1>1, <1>3, <1>4, <1>5
<1>7. QED
  BY <1>6 DEF t, u

\* The remainder by Word of the arguments.
LEMMA Remainder ==
    ASSUME NEW a \in Int, -Word <= a, a < Word
    PROVE  a % Word = IF a < 0 /\ a # -Word THEN a + Word ELSE IF a = -Word THEN 0 ELSE a
<1>1. Word \in Nat /\ Word > 0
  BY WordAssumption
<1>2. CASE a >= 0
  BY <1>1, <1>2
<1>3. CASE a < 0 /\ a # -Word
  BY <1>1, <1>3
<1>4. CASE a = -Word
  BY <1>1, <1>4
<1>5. QED
  BY <1>1, <1>2, <1>3, <1>4

\* What USARTItoa writes fills its field and reads back as the number, modulo
\* Word where no sign is printed.
LEMMA ItoaReadsBack ==
    ASSUME NEW val \in Numbers, NEW radix \in {-10, 10, 16}, NEW len \in -MaxField..MaxField
    PROVE  LET s == USARTItoa(val, radix, len)
               r == IF radix < 0 THEN -radix ELSE radix
               width == IF len < 0 THEN -len ELSE len
           IN  /\ s \in Seq(Int) /\ Len(s) >= 1 /\ Len(s) >= width
               /\ ReadBack(s, r) = val + (IF radix > 0 /\ val < 0 THEN Word ELSE 0)
<1> DEFINE negative == radix < 0 /\ val < 0
           r == IF radix < 0 THEN -radix ELSE radix
           v == (IF negative THEN -val ELSE val) % Word
           width == IF len < 0 THEN -len ELSE len
           digits == Digits(v, r)
           sign == IF negative THEN <<Sign>> ELSE <<>>
           s == digits \o sign
           padding == [x \in 1..(width - Len(s)) |-> IF len < 0 THEN 0 ELSE Blank]
           rest == sign \o padding
           P == Reverse(rest)
           R == USARTItoa(val, radix, len)
<1>1. R = Reverse(s \o padding)
  <2>1. ~(width > MaxField)
    BY DEF MaxField
  <2>2. R = IF width > MaxField THEN <<>> ELSE Reverse(s \o padding)
    BY DEF USARTItoa
  <2> HIDE DEF R, s, padding, width
  <2>3. QED
    BY <2>1, <2>2
<1>2. r \in {10, 16} /\ r \in Int /\ width \in Nat
  BY DEF MaxField
<1>3. v \in Nat /\ (negative => v = -val) /\ (~negative => v = val + (IF val < 0 THEN Word ELSE 0))
  <2> DEFINE h == Word \div 2
  <2>1. Word \in Nat /\ Word > 0
    BY WordAssumption
  <2>2. h \in Nat /\ h < Word
    BY <2>1
  <2>3. val \in -h..(h - 1)
    BY DEF Numbers
  <2> HIDE DEF h
  <2>4. CASE negative
    <3>1. -val \in Int /\ -Word <= -val /\ -val < Word /\ -val >= 0
      BY <2>1, <2>2, <2>3, <2>4
    <3>2. v = -val
      BY <3>1, <2>1, <2>4, Remainder
    <3>3. QED
      BY <2>4, <3>1, <3>2
  <2>5. CASE ~negative
    <3>1. val \in Int /\ -Word <= val /\ val < Word /\ val # -Word
      BY <2>1, <2>2, <2>3
    <3>2. v = IF val < 0 THEN val + Word ELSE val
      BY <3>1, <2>1, <2>5, Remainder
    <3>3. QED
      BY <2>1, <2>5, <3>1, <3>2
  <2>6. QED
    BY <2>4, <2>5
<1> HIDE DEF v, r, width
<1>4. digits \in Seq(Nat) /\ Len(digits) >= 1
  <2>1. <<>> \in Seq(Int) /\ Value(<<>>, r) = 0
    BY <1>2, ValueOfNone
  <2>2. QED
    BY <1>2, <1>3, <2>1, DigitsRead
<1> HIDE DEF digits
<1>5. digits \in Seq(Int) /\ Len(digits) \in Nat
  BY <1>4, Retyped
<1>6. sign \in Seq({Sign}) /\ sign \in Seq(Int) /\ Len(sign) \in Nat /\ (negative => sign = <<Sign>>)
      /\ (~negative => sign = <<>>)
  <2> HIDE DEF negative
  <2>1. CASE negative
    <3>1. sign = <<Sign>> /\ Sign \in Int
      BY <2>1 DEF Sign
    <3> HIDE DEF sign
    <3>2. QED
      BY <2>1, <3>1
  <2>2. CASE ~negative
    BY <2>2
  <2>3. QED
    BY <2>1, <2>2
<1> HIDE DEF sign
<1>7. s \in Seq(Int) /\ Len(s) = Len(digits) + Len(sign)
  BY <1>5, <1>6
<1> HIDE DEF s
<1>8. /\ padding \in Seq({0, Blank}) /\ padding \in Seq(Int) /\ Len(padding) \in Nat
      /\ Len(padding) >= width - Len(s)
  <2>1. width - Len(s) \in Int
    BY <1>2, <1>7
  <2> DEFINE k == width - Len(s)
  <2>2. CASE k >= 0
    <3>1. k \in Nat
      BY <2>1, <2>2
    <3> HIDE DEF k
    <3> DEFINE item == IF len < 0 THEN 0 ELSE Blank
    <3>2. padding = [x \in 1..k |-> item]
      BY DEF k
    <3>3. item \in {0, Blank} /\ item \in Int
      BY DEF Blank
    <3> HIDE DEF item, padding
    <3>4. padding \in Seq({0, Blank}) /\ padding \in Seq(Int) /\ Len(padding) = k
      BY <3>1, <3>2, <3>3
    <3>5. QED
      BY <2>1, <3>1, <3>4 DEF k
  <2>3. CASE ~(k >= 0)
    <3>1. 1..k = {}
      BY <2>1, <2>3
    <3>2. padding = <<>>
      BY <3>1
    <3> HIDE DEF padding
    <3>3. padding \in Seq({0, Blank}) /\ padding \in Seq(Int) /\ Len(padding) = 0
      BY <3>2
    <3>4. QED
      BY <2>1, <2>3, <3>3
  <2>4. QED
    BY <2>2, <2>3
<1> HIDE DEF padding
<1>9. /\ rest \in Seq(Int) /\ Len(rest) = Len(sign) + Len(padding)
      /\ \A i \in 1..Len(rest) : rest[i] <= 0
      /\ (\E i \in 1..Len(rest) : rest[i] = Sign) <=> negative
  <2>1. /\ rest \in Seq(Int) /\ Len(rest) = Len(sign) + Len(padding)
        /\ \A i \in 1..Len(rest) : rest[i] = IF i <= Len(sign) THEN sign[i] ELSE padding[i - Len(sign)]
    BY <1>6, <1>8
  <2>2. \A i \in 1..Len(padding) : padding[i] \in {0, Blank}
    BY <1>8
  <2>3. ASSUME NEW i \in 1..Len(rest)
        PROVE  rest[i] \in {0, Blank} \/ (rest[i] = Sign /\ negative)
    <3>1. CASE i <= Len(sign)
      BY <1>6, <2>1, <3>1
    <3>2. CASE ~(i <= Len(sign))
      <4>1. i - Len(sign) \in 1..Len(padding)
        BY <1>6, <1>8, <2>1, <3>2
      <4>2. QED
        BY <2>1, <2>2, <3>2, <4>1
    <3>3. QED
      BY <3>1, <3>2
  <2>4. Blank # Sign /\ Sign # 0 /\ Blank <= 0 /\ Sign <= 0
    BY DEF Blank, Sign
  <2>5. ASSUME negative
        PROVE  1 \in 1..Len(rest) /\ rest[1] = Sign
    <3>1. Len(sign) = 1 /\ sign[1] = Sign
      BY <1>6, <2>5
    <3> HIDE DEF rest, negative
    <3>2. 1 \in 1..Len(rest)
      BY <1>8, <2>1, <3>1
    <3>3. QED
      BY <2>1, <3>1, <3>2
  <2> HIDE DEF rest, negative
  <2>6. QED
    BY <2>1, <2>3, <2>4, <2>5
<1>10. R = P \o Reverse(digits)
  <2>1. s \o padding = digits \o rest
    BY <1>5, <1>6, <1>8 DEF s
  <2> HIDE DEF rest, R
  <2>2. Reverse(digits \o rest) = P \o Reverse(digits)
    BY <1>5, <1>9, ReverseConcat
  <2>3. QED
    BY <1>1, <2>1, <2>2
<1>11. /\ P \in Seq(Int) /\ Len(P) = Len(rest) /\ Len(rest) \in Nat
       /\ \A i \in 1..Len(P) : P[i] = rest[Len(rest) - i + 1]
  <2> HIDE DEF rest
  <2>1. QED
    BY <1>9 DEF Reverse
<1> DEFINE D == Reverse(digits)
<1>12. D \in Seq(Nat) /\ D \in Seq(Int) /\ Len(D) = Len(digits)
  <2>1. D \in Seq(Nat) /\ Len(D) = Len(digits)
    BY <1>4 DEF Reverse
  <2> HIDE DEF D
  <2>2. QED
    BY <2>1, Retyped
<1> HIDE DEF rest, P, R, D, negative
<1>13. R \in Seq(Int) /\ Len(R) = Len(P) + Len(D)
       /\ \A i \in 1..Len(R) : R[i] = IF i <= Len(P) THEN P[i] ELSE D[i - Len(P)]
  <2>1. R = P \o D
    BY <1>10 DEF D
  <2>2. /\ P \o D \in Seq(Int) /\ Len(P \o D) = Len(P) + Len(D)
        /\ \A i \in 1..(Len(P) + Len(D)) : (P \o D)[i] = IF i <= Len(P) THEN P[i] ELSE D[i - Len(P)]
    <3>1. P \o D \in Seq(Int) /\ IsJoin(P \o D, P, D)
      BY <1>11, <1>12, Joined
    <3>2. QED
      BY <3>1 DEF IsJoin
  <2>3. QED
    BY <2>1, <2>2
<1>14. Len(R) >= 1 /\ Len(R) >= width
  BY <1>2, <1>4, <1>5, <1>6, <1>7, <1>8, <1>9, <1>11, <1>12, <1>13
<1>15. Value(R, r) = v
  <2>1. \A i \in 1..Len(P) : P[i] <= 0
    <3>1. \A i \in 1..Len(P) : Len(rest) - i + 1 \in 1..Len(rest)
      BY <1>11
    <3>2. QED
      BY <1>9, <1>11, <3>1
  <2>2. Value(P, r) = 0
    BY <1>2, <1>11, <2>1, ValueOfPadding
  <2>3. Value(P \o Reverse(Digits(v, r)), r) = v
    BY <1>2, <1>3, <1>11, <2>2, DigitsRead
  <2>4. QED
    BY <1>10, <2>3 DEF digits
<1>16. Contains(R, Sign) <=> negative
  <2>1. ASSUME negative
        PROVE  \E i \in 1..Len(R) : R[i] = Sign
    <3>1. PICK j \in 1..Len(rest) : rest[j] = Sign
      BY <1>9, <2>1
    <3> DEFINE i == Len(rest) - j + 1
    <3>2. i \in 1..Len(P) /\ Len(rest) - i + 1 = j
      BY <1>11
    <3> HIDE DEF i
    <3>3. P[i] = Sign
      BY <1>11, <3>1, <3>2
    <3>4. i \in 1..Len(R) /\ i <= Len(P)
      BY <1>11, <1>12, <1>13, <3>2
    <3>5. QED
      BY <1>13, <3>3, <3>4
  <2>2. ASSUME NEW i \in 1..Len(R), R[i] = Sign
        PROVE  negative
    <3>1. CASE i <= Len(P)
      <4>1. P[i] = Sign /\ i \in 1..Len(P)
        BY <1>13, <2>2, <3>1
      <4>2. Len(rest) - i + 1 \in 1..Len(rest) /\ rest[Len(rest) - i + 1] = Sign
        <5>1. P[i] = rest[Len(rest) - i + 1]
          BY <1>11, <4>1
        <5>2. Len(rest) - i + 1 \in 1..Len(rest)
          BY <1>11, <4>1
        <5>3. QED
          BY <4>1, <5>1, <5>2
      <4>3. QED
        BY <1>9, <4>2
    <3>2. CASE ~(i <= Len(P))
      <4>1. R[i] = D[i - Len(P)] /\ i - Len(P) \in 1..Len(D)
        BY <1>11, <1>12, <1>13, <3>2
      <4>2. R[i] \in Nat
        BY <1>12, <4>1
      <4>3. QED
        BY <2>2, <4>2 DEF Sign
    <3>3. QED
      BY <3>1, <3>2
  <2>3. QED
    BY <2>1, <2>2 DEF Contains
<1>17. ReadBack(R, r) = IF negative THEN -v ELSE v
  BY <1>15, <1>16 DEF ReadBack
<1>18. ReadBack(R, r) = val + (IF radix > 0 /\ val < 0 THEN Word ELSE 0)
  <2>1. val \in Int /\ Word \in Int
    BY WordAssumption DEF Numbers
  <2>2. CASE negative
    <3>1. ~(radix > 0) /\ ReadBack(R, r) = -(-val)
      BY <1>3, <1>17, <2>2 DEF negative
    <3>2. QED
      BY <2>1, <3>1
  <2>3. CASE ~negative
    <3>1. ReadBack(R, r) = val + (IF val < 0 THEN Word ELSE 0)
      BY <1>3, <1>17, <2>3
    <3>2. val < 0 => radix > 0
      BY <2>3 DEF negative
    <3>3. QED
      BY <2>1, <3>1, <3>2
  <2>4. QED
    BY <2>2, <2>3
<1>19. QED
  BY <1>13, <1>14, <1>18 DEF R, r, width

-----------------------------------------------------------------------------
(* Lines of the log *)

\* The arguments the first x parts of a format take.
TakenBy(format, x) == Arguments(SubSeq(format, 1, x))
TakingParts(format, x) == {y \in 1..x : format[y].letter # ""}

LEMMA ArgumentsTaken ==
    ASSUME NEW T, NEW format \in Seq(T)
    PROVE  /\ TakenBy(format, 0) = 0
           /\ \A x \in 0..Len(format) : TakenBy(format, x) \in Nat /\ TakenBy(format, x) <= Arguments(format)
           /\ \A x \in 1..Len(format) :
                  /\ format[x].letter = "" => TakenBy(format, x) = TakenBy(format, x - 1)
                  /\ format[x].letter # "" => TakenBy(format, x) = TakenBy(format, x - 1) + 1
<1> DEFINE n == Len(format)
           C(x) == Cardinality(TakingParts(format, x))
<1>1. n \in Nat /\ DOMAIN format = 1..n
  OBVIOUS
<1>2. \A x \in 0..n : TakenBy(format, x) = C(x)
  <2>1. ASSUME NEW x \in 0..n
        PROVE  TakenBy(format, x) = C(x)
    <3> DEFINE t == SubSeq(format, 1, x)
    <3>1. DOMAIN t = 1..x /\ \A y \in 1..x : t[y] = format[y]
      OBVIOUS
    <3> HIDE DEF t
    <3>2. {y \in DOMAIN t : t[y].letter # ""} = TakingParts(format, x)
      BY <3>1 DEF TakingParts
    <3>3. QED
      BY <3>2 DEF TakenBy, Arguments, t
  <2>2. QED
    BY <2>1
<1> HIDE DEF n
<1>3. Arguments(format) = C(n)
  BY <1>1 DEF Arguments, TakingParts
<1>4. \A x \in 0..n : IsFiniteSet(TakingParts(format, x)) /\ C(x) \in Nat
  <2>1. ASSUME NEW x \in 0..n
        PROVE  IsFiniteSet(TakingParts(format, x)) /\ C(x) \in Nat
    <3>1. IsFiniteSet(1..x)
      BY <1>1, FS_Interval
    <3>2. TakingParts(format, x) \subseteq 1..x
      BY DEF TakingParts
    <3>3. IsFiniteSet(TakingParts(format, x))
      BY <3>1, <3>2, FS_Subset
    <3>4. QED
      BY <3>3, FS_CardinalityType
  <2>2. QED
    BY <2>1
<1>5. ASSUME NEW x \in 1..n
      PROVE  /\ format[x].letter = "" => C(x) = C(x - 1)
             /\ format[x].letter # "" => C(x) = C(x - 1) + 1
  <2>1. x - 1 \in 0..n /\ ~(x \in 1..(x - 1)) /\ x \in 1..x
    BY <1>1
  <2>2. \A y : y \in 1..x <=> y \in 1..(x - 1) \/ y = x
    BY <1>1
  <2>3. x \notin TakingParts(format, x - 1)
    BY <2>1 DEF TakingParts
  <2>4. CASE format[x].letter = ""
    <3>1. TakingParts(format, x) = TakingParts(format, x - 1)
      BY <2>2, <2>4 DEF TakingParts
    <3>2. QED
      BY <2>4, <3>1
  <2>5. CASE format[x].letter # ""
    <3>1. TakingParts(format, x) = TakingParts(format, x - 1) \union {x}
      BY <2>2, <2>5 DEF TakingParts
    <3>2. C(x) = C(x - 1) + 1
      BY <1>4, <2>1, <2>3, <3>1, FS_AddElement
    <3> HIDE DEF C
    <3>3. QED
      BY <2>5, <3>2
  <2>6. QED
    BY <2>4, <2>5
<1>6. ASSUME NEW x \in 0..n
      PROVE  C(x) <= C(n)
  <2>1. 1..x \subseteq 1..n /\ n \in 0..n
    BY <1>1
  <2>2. TakingParts(format, x) \subseteq TakingParts(format, n)
    BY <2>1 DEF TakingParts
  <2>3. QED
    BY <1>4, <2>1, <2>2, FS_Subset
<1>7. C(0) = 0
  <2>1. 1..0 = {}
    OBVIOUS
  <2>2. TakingParts(format, 0) = {}
    BY <2>1 DEF TakingParts
  <2>3. QED
    BY <2>2, FS_EmptySet
<1>8. \A x \in 1..n : x \in 0..n /\ x - 1 \in 0..n
  BY <1>1
<1>9. 0 \in 0..n
  BY <1>1
<1> HIDE DEF C
<1>10. \A x \in 1..n :
           /\ format[x].letter = "" => TakenBy(format, x) = TakenBy(format, x - 1)
           /\ format[x].letter # "" => TakenBy(format, x) = TakenBy(format, x - 1) + 1
  BY <1>2, <1>5, <1>8
<1>11. \A x \in 0..n : TakenBy(format, x) \in Nat /\ TakenBy(format, x) <= Arguments(format)
  BY <1>2, <1>3, <1>4, <1>6 DEF C
<1>12. TakenBy(format, 0) = 0
  BY <1>2, <1>7, <1>9
<1>13. QED
  BY <1>10, <1>11, <1>12 DEF n

\* What a part adds to the line, given its argument, and the state it leaves.
Text(part, arg) ==
    IF part.letter = "" THEN <<part.char>>
    ELSE IF part.letter \in {"s", "c"} THEN <<arg>>
    ELSE USARTItoa(arg, Radix(part.letter), Field(part.zero, part.width))
Put(args, s, part) ==
    IF s.ended THEN s
    ELSE IF part.letter = "" THEN [s EXCEPT !.out = Append(@, part.char)]
    ELSE IF part.letter \in {"s", "c"}
         THEN [s EXCEPT !.out = Append(@, args[s.taken + 1]), !.taken = @ + 1]
    ELSE IF Radix(part.letter) = 0 THEN [s EXCEPT !.ended = TRUE]
    ELSE [s EXCEPT !.out = @ \o USARTItoa(args[s.taken + 1], Radix(part.letter),
                                          Field(part.zero, part.width)),
                   !.taken = @ + 1]
Printed == [out : Seq(Int), taken : Nat, ended : BOOLEAN]
KnownLetters == {"", "s", "c", "d", "u", "x", "X"}

\* A part of a line, and an argument it can be given.
IsPart(part) ==
    /\ part.letter \in {""} \union Conversions
    /\ part.letter = "" => part.char \in Int
    /\ part.letter # "" => /\ part.zero \in BOOLEAN /\ part.width \in Seq(0..9)
                           /\ Field(FALSE, part.width) <= MaxField
Suits(arg, part) == part.letter # "" => arg \in Numbers

LEMMA LineParts ==
    ASSUME NEW line, IsLine(line), NEW x \in 1..Len(line.format)
    PROVE  IsPart(line.format[x])
<1> DEFINE characters == [letter : {""}, char : Int]
           conversions == [letter : Conversions, zero : BOOLEAN, width : Seq(0..9)]
           part == line.format[x]
<1>1. line.format \in Seq(characters \union conversions) /\ DOMAIN line.format = 1..Len(line.format)
  <2>1. line.format \in Seq(characters \union conversions)
    BY DEF IsLine
  <2> HIDE DEF characters, conversions
  <2>2. QED
    BY <2>1
<1>2. "" \notin Conversions
  BY DEF Conversions
<1>3. part.letter # "" => Field(FALSE, part.width) <= MaxField
  BY <1>1 DEF IsLine
<1>4. part \in characters \/ part \in conversions
  <2> HIDE DEF characters, conversions
  <2>1. QED
    BY <1>1
<1>5. CASE part \in characters
  BY <1>3, <1>5 DEF IsPart
<1>6. CASE part \in conversions
  BY <1>2, <1>3, <1>6 DEF IsPart
<1>7. QED
  BY <1>4, <1>5, <1>6

\* What is known of the text of a part: it is as the property says.
SaysPart(part, arg, s) ==
    IF part.letter = "" THEN s = <<part.char>>
    ELSE IF part.letter \in {"s", "c"} THEN s = <<arg>>
    ELSE LET radix == IF part.letter \in {"x", "X"} THEN 16 ELSE 10
             negative == part.letter # "d" /\ arg < 0
         IN  /\ Len(s) >= Value(part.width, 10)
             /\ ReadBack(s, radix) = arg + (IF negative THEN Word ELSE 0)

LEMMA TextSays ==
    ASSUME NEW part, IsPart(part), part.letter \in KnownLetters, NEW arg, Suits(arg, part)
    PROVE  /\ Text(part, arg) \in Seq(Int) /\ Len(Text(part, arg)) >= 1
           /\ SaysPart(part, arg, Text(part, arg))
<1> DEFINE s == Text(part, arg)
<1>1. /\ part.letter = "" => part.char \in Int
      /\ part.letter # "" => /\ part.zero \in BOOLEAN /\ part.width \in Seq(0..9)
                             /\ Field(FALSE, part.width) <= MaxField
  BY DEF IsPart
<1>2. part.letter \in KnownLetters /\ (part.letter # "" => arg \in Numbers)
  BY DEF Suits
<1>3. CASE part.letter = ""
  <2>1. Text(part, arg) = <<part.char>> /\ part.char \in Int /\ SaysPart(part, arg, <<part.char>>)
    BY <1>1, <1>3 DEF Text, SaysPart
  <2>2. QED
    BY <2>1
<1>4. CASE part.letter \in {"s", "c"}
  <2>1. arg \in Int
    <3>1. arg \in Numbers
      BY <1>2, <1>4
    <3>2. QED
      BY <3>1, WordAssumption DEF Numbers
  <2>2. part.letter # "" /\ Text(part, arg) = <<arg>> /\ SaysPart(part, arg, <<arg>>)
    BY <1>4 DEF Text, SaysPart
  <2>3. <<arg>> \in Seq(Int) /\ Len(<<arg>>) = 1
    BY <2>1
  <2>4. Len(Text(part, arg)) >= 1
    <3>1. Len(Text(part, arg)) = 1
      BY <2>2, <2>3, Zenon
    <3>2. QED
      BY <3>1
  <2>5. Text(part, arg) \in Seq(Int) /\ SaysPart(part, arg, Text(part, arg))
    BY <2>2, <2>3, Zenon
  <2>6. QED
    BY <2>4, <2>5
<1>5. CASE part.letter \in {"d", "u", "x", "X"}
  <2> DEFINE radix == Radix(part.letter)
             len == Field(part.zero, part.width)
             r == IF radix < 0 THEN -radix ELSE radix
             width == IF len < 0 THEN -len ELSE len
             S == USARTItoa(arg, radix, len)
  <2>0. part.letter # "" /\ arg \in Numbers
    BY <1>2, <1>5
  <2>1. radix \in {-10, 10, 16} /\ (radix > 0 <=> part.letter # "d")
        /\ (part.letter \in {"x", "X"} => r = 16) /\ (part.letter \notin {"x", "X"} => r = 10)
    <3>1. CASE part.letter = "d"
      <4>1. radix = -10
        BY <3>1 DEF Radix
      <4> HIDE DEF radix
      <4>2. r = 10 /\ radix \in {-10, 10, 16} /\ ~(radix > 0)
        <5>0. radix \in Int
          BY <4>1
        <5>1. radix < 0 /\ -radix = 10 /\ ~(radix > 0)
          <6>1. radix < 0 /\ radix + 10 = 0
            BY <4>1, <5>0
          <6>2. \A k \in Int : k < 0 /\ k + 10 = 0 => -k = 10 /\ ~(k > 0)
            OBVIOUS
          <6>3. QED
            BY <5>0, <6>1, <6>2
        <5>2. radix \in {-10, 10, 16}
          BY <4>1, Zenon
        <5>3. QED
          BY <5>1, <5>2, Zenon
      <4> HIDE DEF r
      <4>3. QED
        BY <3>1, <4>2
    <3>2. CASE part.letter = "u"
      <4>1. radix = 10
        BY <3>2 DEF Radix
      <4> HIDE DEF radix
      <4>2. r = 10 /\ radix \in {-10, 10, 16} /\ radix > 0
        BY <4>1
      <4> HIDE DEF r
      <4>3. QED
        BY <3>2, <4>2
    <3>3. CASE part.letter \in {"x", "X"}
      <4>1. radix = 16
        BY <3>3 DEF Radix
      <4> HIDE DEF radix
      <4>2. r = 16 /\ radix \in {-10, 10, 16} /\ radix > 0
        BY <4>1
      <4> HIDE DEF r
      <4>3. QED
        BY <3>3, <4>2
    <3>4. QED
      BY <1>5, <3>1, <3>2, <3>3
  <2>2. /\ Field(FALSE, part.width) \in Nat /\ Field(TRUE, part.width) = -Field(FALSE, part.width)
        /\ Field(FALSE, part.width) >= Value(part.width, 10)
    BY <1>1, <2>0, FieldIsWide
  <2>3. len \in -MaxField..MaxField /\ width = Field(FALSE, part.width)
    <3> DEFINE w == Field(FALSE, part.width)
    <3>1. (part.zero = TRUE \/ part.zero = FALSE) /\ w \in 0..20
      <4>1. part.zero \in BOOLEAN /\ w <= 20 /\ w \in Nat
        BY <1>1, <2>0, <2>2 DEF MaxField
      <4> HIDE DEF w
      <4>2. QED
        BY <4>1
    <3>2. CASE part.zero = TRUE
      <4>1. len = -w
        BY <2>2, <3>2
      <4> HIDE DEF len, w
      <4>2. len \in -MaxField..MaxField /\ width = w
        BY <3>1, <4>1 DEF MaxField
      <4>3. QED
        BY <4>2 DEF w
    <3>3. CASE part.zero = FALSE
      <4>1. len = w
        BY <3>3
      <4> HIDE DEF len, w
      <4>2. len \in -MaxField..MaxField /\ width = w
        BY <3>1, <4>1 DEF MaxField
      <4>3. QED
        BY <4>2 DEF w
    <3>4. QED
      BY <3>1, <3>2, <3>3
  <2> HIDE DEF radix, len
  <2>4. /\ S \in Seq(Int) /\ Len(S) >= 1 /\ Len(S) >= width
        /\ ReadBack(S, r) = arg + (IF radix > 0 /\ arg < 0 THEN Word ELSE 0)
    BY <2>0, <2>1, <2>3, ItoaReadsBack
  <2> HIDE DEF r, width, S
  <2>5. s = S
    BY <1>5, <2>0 DEF Text, S, radix, len
  <2>6. Value(part.width, 10) \in Int
    <3> DEFINE D == 0..9
    <3>1. part.width \in Seq(D)
      BY <1>1, <2>0
    <3>i. \A d \in D : d \in Int
      OBVIOUS
    <3> HIDE DEF D
    <3>2. part.width \in Seq(Int)
      BY <3>1, <3>i, Retyped
    <3>3. QED
      BY <3>2, ValueOfMore
  <2>7. Len(S) \in Nat /\ Len(S) >= Value(part.width, 10)
    <3> DEFINE w == Field(FALSE, part.width)
               k == Value(part.width, 10)
    <3>1. w \in Nat /\ w >= k /\ k \in Int
      BY <2>2, <2>6, Zenon
    <3>2. Len(S) >= w
      BY <2>3, <2>4, Zenon
    <3>3. Len(S) \in Nat
      BY <2>4
    <3> HIDE DEF w, k
    <3>4. Len(S) >= k
      BY <3>1, <3>2, <3>3
    <3>5. QED
      BY <3>3, <3>4 DEF k
  <2>8. SaysPart(part, arg, S)
    BY <1>5, <2>0, <2>1, <2>4, <2>7 DEF SaysPart
  <2>9. QED
    BY <2>4, <2>5, <2>8
<1>6. QED
  BY <1>2, <1>3, <1>4, <1>5 DEF KnownLetters

\* One character more.
LEMMA Appended ==
    ASSUME NEW s \in Seq(Int), NEW c \in Int
    PROVE  Append(s, c) = s \o <<c>> /\ s \o <<c>> \in Seq(Int)
  OBVIOUS

\* What a part does to the line.
Prints(args, s, part, t) ==
    /\ t \in Printed
    /\ s.ended => t = s
    /\ ~s.ended /\ part.letter \notin KnownLetters => t.ended /\ t.out = s.out /\ t.taken = s.taken
    /\ ~s.ended /\ part.letter \in KnownLetters =>
           /\ ~t.ended /\ t.out = s.out \o Text(part, args[s.taken + 1])
           /\ part.letter = "" => t.taken = s.taken
           /\ part.letter # "" => t.taken = s.taken + 1

LEMMA PutPrints ==
    ASSUME NEW args, NEW s \in Printed, NEW part, IsPart(part), Suits(args[s.taken + 1], part)
    PROVE  Prints(args, s, part, Put(args, s, part))
<1> DEFINE arg == args[s.taken + 1]
           text == Text(part, arg)
           t == Put(args, s, part)
<1>1. s.out \in Seq(Int) /\ s.taken \in Nat /\ s.ended \in BOOLEAN
      /\ s = [out |-> s.out, taken |-> s.taken, ended |-> s.ended]
  BY DEF Printed
<1>2. Suits(arg, part)
  OBVIOUS
<1>3. part.letter \in KnownLetters => text \in Seq(Int)
  BY <1>2, TextSays
<1>k. s.taken + 1 \in Nat /\ FALSE \in BOOLEAN /\ TRUE \in BOOLEAN
  BY <1>1
<1>t. ~s.ended /\ part.letter \in KnownLetters => s.out \o text \in Seq(Int)
  <2>1. \A u \in Seq(Int) : s.out \o u \in Seq(Int)
    BY <1>1
  <2>2. QED
    BY <1>3, <2>1, Zenon
<1>4. \A o \in Seq(Int), k \in Nat, e \in BOOLEAN : [out |-> o, taken |-> k, ended |-> e] \in Printed
  BY DEF Printed
<1> HIDE DEF text, arg
<1>5. CASE s.ended
  <2>1. t = s
    BY <1>5 DEF Put
  <2>2. QED
    BY <1>5, <2>1 DEF Prints
<1>6. CASE ~s.ended /\ part.letter = ""
  <2>1. t = [out |-> Append(s.out, part.char), taken |-> s.taken, ended |-> FALSE]
    BY <1>1, <1>6 DEF Put
  <2>2. part.char \in Int /\ text = <<part.char>> /\ part.letter \in KnownLetters
    BY <1>6 DEF IsPart, Text, KnownLetters, text
  <2>3. Append(s.out, part.char) = s.out \o text /\ s.out \o text \in Seq(Int)
    BY <1>1, <2>2, Appended
  <2> HIDE DEF t, text
  <2>4. t \in Printed
    BY <1>1, <1>4, <1>k, <2>1, <2>3, Zenon
  <2>5. t.out = s.out \o text /\ t.taken = s.taken /\ ~t.ended
    BY <2>1, <2>3
  <2>6. Prints(args, s, part, t)
    BY <1>6, <2>2, <2>4, <2>5, Zenon DEF Prints, text, arg
  <2>7. QED
    BY <2>6 DEF t
<1>7. CASE ~s.ended /\ part.letter \in {"s", "c"}
  <2>1. t = [out |-> Append(s.out, arg), taken |-> s.taken + 1, ended |-> FALSE]
    BY <1>1, <1>7 DEF Put, arg
  <2>2. text = <<arg>> /\ part.letter \in KnownLetters /\ part.letter # ""
    BY <1>7 DEF Text, KnownLetters, text
  <2>a. arg \in Int
    <3>1. arg \in Numbers
      BY <1>2, <2>2 DEF Suits
    <3>2. QED
      BY <3>1, WordAssumption DEF Numbers
  <2>3. Append(s.out, arg) = s.out \o text /\ s.out \o text \in Seq(Int)
    BY <1>1, <2>2, <2>a, Appended
  <2> HIDE DEF t, text, arg
  <2>4. t \in Printed
    BY <1>1, <1>4, <1>k, <2>1, <2>3, Zenon
  <2>5. t.out = s.out \o text /\ t.taken = s.taken + 1 /\ ~t.ended
    BY <2>1, <2>3
  <2>6. Prints(args, s, part, t)
    BY <1>7, <2>2, <2>4, <2>5, Zenon DEF Prints, text, arg
  <2>7. QED
    BY <2>6 DEF t
<1>8. CASE ~s.ended /\ part.letter \in {"d", "u", "x", "X"}
  <2>1. Radix(part.letter) # 0 /\ part.letter \in KnownLetters /\ part.letter \notin {"", "s", "c"}
    <3>1. part.letter \in KnownLetters /\ part.letter \notin {"", "s", "c"}
      BY <1>8 DEF KnownLetters
    <3>2. Radix(part.letter) \in {-10, 10, 16}
      BY <1>8 DEF Radix
    <3>3. \A k \in Int : k = -10 \/ k = 10 \/ k = 16 => k # 0
      OBVIOUS
    <3>4. Radix(part.letter) \in Int
      <4>1. -10 \in Int /\ 10 \in Int /\ 16 \in Int
        OBVIOUS
      <4>2. QED
        BY <3>2, <4>1, Zenon
    <3>5. QED
      BY <3>1, <3>2, <3>3, <3>4, Zenon
  <2>2. t = [out |-> s.out \o text, taken |-> s.taken + 1, ended |-> FALSE]
    BY <1>1, <1>8, <2>1 DEF Put, Text, text, arg
  <2> HIDE DEF t, text
  <2>3. s.out \o text \in Seq(Int)
    BY <1>8, <1>t, <2>1
  <2>4. t \in Printed
    BY <1>1, <1>4, <1>k, <2>2, <2>3, Zenon
  <2>5. t.out = s.out \o text /\ t.taken = s.taken + 1 /\ ~t.ended
    BY <2>2, <2>3
  <2>6. Prints(args, s, part, t)
    BY <1>8, <2>2, <2>4, <2>5, <2>1, Zenon DEF Prints, text, arg
  <2>7. QED
    BY <2>6 DEF t
<1>9. CASE ~s.ended /\ part.letter = "z"
  <2>1. Radix(part.letter) = 0 /\ part.letter \notin KnownLetters /\ part.letter \notin {"", "s", "c"}
    BY <1>9 DEF Radix, KnownLetters
  <2>2. t = [out |-> s.out, taken |-> s.taken, ended |-> TRUE]
    BY <1>1, <1>9, <2>1 DEF Put
  <2> HIDE DEF t
  <2>4. t \in Printed
    BY <1>1, <1>4, <1>k, <2>2, Zenon
  <2>5. QED
    BY <1>9, <2>1, <2>2, <2>4 DEF Prints, t
<1>10. QED
  <2>1. part.letter \in {"", "s", "c", "d", "u", "x", "X", "z"}
    BY DEF IsPart, Conversions
  <2>2. QED
    BY <1>5, <1>6, <1>7, <1>8, <1>9, <2>1

\* The states of a line, part by part.
PrintsAll(g, format, args) ==
    /\ g \in [0..Len(format) -> Printed]
    /\ g[0] = [out |-> <<>>, taken |-> 0, ended |-> FALSE]
    /\ \A x \in 1..Len(format) : Prints(args, g[x - 1], format[x], g[x]) /\ Suits(args[g[x - 1].taken + 1], format[x])
    /\ UART_Printf(format, args) = g[Len(format)]
\* No more arguments are taken than the parts so far ask for.
Within(format, x) == {s \in Printed : s.taken <= TakenBy(format, x)}

\* While it holds, a part finds its argument.
LEMMA PartPrints ==
    ASSUME NEW line, IsLine(line), NEW x \in 1..Len(line.format), NEW s \in Within(line.format, x - 1)
    PROVE  /\ Suits(line.args[s.taken + 1], line.format[x])
           /\ Prints(line.args, s, line.format[x], Put(line.args, s, line.format[x]))
           /\ Put(line.args, s, line.format[x]) \in Within(line.format, x)
<1> DEFINE format == line.format
           args == line.args
           part == format[x]
           t == Put(args, s, part)
           a == TakenBy(format, x - 1)
           b == TakenBy(format, x)
           k == s.taken
<1>1. s \in Printed /\ k \in Nat /\ k <= a
  BY DEF Within, Printed
<1>2. /\ x - 1 \in 0..Len(format) /\ x \in 0..Len(format)
      /\ a \in Nat /\ b \in Nat /\ b <= Arguments(format)
      /\ part.letter = "" => b = a
      /\ part.letter # "" => b = a + 1
  <2>1. PICK T : format \in Seq(T)
    BY DEF IsLine
  <2>2. x - 1 \in 0..Len(format) /\ x \in 0..Len(format)
    BY <2>1
  <2>3. QED
    BY <2>1, <2>2, ArgumentsTaken
<1>3. IsPart(part)
  BY LineParts
<1>4. Arguments(format) <= Len(args) /\ args \in Seq(Numbers)
  BY DEF IsLine
<1>5. Suits(args[k + 1], part)
  <2>1. ASSUME part.letter # ""
        PROVE  args[k + 1] \in Numbers
    <3> DEFINE N == Numbers
               m == Arguments(format)
    <3>1. args \in Seq(N) /\ m <= Len(args)
      BY <1>4
    <3>2. b = a + 1 /\ a \in Nat /\ b <= m
      BY <1>2, <2>1
    <3>m. m \in Nat
      <4>1. PICK T : format \in Seq(T)
        BY DEF IsLine
      <4> HIDE DEF format, b, a
      <4>2. Len(format) \in 0..Len(format)
        BY <4>1
      <4>3. TakenBy(format, Len(format)) \in Nat
        BY <4>1, <4>2, ArgumentsTaken
      <4>4. SubSeq(format, 1, Len(format)) = format
        BY <4>1
      <4>5. QED
        BY <4>3, <4>4 DEF TakenBy
    <3> HIDE DEF N, m, a, b, args, k
    <3>3. k + 1 \in 1..Len(args)
      BY <1>1, <3>1, <3>2, <3>m
    <3>4. QED
      BY <3>1, <3>3 DEF N
  <2>2. QED
    BY <2>1 DEF Suits
<1>6. Prints(args, s, part, t)
  BY <1>1, <1>3, <1>5, PutPrints
<1>7. t \in Printed /\ t.taken \in Nat /\ (t.taken = k \/ (part.letter # "" /\ t.taken = k + 1))
  <2>1. t \in Printed
    BY <1>6 DEF Prints
  <2>2. t.taken \in Nat
    BY <2>1 DEF Printed
  <2>3. s.ended => t.taken = k
    BY <1>6 DEF Prints
  <2>4. QED
    BY <1>6, <2>1, <2>2, <2>3, Zenon DEF Prints
<1>8. t.taken <= b
  <2> DEFINE c == t.taken
             l == part.letter # ""
  <2>1. c \in Nat /\ (c = k \/ (l /\ c = k + 1)) /\ k \in Nat /\ k <= a /\ a \in Nat /\ b \in Nat
        /\ (~l => b = a) /\ (l => b = a + 1)
    BY <1>1, <1>2, <1>7, Zenon
  <2> HIDE DEF c, l, a, b, k
  <2>2. c <= b
    <3>1. CASE l
      BY <2>1, <3>1
    <3>2. CASE ~l
      BY <2>1, <3>2
    <3>3. QED
      BY <3>1, <3>2
  <2>3. QED
    BY <2>2 DEF c
<1>9. t \in Within(format, x)
  BY <1>7, <1>8 DEF Within
<1>10. QED
  BY <1>5, <1>6, <1>9

LEMMA Printing ==
    ASSUME NEW line, IsLine(line)
    PROVE  \E g : PrintsAll(g, line.format, line.args)
<1> DEFINE format == line.format
           args == line.args
           n == Len(format)
           first == [out |-> <<>>, taken |-> 0, ended |-> FALSE]
           Then(x, s) == Put(args, s, format[x])
           Checked(x, s) == IF Then(x, s) \in Printed THEN Then(x, s) ELSE s
           V == Printed
           step == [p \in (1..n) \X V |-> Checked(p[1], p[2])]
           Solves(f) == f = [x \in 0..n |-> IF x = 0 THEN first ELSE Then(x, f[x - 1])]
           W(x) == Within(format, x)
<1>1. n \in Nat
  <2>1. PICK T : format \in Seq(T)
    BY DEF IsLine
  <2>2. QED
    BY <2>1
<1>2. first \in V /\ first \in W(0)
  <2>1. first \in Printed
    <3>1. <<>> \in Seq(Int) /\ 0 \in Nat /\ FALSE \in BOOLEAN
      OBVIOUS
    <3>2. QED
      BY <3>1, Zenon DEF Printed
  <2>2. TakenBy(format, 0) = 0
    <3>1. PICK T : format \in Seq(T)
      BY DEF IsLine
    <3>2. QED
      BY <3>1, ArgumentsTaken
  <2>3. first.taken <= TakenBy(format, 0)
    <3>1. first.taken = 0 /\ 0 <= 0
      OBVIOUS
    <3>2. QED
      BY <2>2, <3>1
  <2>4. QED
    BY <2>1, <2>3 DEF Within
<1>3. ASSUME NEW x \in 1..n, NEW s \in W(x - 1)
      PROVE  Then(x, s) \in W(x) /\ Then(x, s) \in Printed /\ Prints(args, s, format[x], Then(x, s))
             /\ Suits(args[s.taken + 1], format[x])
  BY PartPrints DEF Within
<1>w. \A x : W(x) \subseteq V
  BY DEF Within
<1> HIDE DEF n, first, Then, V, W
<1>4. \A x \in 1..n : \A s \in V : Checked(x, s) \in V
  BY DEF V
<1>5. \A x \in 1..n : \A s \in W(x - 1) : Checked(x, s) = Then(x, s)
  BY <1>3
<1> HIDE DEF Checked
<1>6. step \in [(1..n) \X V -> V] /\ \A x \in 1..n : \A s \in V : step[<<x, s>>] = Checked(x, s)
  BY <1>4
<1> HIDE DEF step
<1>7. PICK f \in [0..n -> V] : Iterates(f, n, first, step)
  BY <1>1, <1>2, <1>6, Iteration
<1>8. f[0] = first /\ \A x \in 1..n : f[x] = Checked(x, f[x - 1])
  <2>1. \A x \in 0..n : f[x] = IF x = 0 THEN first ELSE step[<<x, f[x - 1]>>]
    BY <1>7 DEF Iterates
  <2>2. 0 \in 0..n /\ \A x \in 1..n : x \in 0..n /\ x # 0 /\ x - 1 \in 0..n
    BY <1>1
  <2>3. QED
    BY <1>6, <2>1, <2>2
<1> DEFINE S == {x \in 0..n : f[x] \in W(x)}
<1>9. ASSUME NEW x \in 0..n, \A y \in 0..(x - 1) : y \in S
      PROVE  x \in S
  <2>1. CASE x = 0
    BY <1>2, <1>8, <2>1
  <2>2. CASE x # 0
    <3>1. x \in 1..n /\ x - 1 \in 0..(x - 1)
      BY <1>1, <2>2
    <3>2. f[x - 1] \in W(x - 1)
      BY <1>9, <3>1
    <3>3. f[x] = Then(x, f[x - 1])
      BY <1>5, <1>8, <3>1, <3>2
    <3>4. QED
      BY <1>3, <3>1, <3>2, <3>3
  <2>3. QED
    BY <2>1, <2>2
<1> HIDE DEF S
<1>10. \A x \in 0..n : x \in S
  BY <1>1, <1>9, Forwards
<1>11. Solves(f)
  <2>1. \A x \in 0..n : x # 0 => x \in 1..n /\ x - 1 \in 0..n
    BY <1>1
  <2>2. \A x \in 0..n : f[x] = IF x = 0 THEN first ELSE Then(x, f[x - 1])
    BY <1>5, <1>8, <1>10, <2>1 DEF S
  <2>3. f = [x \in 0..n |-> f[x]]
    BY <1>7
  <2>4. QED
    BY <2>2, <2>3
<1> DEFINE g == CHOOSE g : Solves(g)
<1>12. Solves(g)
  BY <1>11
<1>13. UART_Printf(format, args) = g[n]
  BY DEF UART_Printf, Put, n, first, Then
<1> HIDE DEF g
<1>14. g[0] = first /\ \A x \in 1..n : g[x] = Then(x, g[x - 1])
  <2>1. \A x \in 0..n : g[x] = IF x = 0 THEN first ELSE Then(x, g[x - 1])
    BY <1>12
  <2>2. 0 \in 0..n /\ \A x \in 1..n : x \in 0..n /\ x # 0
    BY <1>1
  <2>3. QED
    BY <2>1, <2>2
<1> DEFINE R == {x \in 0..n : g[x] \in W(x)}
<1>15. ASSUME NEW x \in 0..n, \A y \in 0..(x - 1) : y \in R
       PROVE  x \in R
  <2>1. CASE x = 0
    BY <1>2, <1>14, <2>1
  <2>2. CASE x # 0
    <3>1. x \in 1..n /\ x - 1 \in 0..(x - 1)
      BY <1>1, <2>2
    <3>2. g[x - 1] \in W(x - 1)
      BY <1>15, <3>1
    <3>3. QED
      BY <1>3, <1>14, <3>1, <3>2
  <2>3. QED
    BY <2>1, <2>2
<1> HIDE DEF R
<1>16. \A x \in 0..n : x \in R
  BY <1>1, <1>15, Forwards
<1>17. g \in [0..n -> Printed]
  BY <1>12, <1>16, <1>w DEF R, V
<1>18. \A x \in 1..n : Prints(args, g[x - 1], format[x], g[x]) /\ Suits(args[g[x - 1].taken + 1], format[x])
  <2>1. \A x \in 1..n : x - 1 \in 0..n
    BY <1>1
  <2>2. QED
    BY <1>3, <1>14, <1>16, <2>1 DEF R
<1>19. QED
  BY <1>13, <1>14, <1>17, <1>18 DEF PrintsAll, n, first

\* The part of a sequence after its first a elements.
IsPartOf(t, s, a, c) ==
    /\ t \in Seq(Int) /\ Len(t) = c - a
    /\ \A i \in 1..(c - a) : t[i] = s[a + i]

LEMMA PartOf ==
    ASSUME NEW s \in Seq(Int), NEW a \in Nat, NEW c \in Nat, a < c, c <= Len(s)
    PROVE  IsPartOf(SubSeq(s, a + 1, c), s, a, c)
<1>1. SubSeq(s, a + 1, c) \in Seq(Int)
  OBVIOUS
<1>2. Len(SubSeq(s, a + 1, c)) = c - a
  OBVIOUS
<1>3. \A i \in 1..(c - a) : SubSeq(s, a + 1, c)[i] = s[a + i]
  OBVIOUS
<1>4. QED
  BY <1>1, <1>2, <1>3, Zenon DEF IsPartOf

\* The places before one are places before a later one.
LEMMA Earlier ==
    ASSUME NEW a \in Nat, NEW c \in Nat, NEW k \in Nat, a <= c, c <= k
    PROVE  a <= k /\ \A i \in 1..a : i \in 1..c
  OBVIOUS

\* Where the texts of a line begin and end.
Splitting(cut, m, out, text) ==
    /\ cut \in [0..m -> 0..Len(out)] /\ cut[0] = 0 /\ cut[m] = Len(out)
    /\ \A x \in 1..m : cut[x - 1] < cut[x] /\ SubSeq(out, cut[x - 1] + 1, cut[x]) = text[x]

LEMMA Cuts ==
    ASSUME NEW m \in Nat, NEW out \in [0..m -> Seq(Int)], NEW text \in [1..m -> Seq(Int)],
           out[0] = <<>>, \A x \in 1..m : Len(text[x]) >= 1 /\ out[x] = out[x - 1] \o text[x]
    PROVE  \E cut : Splitting(cut, m, out[m], text)
<1> DEFINE all == out[m]
           Begins(s) == Len(s) <= Len(all) /\ \A i \in 1..Len(s) : all[i] = s[i]
           S == {x \in 1..m : Begins(out[x])}
           cut == [x \in 0..m |-> Len(out[x])]
<1>1. all \in Seq(Int) /\ (\A x \in 0..m : out[x] \in Seq(Int) /\ Len(out[x]) \in Nat)
      /\ (\A x \in 1..m : x - 1 \in 0..m /\ x \in 0..m)
  <2>1. \A x \in 0..m : out[x] \in Seq(Int)
    OBVIOUS
  <2>2. m \in 0..m /\ (\A x \in 1..m : x - 1 \in 0..m /\ x \in 0..m)
    OBVIOUS
  <2>3. \A s \in Seq(Int) : Len(s) \in Nat
    OBVIOUS
  <2>4. QED
    BY <2>1, <2>2, <2>3, Zenon
<1>2. ASSUME NEW x \in 1..m
      PROVE  /\ Len(out[x]) = Len(out[x - 1]) + Len(text[x]) /\ Len(text[x]) \in Nat /\ Len(text[x]) >= 1
             /\ \A i \in 1..Len(out[x - 1]) : out[x][i] = out[x - 1][i]
             /\ \A i \in 1..Len(text[x]) : out[x][Len(out[x - 1]) + i] = text[x][i]
  <2> DEFINE a == out[x - 1]
             b == text[x]
             c == out[x]
  <2>1. a \in Seq(Int) /\ b \in Seq(Int) /\ c = a \o b /\ Len(b) >= 1
    BY <1>1
  <2> HIDE DEF a, b, c
  <2>2. /\ Len(c) = Len(a) + Len(b) /\ Len(b) \in Nat /\ Len(b) >= 1
        /\ \A i \in 1..Len(a) : c[i] = a[i]
        /\ \A i \in 1..Len(b) : c[Len(a) + i] = b[i]
    <3> DEFINE k == Len(a)
               l == Len(b)
    <3>1. k \in Nat /\ l \in Nat /\ l >= 1
      <4>1. k \in Nat
        BY <2>1
      <4>2. l \in Nat
        BY <2>1
      <4>3. QED
        BY <2>1, <4>1, <4>2, Zenon
    <3>2. Len(c) = k + l /\ \A i \in 1..(k + l) : c[i] = IF i <= k THEN a[i] ELSE b[i - k]
      BY <2>1, Joined DEF IsJoin
    <3> HIDE DEF k, l
    <3>3. \A i \in 1..k : i \in 1..(k + l) /\ i <= k
      BY <3>1
    <3>4. \A i \in 1..l : k + i \in 1..(k + l) /\ ~(k + i <= k) /\ (k + i) - k = i
      BY <3>1
    <3>5. (\A i \in 1..k : c[i] = a[i]) /\ \A i \in 1..l : c[k + i] = b[i]
      BY <3>2, <3>3, <3>4
    <3>6. QED
      BY <3>1, <3>2, <3>5 DEF k, l
  <2>3. QED
    BY <2>2 DEF a, b, c
<1>3. ASSUME NEW x \in 1..m, Begins(out[x])
      PROVE  Begins(out[x - 1])
  <2> DEFINE a == Len(out[x - 1])
             c == Len(out[x])
  <2>1. a \in Nat /\ c \in Nat /\ a <= c /\ c <= Len(all) /\ Len(all) \in Nat
    BY <1>1, <1>2, <1>3
  <2> HIDE DEF a, c, cut, Begins
  <2>2. a <= Len(all) /\ \A i \in 1..a : i \in 1..c
    BY <2>1, Earlier
  <2>3. \A i \in 1..a : all[i] = out[x - 1][i]
    BY <1>2, <1>3, <2>2 DEF a, c, Begins
  <2>4. QED
    BY <2>2, <2>3 DEF a, Begins
<1>4. Begins(all)
  BY <1>1
<1> HIDE DEF Begins
<1>5. ASSUME NEW x \in 1..m, \A y \in (x + 1)..m : y \in S
      PROVE  x \in S
  <2>1. CASE x = m
    BY <1>4, <2>1
  <2>2. CASE x # m
    <3>1. x + 1 \in (x + 1)..m /\ x + 1 \in 1..m /\ (x + 1) - 1 = x
      BY <2>2
    <3>2. Begins(out[x + 1])
      BY <1>5, <3>1
    <3>3. QED
      BY <1>3, <3>1, <3>2
  <2>3. QED
    BY <2>1, <2>2
<1> HIDE DEF S
<1>6. \A x \in 1..m : x \in S
  BY <1>5, Backwards
<1>7. \A x \in 0..m : Begins(out[x])
  <2>1. \A x \in 1..m : Begins(out[x])
    BY <1>6 DEF S
  <2>2. Begins(out[0])
    <3>1. Len(<<>>) = 0 /\ 1..0 = {}
      OBVIOUS
    <3>2. 0 <= Len(all)
      BY <1>1
    <3>3. QED
      BY <3>1, <3>2 DEF Begins
  <2>3. QED
    BY <2>1, <2>2
<1>8. cut \in [0..m -> 0..Len(all)]
  <2>1. \A x \in 0..m : Len(out[x]) \in 0..Len(all)
    BY <1>1, <1>7 DEF Begins
  <2>2. QED
    BY <2>1
<1>9. cut[0] = 0 /\ cut[m] = Len(all) /\ \A x \in 1..m : cut[x - 1] = Len(out[x - 1]) /\ cut[x] = Len(out[x])
  <2>1. 0 \in 0..m /\ m \in 0..m /\ Len(<<>>) = 0
    OBVIOUS
  <2>2. QED
    BY <1>1, <2>1
<1> HIDE DEF cut
<1>10. ASSUME NEW x \in 1..m
       PROVE  cut[x - 1] < cut[x] /\ SubSeq(all, cut[x - 1] + 1, cut[x]) = text[x]
  <2> DEFINE a == Len(out[x - 1])
             b == Len(text[x])
             t == text[x]
             c == Len(out[x])
             s == out[x]
  <2>1. a \in Nat /\ b \in Nat /\ c = a + b /\ b >= 1 /\ c <= Len(all) /\ t \in Seq(Int) /\ b = Len(t)
    BY <1>1, <1>2, <1>7 DEF Begins
  <2>2. \A i \in 1..c : all[i] = s[i]
    BY <1>1, <1>7 DEF Begins
  <2>3. \A i \in 1..b : s[a + i] = t[i]
    BY <1>2
  <2>4. all \in Seq(Int) /\ cut[x - 1] = a /\ cut[x] = c
    BY <1>1, <1>9
  <2> HIDE DEF a, b, c, s, t, all
  <2>5. \A i \in 1..b : a + i \in 1..c
    BY <2>1
  <2>6. \A i \in 1..b : all[a + i] = t[i]
    BY <2>2, <2>3, <2>5
  <2>7. SubSeq(all, a + 1, c) = t
    <3>1. SubSeq(all, a + 1, c) = [i \in 1..b |-> all[a + i]]
      <4>1. IsPartOf(SubSeq(all, a + 1, c), all, a, c)
        <5>1. a < c /\ c \in Nat
          <6>1. \A i, j \in Nat : j >= 1 => i < i + j /\ i + j \in Nat
            OBVIOUS
          <6>2. QED
            BY <2>1, <6>1, Zenon
        <5>2. QED
          BY <2>1, <2>4, <5>1, PartOf
      <4>2. c - a = b
        BY <2>1
      <4>3. QED
        BY <2>1, <4>1, <4>2 DEF IsPartOf
    <3>2. t = [i \in 1..b |-> t[i]]
      BY <2>1
    <3>3. QED
      BY <2>6, <3>1, <3>2, Zenon
  <2>8. a < c
    BY <2>1
  <2>9. QED
    BY <2>4, <2>7, <2>8 DEF t
<1>11. QED
  BY <1>8, <1>9, <1>10 DEF Splitting

\* What is said of a line: the parts before the first that is not known.
Unknowns(format) == {x \in 1..Len(format) : format[x].letter \notin KnownLetters}
FirstUnknown(format) == IF Unknowns(format) # {} THEN Min(Unknowns(format)) ELSE 0
Said(format) == IF FirstUnknown(format) = 0 THEN format ELSE SubSeq(format, 1, FirstUnknown(format) - 1)
IsSaid(said, format) ==
    /\ Len(said) \in Nat /\ Len(said) <= Len(format)
    /\ \A x \in 1..Len(said) : said[x] = format[x] /\ format[x].letter \in KnownLetters
    /\ FirstUnknown(format) = 0 => Len(said) = Len(format)
    /\ FirstUnknown(format) # 0 => /\ Len(said) < Len(format)
                                   /\ format[Len(said) + 1].letter \notin KnownLetters

LEMMA SaidOfLine ==
    ASSUME NEW T, NEW format \in Seq(T)
    PROVE  IsSaid(Said(format), format)
<1> DEFINE I == Unknowns(format)
           u == FirstUnknown(format)
           n == Len(format)
           said == Said(format)
<1>1. n \in Nat /\ I \in SUBSET Nat /\ I \subseteq 1..n
  BY DEF Unknowns
<1>2. CASE I = {}
  <2>1. u = 0 /\ said = format
    BY <1>2 DEF FirstUnknown, Said
  <2>2. \A x \in 1..n : format[x].letter \in KnownLetters
    BY <1>2 DEF Unknowns
  <2>3. QED
    BY <1>1, <2>1, <2>2 DEF IsSaid
<1>3. CASE I # {}
  <2>1. PICK m \in I : \A y \in I : m <= y
    <3> HIDE DEF I
    <3>2. QED
      BY <1>1, <1>3, LeastOf
  <2>2. u \in I /\ \A y \in I : u <= y
    <3>1. Min(I) \in I /\ \A y \in I : Min(I) <= y
      <4> HIDE DEF I
      <4>1. QED
        BY <2>1 DEF Min
    <3>2. u = Min(I)
      BY <1>3 DEF FirstUnknown
    <3> HIDE DEF I, u
    <3>3. QED
      BY <3>1, <3>2, Zenon
  <2>3. u \in 1..n /\ u # 0 /\ format[u].letter \notin KnownLetters
    BY <1>1, <2>2 DEF Unknowns
  <2>4. said = SubSeq(format, 1, u - 1)
    BY <2>3 DEF Said
  <2> HIDE DEF u, said
  <2>5. said = [x \in 1..(u - 1) |-> format[x]] /\ u - 1 \in Nat
    BY <2>3, <2>4
  <2>6. Len(said) = u - 1 /\ \A x \in 1..(u - 1) : said[x] = format[x]
    BY <2>5
  <2>7. \A x \in 1..(u - 1) : format[x].letter \in KnownLetters
    <3>1. ASSUME NEW x \in 1..(u - 1)
          PROVE  format[x].letter \in KnownLetters
      <4>1. x \in 1..n /\ ~(u <= x)
        BY <2>3
      <4>2. x \notin I
        <5> HIDE DEF I
        <5>1. QED
          BY <2>2, <4>1
      <4>3. QED
        BY <4>1, <4>2 DEF Unknowns
    <3>2. QED
      BY <3>1
  <2>8. Len(said) < n /\ Len(said) + 1 = u
    BY <1>1, <2>3, <2>6
  <2>9. QED
    BY <2>3, <2>6, <2>7, <2>8 DEF IsSaid, u, said, n
<1>4. QED
  BY <1>2, <1>3

\* Up to the first part not known, each adds its text, given its own argument.
AddsText(format, args, s, t, x) ==
    LET arg == args[TakenBy(format, x)]
        text == Text(format[x], arg)
    IN  /\ text \in Seq(Int) /\ Len(text) >= 1 /\ SaysPart(format[x], arg, text)
        /\ t.out = s.out \o text

LEMMA KnownParts ==
    ASSUME NEW line, IsLine(line), NEW g, PrintsAll(g, line.format, line.args),
           NEW m \in 0..Len(line.format), \A x \in 1..m : line.format[x].letter \in KnownLetters
    PROVE  /\ ~g[m].ended
           /\ \A x \in 1..m : AddsText(line.format, line.args, g[x - 1], g[x], x)
<1> DEFINE format == line.format
           args == line.args
           n == Len(format)
           S == {x \in 0..m : ~g[x].ended /\ g[x].taken = TakenBy(format, x)}
<1>1. n \in Nat /\ m \in Nat /\ (\A x \in 1..m : x \in 1..n /\ x \in 0..n /\ x - 1 \in 0..n /\ x - 1 \in 0..m) /\ 0 \in 0..n
  <2>1. PICK T : format \in Seq(T)
    BY DEF IsLine
  <2>2. n \in Nat
    BY <2>1
  <2> HIDE DEF n
  <2>3. QED
    BY <2>2 DEF n
<1>2. /\ TakenBy(format, 0) = 0
      /\ \A x \in 0..n : TakenBy(format, x) \in Nat
      /\ \A x \in 1..n : /\ format[x].letter = "" => TakenBy(format, x) = TakenBy(format, x - 1)
                         /\ format[x].letter # "" => TakenBy(format, x) = TakenBy(format, x - 1) + 1
  <2>1. PICK T : format \in Seq(T)
    BY DEF IsLine
  <2>2. QED
    BY <2>1, ArgumentsTaken
<1>3. /\ g \in [0..n -> Printed] /\ g[0] = [out |-> <<>>, taken |-> 0, ended |-> FALSE]
      /\ \A x \in 1..n : Prints(args, g[x - 1], format[x], g[x]) /\ Suits(args[g[x - 1].taken + 1], format[x])
  BY DEF PrintsAll
<1> HIDE DEF n, format, args
<1>4. ASSUME NEW x \in 1..m, x - 1 \in S
      PROVE  x \in S /\ AddsText(format, args, g[x - 1], g[x], x)
  <2> DEFINE s == g[x - 1]
             t == g[x]
             part == format[x]
             k == s.taken
             text == Text(part, args[k + 1])
             a == TakenBy(format, x - 1)
             b == TakenBy(format, x)
  <2>1. /\ ~s.ended /\ k = a /\ part.letter \in KnownLetters /\ Prints(args, s, part, t)
        /\ Suits(args[k + 1], part)
    BY <1>1, <1>3, <1>4 DEF format
  <2>2. /\ (part.letter = "" => b = a) /\ (part.letter # "" => b = a + 1)
    BY <1>1, <1>2
  <2>3. /\ ~t.ended /\ t.out = s.out \o text
        /\ part.letter = "" => t.taken = k
        /\ part.letter # "" => t.taken = k + 1
    <3> HIDE DEF S, part, s, t
    <3>1. QED
      BY <2>1, Zenon DEF Prints
  <2>4. x \in S
    <3>1. t.taken = b
      <4> HIDE DEF S, part, s, t, k, a, b, text
      <4>1. QED
        BY <2>1, <2>2, <2>3, Zenon
    <3>2. x \in 0..m
      BY <1>1
    <3> HIDE DEF text
    <3>3. QED
      BY <2>3, <3>1, <3>2
  <2>5. Text(part, args[b]) = text /\ Suits(args[b], part)
    <3>1. CASE part.letter = ""
      BY <3>1 DEF Text, Suits
    <3>2. CASE part.letter # ""
      <4>1. b = k + 1
        <5> HIDE DEF k, a, b
        <5>1. QED
          BY <2>1, <2>2, <3>2, Zenon
      <4> HIDE DEF k, b, part
      <4>2. QED
        BY <2>1, <4>1, Zenon DEF text
    <3>3. QED
      BY <3>1, <3>2
  <2>6. IsPart(part)
    BY <1>1, LineParts DEF format, n
  <2> HIDE DEF part
  <2>7. Text(part, args[b]) \in Seq(Int) /\ Len(Text(part, args[b])) >= 1 /\ SaysPart(part, args[b], Text(part, args[b]))
    BY <2>1, <2>5, <2>6, TextSays
  <2>8. AddsText(format, args, s, t, x)
    <3> HIDE DEF s, t, text
    <3>1. t.out = s.out \o Text(part, args[b])
      BY <2>3, <2>5, Zenon
    <3>2. QED
      BY <2>7, <3>1, Zenon DEF AddsText, part, b
  <2>9. QED
    BY <2>4, <2>8
<1>5. 0 \in S
  <2>1. ~g[0].ended /\ g[0].taken = 0 /\ 0 \in 0..m
    BY <1>1, <1>3
  <2>2. QED
    BY <1>2, <2>1
<1> HIDE DEF S
<1>6. ASSUME NEW x \in 0..m, \A y \in 0..(x - 1) : y \in S
      PROVE  x \in S
  <2>1. CASE x = 0
    BY <1>5, <2>1
  <2>2. CASE x # 0
    <3>1. x \in 1..m /\ x - 1 \in 0..(x - 1)
      BY <1>1, <2>2
    <3>2. QED
      BY <1>4, <1>6, <3>1
  <2>3. QED
    BY <2>1, <2>2
<1>7. \A x \in 0..m : x \in S
  BY <1>1, <1>6, Forwards
<1>8. m \in S /\ \A x \in 1..m : x - 1 \in S
  BY <1>1, <1>7
<1>9. QED
  BY <1>4, <1>8 DEF S, format, args

\* After it nothing is written.
LEMMA NothingMore ==
    ASSUME NEW line, IsLine(line), NEW g, PrintsAll(g, line.format, line.args),
           NEW m \in 0..(Len(line.format) - 1), ~g[m].ended, line.format[m + 1].letter \notin KnownLetters
    PROVE  g[Len(line.format)].ended /\ g[Len(line.format)].out = g[m].out
<1> DEFINE format == line.format
           args == line.args
           n == Len(format)
           S == {x \in 0..n : x > m => g[x].ended /\ g[x].out = g[m].out}
<1>1. n \in Nat /\ m \in 0..(n - 1)
  <2>1. PICK T : format \in Seq(T)
    BY DEF IsLine
  <2>2. QED
    BY <2>1
<1>2. \A x \in 1..n : Prints(args, g[x - 1], format[x], g[x])
  BY DEF PrintsAll
<1> HIDE DEF n, format, args
<1>3. ASSUME NEW x \in 0..n, \A y \in 0..(x - 1) : y \in S
      PROVE  x \in S
  <2>1. CASE x = m + 1
    <3>1. x - 1 = m /\ x \in 1..n
      BY <1>1, <2>1
    <3>2. Prints(args, g[m], format[x], g[x]) /\ format[x].letter \notin KnownLetters
      BY <1>2, <2>1, <3>1 DEF format
    <3>3. g[x].ended /\ g[x].out = g[m].out
      BY <3>2, Zenon DEF Prints
    <3>4. QED
      BY <3>3
  <2>2. CASE x > m + 1
    <3>1. x - 1 \in 0..(x - 1) /\ x - 1 > m /\ x \in 1..n
      BY <1>1, <2>2
    <3>2. g[x - 1].ended /\ g[x - 1].out = g[m].out
      BY <1>3, <3>1
    <3>3. g[x] = g[x - 1]
      BY <1>2, <3>1, <3>2, Zenon DEF Prints
    <3>4. QED
      BY <3>2, <3>3
  <2>3. CASE x <= m
    BY <1>1, <2>3
  <2>4. QED
    BY <1>1, <2>1, <2>2, <2>3
<1> HIDE DEF S
<1>4. \A x \in 0..n : x \in S
  BY <1>1, <1>3, Forwards
<1>5. n \in S /\ n > m
  BY <1>1, <1>4
<1>6. QED
  BY <1>5 DEF S, n, format

\* The line as it is written says what it should.
LineIsSaid(line, r) ==
    LET said == Said(line.format)
    IN  /\ r.ended = (FirstUnknown(line.format) # 0)
        /\ \E cut \in [0..Len(said) -> 0..Len(r.out)] :
               /\ cut[0] = 0 /\ cut[Len(said)] = Len(r.out)
               /\ \A x \in 1..Len(said) :
                      /\ cut[x - 1] < cut[x]
                      /\ SaysPart(said[x], line.args[TakenBy(line.format, x)],
                                  SubSeq(r.out, cut[x - 1] + 1, cut[x]))

LEMMA LineSays ==
    ASSUME NEW line, IsLine(line)
    PROVE  LineIsSaid(line, UART_Printf(line.format, line.args))
<1> DEFINE format == line.format
           args == line.args
           n == Len(format)
           said == Said(format)
           m == Len(said)
           r == UART_Printf(format, args)
           u == FirstUnknown(format)
<1>1. n \in Nat /\ IsSaid(said, format)
  <2>1. PICK T : format \in Seq(T)
    BY DEF IsLine
  <2>2. QED
    BY <2>1, SaidOfLine
<1>2. PICK g : PrintsAll(g, format, args)
  BY Printing
<1>3. /\ m \in 0..n /\ \A x \in 1..m : said[x] = format[x] /\ format[x].letter \in KnownLetters
      /\ u = 0 => m = n
      /\ u # 0 => m \in 0..(n - 1) /\ format[m + 1].letter \notin KnownLetters
  <2> HIDE DEF said, n, format, u
  <2>1. m \in Nat /\ m <= n
    BY <1>1 DEF IsSaid, n
  <2>2. u # 0 => m < n
    BY <1>1 DEF IsSaid, n, u
  <2>3. m \in 0..n /\ (u # 0 => m \in 0..(n - 1))
    BY <1>1, <2>1, <2>2
  <2>4. QED
    BY <1>1, <2>3, Zenon DEF IsSaid, n, u
<1>4. ~g[m].ended /\ \A x \in 1..m : AddsText(format, args, g[x - 1], g[x], x)
  BY <1>2, <1>3, KnownParts
<1>5. /\ g \in [0..n -> Printed] /\ g[0].out = <<>> /\ r = g[n]
  BY <1>2 DEF PrintsAll
<1>6. r.out = g[m].out /\ (u = 0 => ~r.ended) /\ (u # 0 => r.ended)
  <2>1. CASE u = 0
    BY <1>3, <1>4, <1>5, <2>1
  <2>2. CASE u # 0
    <3>1. g[n].ended /\ g[n].out = g[m].out
      BY <1>2, <1>3, <1>4, <2>2, NothingMore
    <3>2. QED
      BY <1>5, <2>2, <3>1
  <2>3. QED
    BY <2>1, <2>2
<1> DEFINE out == [x \in 0..m |-> g[x].out]
           text == [x \in 1..m |-> Text(format[x], args[TakenBy(format, x)])]
<1>7. PICK cut : Splitting(cut, m, r.out, text)
  <2>1. m \in Nat /\ 0 \in 0..m /\ m \in 0..m /\ (\A x \in 0..m : x \in 0..n) /\ \A x \in 1..m : x \in 0..m /\ x - 1 \in 0..m
    BY <1>1, <1>3
  <2> HIDE DEF m, n, format, args, r
  <2>2. out \in [0..m -> Seq(Int)]
    <3>1. \A x \in 0..m : g[x].out \in Seq(Int)
      BY <1>5, <2>1 DEF Printed
    <3>2. QED
      BY <3>1
  <2>3. text \in [1..m -> Seq(Int)] /\ \A x \in 1..m : Len(text[x]) >= 1
    BY <1>4 DEF AddsText
  <2>4. \A x \in 1..m : out[x] = out[x - 1] \o text[x]
    BY <1>4, <2>1 DEF AddsText
  <2>5. out[0] = <<>> /\ out[m] = r.out
    BY <1>5, <1>6, <2>1
  <2> HIDE DEF out, text
  <2>6. \E cut : Splitting(cut, m, out[m], text)
    BY <2>1, <2>2, <2>3, <2>4, <2>5, Cuts
  <2>7. QED
    BY <2>5, <2>6
<1>8. \A x \in 1..m : SaysPart(said[x], args[TakenBy(format, x)], SubSeq(r.out, cut[x - 1] + 1, cut[x]))
  <2> HIDE DEF m, said, format, args, r
  <2>1. \A x \in 1..m : SaysPart(format[x], args[TakenBy(format, x)], text[x])
    BY <1>4 DEF AddsText
  <2> HIDE DEF text
  <2>2. \A x \in 1..m : SubSeq(r.out, cut[x - 1] + 1, cut[x]) = text[x]
    BY <1>7, Zenon DEF Splitting
  <2>3. QED
    BY <1>3, <2>1, <2>2, Zenon
<1>9. r.ended = (u # 0)
  <2>1. r.ended \in BOOLEAN
    <3>1. n \in 0..n
      BY <1>1
    <3>2. QED
      BY <1>5, <3>1 DEF Printed
  <2>2. QED
    BY <1>6, <2>1
<1>10. /\ cut \in [0..m -> 0..Len(r.out)] /\ cut[0] = 0 /\ cut[m] = Len(r.out)
       /\ \A x \in 1..m : cut[x - 1] < cut[x]
  <2> HIDE DEF m, r, text
  <2>1. QED
    BY <1>7, Zenon DEF Splitting
<1>11. LineIsSaid(line, r)
  <2> HIDE DEF r
  <2>1. QED
    BY <1>8, <1>9, <1>10, Zenon DEF LineIsSaid, m, said, format, args, u
<1>12. QED
  BY <1>11 DEF r

-----------------------------------------------------------------------------
(* The conversions *)

\* A conversion takes one input and gives what its function computes of it.
Converted(call, input) ==
    CASE call = "parse" -> parse_string(input)
      [] call = "print" -> print_string_ptr(input)
      [] call = "log" -> UART_Printf(input.format, input.args)
ConversionInv ==
    /\ job.call = "parse" => job.input \in Texts
    /\ job.call = "print" => job.input \in Strings
    /\ job.call = "log" => job.input \in Lines
    /\ result # <<>> => result = Converted(job.call, job.input)

LEMMA OneConversion == Spec => []ConversionInv
<1>1. Init => ConversionInv
  <2> SUFFICES ASSUME Init
               PROVE  ConversionInv
    OBVIOUS
  <2>1. \/ job \in [call : {"parse"}, input : Texts]
        \/ job \in [call : {"print"}, input : Strings]
        \/ job \in [call : {"log"}, input : Lines]
    BY DEF Init
  <2>2. result = <<>>
    BY DEF Init
  <2>3. QED
    BY <2>1, <2>2 DEF ConversionInv
<1>2. ConversionInv /\ [Next]_conversionVars => ConversionInv'
  <2> SUFFICES ASSUME ConversionInv, [Next]_conversionVars
               PROVE  ConversionInv'
    OBVIOUS
  <2>1. CASE ParseString /\ UNCHANGED job
    BY <2>1 DEF ConversionInv, ParseString, Converted
  <2>2. CASE PrintString /\ UNCHANGED job
    BY <2>2 DEF ConversionInv, PrintString, Converted
  <2>3. CASE Log /\ UNCHANGED job
    BY <2>3 DEF ConversionInv, Log, Converted
  <2>4. CASE UNCHANGED conversionVars
    BY <2>4 DEF ConversionInv, conversionVars
  <2>5. QED
    BY <2>1, <2>2, <2>3, <2>4 DEF Next
<1>3. QED
  BY <1>1, <1>2, PTL DEF Spec

\* For everything that may stand between two quotes, of whatever length:
\* parse_string (cJSON.c:767-893) accepts it exactly when it is well formed, its
\* bytes mean what was written, and they fit in the buffer that its first pass
\* has reckoned for them.
THEOREM StringsAreUnderstood == Spec => []StringsMeanWhatIsWritten
<1>1. ConversionInv => StringsMeanWhatIsWritten
  <2> SUFFICES ASSUME ConversionInv, Done("parse")
               PROVE  /\ result.ok <=> WellFormed(job.input)
                      /\ result.ok /\ Ascii(job.input) => FromUtf8(result.bytes) = CodePoints(job.input)
                      /\ Len(result.bytes) + 1 <= result.room
    BY DEF StringsMeanWhatIsWritten
  <2>1. result = parse_string(job.input) /\ IsText(job.input)
    BY TextsAssumption DEF ConversionInv, Done, Converted
  <2>2. job.input \in Seq(Units)
    BY <2>1, Zenon DEF IsText
  <2>3. QED
    BY <2>1, <2>2, AcceptsWellFormed, MeansWhatIsWritten, RoomEnough, Zenon
<1>2. QED
  BY <1>1, OneConversion, PTL

\* For every string in memory: what print_string_ptr (cJSON.c:910-1014) writes
\* of it, up to its zero, has the length of its first pass, and parse_string
\* reads it to its closing quote and gives the same bytes back.
THEOREM PrintedStringsReadBack == Spec => []StringsReadBack
<1>1. ConversionInv => StringsReadBack
  <2> SUFFICES ASSUME ConversionInv, Done("print")
               PROVE  /\ Characters(result.units) = result.output_length
                      /\ IsText(result.units) /\ parse_string(result.units).ok
                      /\ parse_string(result.units).bytes = ToZero(job.input)
    BY DEF StringsReadBack
  <2>1. result = print_string_ptr(job.input) /\ job.input \in Seq(0..255)
    BY StringsAssumption DEF ConversionInv, Done, Converted
  <2>2. QED
    BY <2>1, PrintedReadsBack, Zenon
<1>2. QED
  BY <1>1, OneConversion, PTL

\* For every line of the log and every size of int: UART_Printf (uart_usb.c:98-157)
\* writes its characters and the arguments of its conversions, in order and each
\* number so that it reads back, up to the first conversion it does not know.
THEOREM LinesSayTheirArguments == Spec => []LogSaysTheLine
<1>1. ConversionInv => LogSaysTheLine
  <2> SUFFICES ASSUME ConversionInv, Done("log")
               PROVE  LogSaysTheLine
    BY DEF LogSaysTheLine
  <2>1. result = UART_Printf(job.input.format, job.input.args) /\ IsLine(job.input)
    BY LinesAssumption DEF ConversionInv, Done, Converted
  <2>2. LineIsSaid(job.input, result)
    BY <2>1, LineSays, Zenon
  <2>3. QED
    BY <2>2 DEF LogSaysTheLine, LineIsSaid, Said, FirstUnknown, Unknowns, SelectInSeq, KnownLetters,
                SaysPart, TakenBy
<1>2. QED
  BY <1>1, OneConversion, PTL
=============================================================================
