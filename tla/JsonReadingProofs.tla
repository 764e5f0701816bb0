------------------------- MODULE JsonReadingProofs -------------------------
(***************************************************************************)
(* Proofs about what parse_value accepts and refuses, for texts of any     *)
(* length and any limit of the depth.                                      *)
(*                                                                         *)
(* The words of Values are the solution of a recursion (Recursion,         *)
(* WordsExist), so that it can be said when a stretch of a text is a value *)
(* or the items of a list (ValueSaid, ListSaid).  Each node of an accepted *)
(* tree stands for such a stretch, from the youngest down (TreeSaid), and  *)
(* Printed puts them together (PrintedOnce).  For what is refused, RestInv *)
(* says that every value that begins with the tokens looked at can still   *)
(* be read on: the open lists close at places ends[1], ends[2], ... of it  *)
(* (Enclosed), and what is expected next is what stands there (Expected).  *)
(***************************************************************************)
EXTENDS JsonProofs

-----------------------------------------------------------------------------
(* Recursions that have a solution *)

\* A recursion G has a solution when what it says of x only depends on places
\* of a lower rank, and ranks are bounded.
WellRanked(S, V, k, rank, G) ==
    /\ k \in Nat /\ rank \in [S -> 0..k]
    /\ G \in [S \X [S -> V] -> V]
    /\ \A x \in S : \A g, h \in [S -> V] :
           (\A y \in S : rank[y] < rank[x] => g[y] = h[y]) => G[<<x, g>>] = G[<<x, h>>]

Solvable(S, V, G) == \E f \in [S -> V] : \A x \in S : f[x] = G[<<x, f>>]

\* By induction on the rank.
LEMMA Recursion ==
    ASSUME NEW S, NEW V, NEW v \in V, NEW K, NEW rank, NEW G, WellRanked(S, V, K, rank, G)
    PROVE  Solvable(S, V, G)
<1> USE DEF WellRanked, Solvable
<1> DEFINE Solved(f, k) == \A x \in S : rank[x] < k => f[x] = G[<<x, f>>]
           Bad == {k \in Nat : k <= K + 1 /\ ~ \E f \in [S -> V] : Solved(f, k)}
<1>1. Bad = {}
  <2> SUFFICES ASSUME Bad # {}
               PROVE  FALSE
    OBVIOUS
  <2>1. PICK k \in Bad : \A y \in Bad : k <= y
    BY LeastOf
  <2>2. k # 0
    <3>1. Solved([x \in S |-> v], 0)
      OBVIOUS
    <3>2. QED
      BY <3>1
  <2>3. k \in Nat /\ k - 1 \in Nat /\ k - 1 <= K + 1 /\ ~(k <= k - 1)
    BY <2>2
  <2>4. PICK f \in [S -> V] : Solved(f, k - 1)
    BY <2>1, <2>3
  <2> DEFINE g == [x \in S |-> IF rank[x] = k - 1 THEN G[<<x, f>>] ELSE f[x]]
  <2>5. g \in [S -> V]
    OBVIOUS
  <2>6. \A x \in S : (\A y \in S : rank[y] < rank[x] => f[y] = g[y]) => G[<<x, f>>] = G[<<x, g>>]
    BY <2>5
  <2>7. ASSUME NEW x \in S, rank[x] < k
        PROVE  g[x] = G[<<x, g>>]
    <3>1. rank[x] \in Nat /\ rank[x] <= k - 1
      BY <2>3, <2>7
    <3>2. \A y \in S : rank[y] < rank[x] => f[y] = g[y]
      BY <2>3, <3>1
    <3>3. G[<<x, f>>] = G[<<x, g>>]
      BY <2>6, <3>2
    <3>4. CASE rank[x] = k - 1
      BY <3>3, <3>4
    <3>5. CASE rank[x] # k - 1
      <4>1. rank[x] < k - 1
        BY <2>3, <3>1, <3>5
      <4>2. f[x] = G[<<x, f>>]
        BY <2>4, <4>1
      <4>3. QED
        BY <3>3, <3>5, <4>2
    <3>6. QED
      BY <3>4, <3>5
  <2>8. Solved(g, k)
    BY <2>7
  <2> HIDE DEF g, Solved
  <2>9. QED
    BY <2>5, <2>8
<1>2. PICK f \in [S -> V] : Solved(f, K + 1)
  <2>1. K + 1 \in Nat /\ K + 1 <= K + 1
    OBVIOUS
  <2> HIDE DEF Solved
  <2>2. QED
    BY <1>1, <2>1
<1>3. \A x \in S : rank[x] < K + 1
  OBVIOUS
<1>4. QED
  BY <1>2, <1>3


-----------------------------------------------------------------------------
(* The language of the text *)

\* The recursion of Values.
Sorts == {"Value", "Array", "Object"}
Concats(A, B) == {a \o b : a \in A, b \in B}
Openers == [Array |-> "[", Object |-> "{"]
WordItem(f, m, k) ==
    IF k = "Array" THEN f[<<m, "Value">>]
    ELSE IF m < 2 THEN {} ELSE Concats({<<"s", ":">>}, f[<<m - 2, "Value">>])
WordBetween(f, n, k) == Concats(Concats({<<Openers[k]>>}, f[<<n - 2, k>>]), {<<Close[k]>>})
WordMore(f, n, k, m) == Concats(Concats(WordItem(f, m, k), {<<",">>}), f[<<n - m - 1, k>>])
WordStep(f, n, k) ==
    IF k = "Value"
    THEN IF n = 0 THEN {}
         ELSE IF n = 1 THEN {<<"v">>, <<"s">>}
         ELSE WordBetween(f, n, "Array") \union WordBetween(f, n, "Object")
    ELSE IF n = 0 THEN {<<>>}
         ELSE WordItem(f, n, k) \union UNION {WordMore(f, n, k, m) : m \in 1..(n - 2)}

WordsAre(f) == f = [x \in (0..MaxText) \X Sorts |-> WordStep(f, x[1], x[2])]
Words == CHOOSE f : WordsAre(f)

\* Values says what that recursion says.
LEMMA ValuesAre == Values = UNION {Words[<<n, "Value">>] : n \in 0..MaxText}
BY DEF Values, Words, WordsAre, WordStep, WordMore, WordBetween, WordItem, Concats, Sorts, Openers

\* Words that are put together.
LEMMA ConcatsAre ==
    ASSUME NEW A, NEW B, NEW x
    PROVE  x \in Concats(A, B) <=> \E a \in A, b \in B : x = a \o b
BY DEF Concats

\* They are sequences of tokens.
LEMMA ConcatsType ==
    ASSUME NEW A \in SUBSET Seq(Tok), NEW B \in SUBSET Seq(Tok)
    PROVE  Concats(A, B) \in SUBSET Seq(Tok)
<1>1. \A a \in Seq(Tok), b \in Seq(Tok) : a \o b \in Seq(Tok)
  OBVIOUS
<1>2. \A x \in Concats(A, B) : x \in Seq(Tok)
  <2> TAKE x \in Concats(A, B)
  <2>1. PICK a \in A, b \in B : x = a \o b
    BY ConcatsAre
  <2>2. a \in Seq(Tok) /\ b \in Seq(Tok)
    OBVIOUS
  <2>3. QED
    BY <1>1, <2>1, <2>2
<1>3. QED
  BY <1>2

\* So are the words of one token, and the name of an item.
LEMMA LettersType ==
    /\ {<<>>} \in SUBSET Seq(Tok) /\ {} \in SUBSET Seq(Tok)
    /\ {<<"v">>, <<"s">>} \in SUBSET Seq(Tok)
    /\ {<<"s", ":">>} \in SUBSET Seq(Tok) /\ {<<",">>} \in SUBSET Seq(Tok)
    /\ \A k \in {"Array", "Object"} : {<<Openers[k]>>} \in SUBSET Seq(Tok)
                                     /\ {<<Close[k]>>} \in SUBSET Seq(Tok)
<1>1. /\ <<>> \in Seq(Tok) /\ <<"v">> \in Seq(Tok) /\ <<"s">> \in Seq(Tok)
      /\ <<"s", ":">> \in Seq(Tok) /\ <<",">> \in Seq(Tok)
  BY DEF Tok
<1>2. \A k \in {"Array", "Object"} : Openers[k] \in Tok /\ Close[k] \in Tok
  <2>1. /\ Openers["Array"] = "[" /\ Openers["Object"] = "{"
        /\ Close["Array"] = "]" /\ Close["Object"] = "}"
    BY DEF Openers, Close
  <2>2. QED
    BY <2>1 DEF Tok
<1>3. \A t \in Tok : <<t>> \in Seq(Tok)
  OBVIOUS
<1>4. QED
  BY <1>1, <1>2, <1>3

\* The places of the recursion, and their rank.
WordPlaces == (0..MaxText) \X Sorts
WordSets == SUBSET Seq(Tok)
WordRank(n, k) == IF k = "Value" THEN 2 * n ELSE 2 * n + 1

\* The words of an item of a list.
LEMMA ItemType ==
    ASSUME NEW f \in [WordPlaces -> WordSets], NEW m \in 0..MaxText, NEW k
    PROVE  WordItem(f, m, k) \in WordSets
<1>1. <<m, "Value">> \in WordPlaces
  BY DEF WordPlaces, Sorts
<1>2. CASE k = "Array"
  BY <1>1, <1>2 DEF WordItem
<1>3. CASE k # "Array" /\ m < 2
  BY <1>3 DEF WordItem, WordSets
<1>4. CASE k # "Array" /\ ~(m < 2)
  <2>1. m - 2 \in 0..MaxText
    BY <1>4, TextAssumption
  <2>2. <<m - 2, "Value">> \in WordPlaces
    BY <2>1 DEF WordPlaces, Sorts
  <2>3. f[<<m - 2, "Value">>] \in WordSets
    BY <2>2
  <2>4. QED
    BY <1>4, <2>3, ConcatsType, LettersType DEF WordItem, WordSets
<1>5. QED
  BY <1>2, <1>3, <1>4

\* And whatever the recursion says of a place.
LEMMA StepType ==
    ASSUME NEW f \in [WordPlaces -> WordSets], NEW n \in 0..MaxText, NEW k \in Sorts
    PROVE  WordStep(f, n, k) \in WordSets
<1>1. ASSUME NEW x \in 0..MaxText, NEW j \in Sorts
      PROVE  f[<<x, j>>] \in WordSets
  BY DEF WordPlaces
<1>2. CASE k = "Value"
  <2>1. CASE n < 2
    <3>1. n = 0 \/ n = 1
      BY <2>1, TextAssumption
    <3>2. QED
      BY <1>2, <3>1, LettersType DEF WordStep, WordSets
  <2>2. CASE ~(n < 2)
    <3>1. n - 2 \in 0..MaxText /\ n # 0 /\ n # 1
      BY <2>2, TextAssumption
    <3>2. ASSUME NEW j \in {"Array", "Object"}
          PROVE  WordBetween(f, n, j) \in WordSets
      <4>1. f[<<n - 2, j>>] \in WordSets
        BY <1>1, <3>1 DEF Sorts
      <4>2. Concats({<<Openers[j]>>}, f[<<n - 2, j>>]) \in WordSets
        BY <4>1, ConcatsType, LettersType DEF WordSets
      <4>3. QED
        BY <4>2, ConcatsType, LettersType DEF WordSets, WordBetween
    <3>3. WordBetween(f, n, "Array") \in WordSets /\ WordBetween(f, n, "Object") \in WordSets
      BY <3>2
    <3>4. QED
      BY <1>2, <3>1, <3>3 DEF WordStep, WordSets
  <2>3. QED
    BY <2>1, <2>2
<1>3. CASE k # "Value"
  <2>1. CASE n = 0
    BY <1>3, <2>1, LettersType DEF WordStep, WordSets
  <2>2. CASE n # 0
    <3>1. ASSUME NEW m \in 1..(n - 2)
          PROVE  WordMore(f, n, k, m) \in WordSets
      <4>1. m \in 0..MaxText /\ n - m - 1 \in 0..MaxText
        BY TextAssumption
      <4>2. WordItem(f, m, k) \in WordSets /\ f[<<n - m - 1, k>>] \in WordSets
        BY <1>1, <4>1, ItemType
      <4>3. Concats(WordItem(f, m, k), {<<",">>}) \in WordSets
        BY <4>2, ConcatsType, LettersType DEF WordSets
      <4>4. QED
        BY <4>2, <4>3, ConcatsType DEF WordSets, WordMore
    <3>2. WordItem(f, n, k) \in WordSets
      BY ItemType
    <3>3. QED
      BY <1>3, <2>2, <3>1, <3>2 DEF WordStep, WordSets
  <2>3. QED
    BY <2>1, <2>2
<1>4. QED
  BY <1>2, <1>3

\* What the recursion says of a place only depends on places of a lower rank.
LEMMA ItemSame ==
    ASSUME NEW g, NEW h, NEW n \in 0..MaxText, NEW m \in 0..n, NEW k,
           \A x \in 0..n : g[<<x, "Value">>] = h[<<x, "Value">>]
    PROVE  WordItem(g, m, k) = WordItem(h, m, k)
<1>1. g[<<m, "Value">>] = h[<<m, "Value">>]
  OBVIOUS
<1>2. ~(m < 2) => g[<<m - 2, "Value">>] = h[<<m - 2, "Value">>]
  <2>1. ~(m < 2) => m - 2 \in 0..n
    BY TextAssumption
  <2>2. QED
    BY <2>1
<1>3. QED
  BY <1>1, <1>2 DEF WordItem

\* The whole step of it.
LEMMA StepSame ==
    ASSUME NEW g, NEW h, NEW n \in 0..MaxText, NEW k \in Sorts,
           \A x \in 0..(n - 1), j \in Sorts : g[<<x, j>>] = h[<<x, j>>],
           k # "Value" => g[<<n, "Value">>] = h[<<n, "Value">>]
    PROVE  WordStep(g, n, k) = WordStep(h, n, k)
<1>1. CASE k = "Value"
  <2>1. CASE n < 2
    <3>1. n = 0 \/ n = 1
      BY <2>1, TextAssumption
    <3>2. QED
      BY <1>1, <3>1 DEF WordStep
  <2>2. CASE ~(n < 2)
    <3>1. n - 2 \in 0..(n - 1)
      BY <2>2, TextAssumption
    <3>2. g[<<n - 2, "Array">>] = h[<<n - 2, "Array">>] /\ g[<<n - 2, "Object">>] = h[<<n - 2, "Object">>]
      BY <3>1 DEF Sorts
    <3>3. QED
      BY <1>1, <3>2 DEF WordStep, WordBetween
  <2>3. QED
    BY <2>1, <2>2
<1>2. CASE k # "Value"
  <2>1. \A x \in 0..n : g[<<x, "Value">>] = h[<<x, "Value">>]
    <3> TAKE x \in 0..n
    <3>1. x = n \/ x \in 0..(n - 1)
      BY TextAssumption
    <3>2. QED
      BY <1>2, <3>1 DEF Sorts
  <2>2. n \in 0..n
    BY TextAssumption
  <2>3. WordItem(g, n, k) = WordItem(h, n, k)
    BY <2>1, <2>2, ItemSame
  <2>4. ASSUME NEW m \in 1..(n - 2)
        PROVE  WordMore(g, n, k, m) = WordMore(h, n, k, m)
    <3>1. m \in 0..n /\ n - m - 1 \in 0..(n - 1)
      BY TextAssumption
    <3>2. WordItem(g, m, k) = WordItem(h, m, k) /\ g[<<n - m - 1, k>>] = h[<<n - m - 1, k>>]
      BY <2>1, <3>1, ItemSame
    <3>3. QED
      BY <3>2 DEF WordMore
  <2>5. {WordMore(g, n, k, m) : m \in 1..(n - 2)} = {WordMore(h, n, k, m) : m \in 1..(n - 2)}
    BY <2>4
  <2>6. QED
    BY <1>2, <2>3, <2>5 DEF WordStep
<1>3. QED
  BY <1>1, <1>2

\* The recursion has a solution.
LEMMA WordsExist ==
    /\ Words \in [WordPlaces -> WordSets]
    /\ \A n \in 0..MaxText, k \in Sorts : Words[<<n, k>>] = WordStep(Words, n, k)
<1> DEFINE rank == [x \in WordPlaces |-> WordRank(x[1], x[2])]
           G == [p \in WordPlaces \X [WordPlaces -> WordSets] |-> WordStep(p[2], p[1][1], p[1][2])]
<1>1. \A x \in WordPlaces : x[1] \in 0..MaxText /\ x[2] \in Sorts
  BY DEF WordPlaces
<1>2. rank \in [WordPlaces -> 0..(2 * MaxText + 1)]
  <2>1. ASSUME NEW n \in 0..MaxText, NEW k
        PROVE  WordRank(n, k) \in 0..(2 * MaxText + 1)
    BY TextAssumption DEF WordRank
  <2>2. QED
    BY <1>1, <2>1
<1>3. \A x \in WordPlaces : \A f \in [WordPlaces -> WordSets] : G[<<x, f>>] = WordStep(f, x[1], x[2])
  OBVIOUS
<1>4. G \in [WordPlaces \X [WordPlaces -> WordSets] -> WordSets]
  BY <1>1, StepType
<1>5. ASSUME NEW x \in WordPlaces, NEW g \in [WordPlaces -> WordSets], NEW h \in [WordPlaces -> WordSets],
             \A y \in WordPlaces : rank[y] < rank[x] => g[y] = h[y]
      PROVE  G[<<x, g>>] = G[<<x, h>>]
  <2> DEFINE n == x[1]
             k == x[2]
  <2>1. n \in 0..MaxText /\ k \in Sorts
    BY <1>1
  <2>2. ASSUME NEW z \in 0..MaxText, NEW j \in Sorts, WordRank(z, j) < WordRank(n, k)
        PROVE  g[<<z, j>>] = h[<<z, j>>]
    <3>1. <<z, j>> \in WordPlaces
      BY DEF WordPlaces
    <3>2. rank[<<z, j>>] = WordRank(z, j) /\ rank[x] = WordRank(n, k)
      BY <3>1
    <3> HIDE DEF rank, n, k
    <3>3. QED
      BY <1>5, <2>2, <3>1, <3>2
  <2> HIDE DEF n, k, rank
  <2>3. \A z \in 0..(n - 1), j \in Sorts : g[<<z, j>>] = h[<<z, j>>]
    <3> TAKE z \in 0..(n - 1), j \in Sorts
    <3>1. z \in 0..MaxText /\ WordRank(z, j) < WordRank(n, k)
      BY <2>1, TextAssumption DEF WordRank
    <3>2. QED
      BY <2>2, <3>1
  <2>4. k # "Value" => g[<<n, "Value">>] = h[<<n, "Value">>]
    <3> SUFFICES ASSUME k # "Value"
                 PROVE  g[<<n, "Value">>] = h[<<n, "Value">>]
      OBVIOUS
    <3>1. WordRank(n, "Value") < WordRank(n, k)
      BY <2>1, TextAssumption DEF WordRank
    <3>2. "Value" \in Sorts
      BY DEF Sorts
    <3>3. QED
      BY <2>1, <2>2, <3>1, <3>2
  <2>5. WordStep(g, n, k) = WordStep(h, n, k)
    BY <2>1, <2>3, <2>4, StepSame
  <2>6. QED
    BY <1>3, <2>5 DEF n, k
<1> HIDE DEF rank, G
<1>6. PICK f \in [WordPlaces -> WordSets] : \A x \in WordPlaces : f[x] = G[<<x, f>>]
  <2>1. 2 * MaxText + 1 \in Nat /\ {} \in WordSets
    BY TextAssumption DEF WordSets
  <2>2. WellRanked(WordPlaces, WordSets, 2 * MaxText + 1, rank, G)
    BY <1>2, <1>4, <1>5, <2>1 DEF WellRanked
  <2>3. Solvable(WordPlaces, WordSets, G)
    BY <2>1, <2>2, Recursion
  <2>4. QED
    BY <2>3 DEF Solvable
<1>7. f = [x \in WordPlaces |-> WordStep(f, x[1], x[2])]
  BY <1>3, <1>6
<1>8. WordsAre(f)
  BY <1>7 DEF WordsAre, WordPlaces
<1>9. WordsAre(Words)
  BY <1>8 DEF Words
<1>10. Words = [x \in WordPlaces |-> WordStep(Words, x[1], x[2])]
  BY <1>9 DEF WordsAre, WordPlaces
<1>11. \A x \in WordPlaces : Words[x] = WordStep(Words, x[1], x[2])
  BY <1>10
<1>12. \A x \in 0..MaxText : x \in {z \in 0..MaxText : \A k \in Sorts : Words[<<z, k>>] = f[<<z, k>>]}
  <2> DEFINE Bad == {z \in 0..MaxText : ~\A k \in Sorts : Words[<<z, k>>] = f[<<z, k>>]}
  <2>1. ASSUME Bad # {}
        PROVE  FALSE
    <3>1. PICK z \in Bad : \A y \in Bad : z <= y
      <4>1. Bad \in SUBSET Nat
        OBVIOUS
      <4> HIDE DEF Bad
      <4>2. QED
        BY <2>1, <4>1, LeastOf
    <3>2. z \in 0..MaxText /\ \A y \in 0..MaxText : ~(z <= y) => y \notin Bad
      BY <3>1
    <3>3. \A y \in 0..(z - 1) : y \in 0..MaxText /\ ~(z <= y)
      BY <3>2, TextAssumption
    <3>4. \A y \in 0..(z - 1), k \in Sorts : Words[<<y, k>>] = f[<<y, k>>]
      <4>1. \A y \in 0..(z - 1) : y \notin Bad /\ y \in 0..MaxText
        BY <3>2, <3>3
      <4>2. QED
        BY <4>1
    <3>5. \A k \in Sorts : /\ Words[<<z, k>>] = WordStep(Words, z, k)
                           /\ f[<<z, k>>] = WordStep(f, z, k)
      <4>1. \A k \in Sorts : <<z, k>> \in WordPlaces
        BY <3>2 DEF WordPlaces
      <4>2. QED
        BY <1>3, <1>6, <1>11, <4>1
    <3>6. Words[<<z, "Value">>] = f[<<z, "Value">>]
      <4>1. "Value" \in Sorts
        BY DEF Sorts
      <4>2. WordStep(Words, z, "Value") = WordStep(f, z, "Value")
        <5>1. "Value" # "Value" => Words[<<z, "Value">>] = f[<<z, "Value">>]
          OBVIOUS
        <5>2. z \in 0..MaxText
          BY <3>2
        <5>3. QED
          BY ONLY <3>4, <4>1, <5>1, <5>2, StepSame
      <4>3. QED
        BY <3>5, <4>1, <4>2
    <3>7. \A k \in Sorts : WordStep(Words, z, k) = WordStep(f, z, k)
      BY <3>2, <3>4, <3>6, StepSame
    <3>8. QED
      BY <3>1, <3>5, <3>7
  <2>2. QED
    BY <2>1
<1>13. \A x \in WordPlaces : Words[x] = f[x]
  BY <1>12 DEF WordPlaces
<1>14. Words \in [WordPlaces -> WordSets]
  <2> HIDE DEF WordPlaces
  <2>1. \A x \in WordPlaces : Words[x] \in WordSets
    BY <1>13
  <2>2. QED
    BY <1>10, <2>1
<1>15. QED
  BY <1>11, <1>14 DEF WordPlaces

-----------------------------------------------------------------------------
(* Words in a text *)

\* What stands in v behind the first a tokens, up to the b-th.
Part(v, a, b) == SubSeq(v, a + 1, b)
OfLength(A, n) == \A w \in A : w \in Seq(Tok) /\ Len(w) = n

\* Its tokens.
LEMMA PartIs ==
    ASSUME NEW v \in Seq(Tok), NEW a \in Nat, NEW b \in a..Len(v)
    PROVE  /\ Part(v, a, b) \in Seq(Tok) /\ Len(Part(v, a, b)) = b - a
           /\ \A i \in 1..(b - a) : Part(v, a, b)[i] = v[a + i]
<1>1. CASE a < b
  <2>1. b <= Len(v) /\ a + 1 \in Nat /\ b \in Nat
    OBVIOUS
  <2>2. SubSeq(v, a + 1, b) \in Seq(Tok) /\ Len(SubSeq(v, a + 1, b)) = b - a
    BY <1>1
  <2>3. \A i \in 1..(b - a) : SubSeq(v, a + 1, b)[i] = v[a + i]
    BY <1>1
  <2>4. QED
    BY <2>2, <2>3 DEF Part
<1>2. CASE a = b
  <2>1. SubSeq(v, a + 1, b) = <<>>
    BY <1>2
  <2>2. QED
    BY <1>2, <2>1 DEF Part
<1>3. QED
  BY <1>1, <1>2

\* The tokens of two sequences that are joined.
LEMMA TokensJoined ==
    ASSUME NEW a \in Seq(Tok), NEW b \in Seq(Tok)
    PROVE  /\ a \o b \in Seq(Tok) /\ Len(a \o b) = Len(a) + Len(b)
           /\ Len(a) \in Nat /\ Len(b) \in Nat
           /\ \A x \in 1..Len(a) : (a \o b)[x] = a[x]
           /\ \A x \in 1..Len(b) : (a \o b)[Len(a) + x] = b[x]
OBVIOUS

\* A part is the join of two.
LEMMA PartJoined ==
    ASSUME NEW v \in Seq(Tok), NEW a \in Nat, NEW m \in a..Len(v), NEW b \in m..Len(v)
    PROVE  Part(v, a, b) = Part(v, a, m) \o Part(v, m, b)
<1> DEFINE s == Part(v, a, m)
           t == Part(v, m, b)
           u == Part(v, a, b)
<1>1. /\ s \in Seq(Tok) /\ Len(s) = m - a /\ \A i \in 1..(m - a) : s[i] = v[a + i]
      /\ t \in Seq(Tok) /\ Len(t) = b - m /\ \A i \in 1..(b - m) : t[i] = v[m + i]
      /\ u \in Seq(Tok) /\ Len(u) = b - a /\ \A i \in 1..(b - a) : u[i] = v[a + i]
  <2>1. m \in Nat /\ b \in a..Len(v)
    OBVIOUS
  <2>2. QED
    BY <2>1, PartIs
<1> HIDE DEF s, t, u
<1>2. /\ s \o t \in Seq(Tok) /\ Len(s \o t) = b - a
      /\ \A x \in 1..(m - a) : (s \o t)[x] = s[x]
      /\ \A x \in 1..(b - m) : (s \o t)[(m - a) + x] = t[x]
  <2>1. /\ s \o t \in Seq(Tok) /\ Len(s \o t) = Len(s) + Len(t)
        /\ \A x \in 1..Len(s) : (s \o t)[x] = s[x]
        /\ \A x \in 1..Len(t) : (s \o t)[Len(s) + x] = t[x]
    BY <1>1, TokensJoined
  <2>2. (m - a) + (b - m) = b - a
    OBVIOUS
  <2>3. QED
    BY <1>1, <2>1, <2>2
<1>3. \A i \in 1..(b - a) : u[i] = (s \o t)[i]
  <2> TAKE i \in 1..(b - a)
  <2>1. u[i] = v[a + i]
    BY <1>1
  <2>2. CASE i <= m - a
    <3>1. i \in 1..(m - a)
      BY <2>2
    <3>2. s[i] = v[a + i] /\ (s \o t)[i] = s[i]
      BY <1>1, <1>2, <3>1
    <3>3. QED
      BY <2>1, <3>2
  <2>3. CASE i > m - a
    <3> DEFINE x == i - (m - a)
    <3>1. x \in 1..(b - m) /\ (m - a) + x = i /\ m + x = a + i
      BY <2>3
    <3> HIDE DEF x
    <3>2. t[x] = v[m + x] /\ (s \o t)[(m - a) + x] = t[x]
      BY <1>1, <1>2, <3>1
    <3>3. QED
      BY <2>1, <3>1, <3>2
  <2>4. i <= m - a \/ i > m - a
    OBVIOUS
  <2>5. QED
    BY <2>2, <2>3, <2>4
<1>4. Len(u) = Len(s \o t) /\ \A i \in 1..Len(u) : u[i] = (s \o t)[i]
  BY <1>1, <1>2, <1>3
<1>5. u = s \o t
  BY <1>1, <1>2, <1>4, SameSeq
<1>6. QED
  BY <1>5 DEF s, t, u

\* Equal joins of parts of equal lengths have equal parts.
LEMMA JoinedApart ==
    ASSUME NEW s \in Seq(Tok), NEW t \in Seq(Tok), NEW c \in Seq(Tok), NEW d \in Seq(Tok),
           s \o t = c \o d, Len(s) = Len(c)
    PROVE  s = c /\ t = d
<1>1. /\ Len(s \o t) = Len(s) + Len(t) /\ Len(c \o d) = Len(c) + Len(d)
      /\ \A x \in 1..Len(s) : (s \o t)[x] = s[x]
      /\ \A x \in 1..Len(t) : (s \o t)[Len(s) + x] = t[x]
      /\ \A x \in 1..Len(c) : (c \o d)[x] = c[x]
      /\ \A x \in 1..Len(d) : (c \o d)[Len(c) + x] = d[x]
      /\ Len(s) \in Nat /\ Len(t) \in Nat /\ Len(c) \in Nat /\ Len(d) \in Nat
  <2> DEFINE Apart(x, y) ==
                 /\ Len(x \o y) = Len(x) + Len(y) /\ Len(x) \in Nat /\ Len(y) \in Nat
                 /\ \A z \in 1..Len(x) : (x \o y)[z] = x[z]
                 /\ \A z \in 1..Len(y) : (x \o y)[Len(x) + z] = y[z]
  <2>1. \A x \in Seq(Tok), y \in Seq(Tok) : Apart(x, y)
    BY TokensJoined
  <2> HIDE DEF Apart
  <2>2. Apart(s, t) /\ Apart(c, d)
    BY <2>1
  <2>3. QED
    BY <2>2 DEF Apart
<1>2. Len(t) = Len(d)
  BY <1>1
<1>3. \A x \in 1..Len(s) : s[x] = c[x]
  BY <1>1
<1>4. \A x \in 1..Len(t) : t[x] = d[x]
  <2> TAKE x \in 1..Len(t)
  <2>1. (s \o t)[Len(s) + x] = t[x]
    BY <1>1
  <2>2. (c \o d)[Len(c) + x] = d[x]
    BY <1>1, <1>2
  <2>3. QED
    BY <2>1, <2>2
<1>5. QED
  BY <1>2, <1>3, <1>4, SameSeq

\* A part that two words make.
LEMMA PartConcats ==
    ASSUME NEW v \in Seq(Tok), NEW a \in Nat, NEW b \in a..Len(v), NEW p \in Nat, a + p <= b,
           NEW A, OfLength(A, p), NEW B \in SUBSET Seq(Tok)
    PROVE  Part(v, a, b) \in Concats(A, B) <=> Part(v, a, a + p) \in A /\ Part(v, a + p, b) \in B
<1> DEFINE m == a + p
           s == Part(v, a, m)
           t == Part(v, m, b)
<1>1. m \in a..Len(v) /\ b \in m..Len(v) /\ m \in Nat /\ m - a = p
  OBVIOUS
<1>2. Part(v, a, b) = s \o t
  BY <1>1, PartJoined
<1>3. s \in Seq(Tok) /\ t \in Seq(Tok) /\ Len(s) = p
  <2>1. Part(v, a, m) \in Seq(Tok) /\ Len(Part(v, a, m)) = m - a
    BY <1>1, PartIs
  <2>2. Part(v, m, b) \in Seq(Tok)
    BY <1>1, PartIs
  <2>3. QED
    BY <1>1, <2>1, <2>2
<1> HIDE DEF m, s, t
<1>4. ASSUME s \o t \in Concats(A, B)
      PROVE  s \in A /\ t \in B
  <2>1. PICK c \in A, d \in B : s \o t = c \o d
    <3> DEFINE w == s \o t
    <3>1. w \in Concats(A, B)
      BY <1>4
    <3> HIDE DEF w
    <3>2. \E c \in A, d \in B : w = c \o d
      BY <3>1, ConcatsAre
    <3>3. QED
      BY <3>2 DEF w
  <2>2. c \in Seq(Tok) /\ d \in Seq(Tok) /\ Len(c) = p
    BY DEF OfLength
  <2>3. s = c /\ t = d
    BY <1>3, <2>1, <2>2, JoinedApart
  <2>4. QED
    BY <2>3
<1>5. ASSUME s \in A, t \in B
      PROVE  s \o t \in Concats(A, B)
  BY <1>5, ConcatsAre
<1>6. Part(v, a, b) \in Concats(A, B) <=> s \in A /\ t \in B
  BY <1>2, <1>4, <1>5
<1>7. QED
  BY <1>6 DEF m, s, t

\* Parts of one token, and of two.
LEMMA PartOne ==
    ASSUME NEW v \in Seq(Tok), NEW a \in Nat, a + 1 <= Len(v), NEW t \in Tok
    PROVE  Part(v, a, a + 1) = <<t>> <=> v[a + 1] = t
<1> DEFINE s == Part(v, a, a + 1)
<1>1. a + 1 \in a..Len(v) /\ (a + 1) - a = 1
  OBVIOUS
<1>2. s \in Seq(Tok) /\ Len(s) = (a + 1) - a /\ \A i \in 1..((a + 1) - a) : s[i] = v[a + i]
  BY <1>1, PartIs
<1> HIDE DEF s
<1>3. Len(s) = 1 /\ s[1] = v[a + 1]
  BY <1>1, <1>2
<1>4. s = <<t>> <=> s[1] = t
  <2>1. <<t>> \in Seq(Tok) /\ Len(<<t>>) = 1 /\ <<t>>[1] = t
    OBVIOUS
  <2>2. s[1] = t => s = <<t>>
    <3> HAVE s[1] = t
    <3>1. \A i \in 1..1 : s[i] = <<t>>[i]
      BY <2>1
    <3>2. QED
      BY <1>2, <1>3, <2>1, <3>1, SameSeq
  <2>3. QED
    BY <2>1, <2>2
<1>5. QED
  BY <1>3, <1>4 DEF s

\* Two tokens.
LEMMA PartTwo ==
    ASSUME NEW v \in Seq(Tok), NEW a \in Nat, a + 2 <= Len(v), NEW t \in Tok, NEW u \in Tok
    PROVE  Part(v, a, a + 2) = <<t, u>> <=> v[a + 1] = t /\ v[a + 2] = u
<1> DEFINE s == Part(v, a, a + 2)
           w == <<t, u>>
<1>1. a + 2 \in a..Len(v) /\ (a + 2) - a = 2
  OBVIOUS
<1>2. s \in Seq(Tok) /\ Len(s) = (a + 2) - a /\ \A i \in 1..((a + 2) - a) : s[i] = v[a + i]
  BY <1>1, PartIs
<1> HIDE DEF s
<1>3. Len(s) = 2 /\ s[1] = v[a + 1] /\ s[2] = v[a + 2]
  BY <1>1, <1>2
<1>4. s = w <=> s[1] = t /\ s[2] = u
  <2>1. w \in Seq(Tok) /\ Len(w) = 2 /\ w[1] = t /\ w[2] = u
    OBVIOUS
  <2> HIDE DEF w
  <2>2. s[1] = t /\ s[2] = u => s = w
    <3> HAVE s[1] = t /\ s[2] = u
    <3>1. \A i \in 1..2 : s[i] = w[i]
      BY <2>1
    <3>2. QED
      BY <1>2, <1>3, <2>1, <3>1, SameSeq
  <2>3. QED
    BY <2>1, <2>2
<1>5. QED
  BY <1>3, <1>4 DEF s, w

\* The words of a place are as long as it says.
LEMMA ConcatsLength ==
    ASSUME NEW A, NEW B, NEW p \in Nat, NEW q \in Nat, OfLength(A, p), OfLength(B, q),
           NEW n, n = p + q
    PROVE  OfLength(Concats(A, B), n)
<1> SUFFICES ASSUME NEW w \in Concats(A, B)
             PROVE  w \in Seq(Tok) /\ Len(w) = n
  BY DEF OfLength
<1>1. PICK c \in A, d \in B : w = c \o d
  BY ConcatsAre
<1>2. c \in Seq(Tok) /\ d \in Seq(Tok) /\ Len(c) = p /\ Len(d) = q
  BY DEF OfLength
<1>3. c \o d \in Seq(Tok) /\ Len(c \o d) = Len(c) + Len(d)
  BY <1>2, TokensJoined
<1>4. QED
  BY <1>1, <1>2, <1>3

\* The tokens by themselves.
LEMMA LettersLength ==
    /\ OfLength({<<>>}, 0) /\ \A n : OfLength({}, n)
    /\ OfLength({<<"v">>, <<"s">>}, 1)
    /\ OfLength({<<"s", ":">>}, 2) /\ OfLength({<<",">>}, 1)
    /\ \A k \in {"Array", "Object"} : OfLength({<<Openers[k]>>}, 1) /\ OfLength({<<Close[k]>>}, 1)
<1>1. \A t : Len(<<t>>) = 1
  OBVIOUS
<1>2. Len(<<>>) = 0 /\ Len(<<"s", ":">>) = 2
  OBVIOUS
<1>3. \A w \in {<<"v">>, <<"s">>} : w \in Seq(Tok) /\ Len(w) = 1
  BY <1>1, LettersType
<1>4. OfLength({<<"v">>, <<"s">>}, 1)
  BY <1>3 DEF OfLength
<1>5. <<>> \in Seq(Tok) /\ <<"s", ":">> \in Seq(Tok) /\ <<",">> \in Seq(Tok)
  BY LettersType
<1>6. OfLength({<<>>}, 0) /\ OfLength({<<"s", ":">>}, 2) /\ OfLength({<<",">>}, 1)
  BY <1>1, <1>2, <1>5, Zenon DEF OfLength
<1>7. \A k \in {"Array", "Object"} : <<Openers[k]>> \in Seq(Tok) /\ <<Close[k]>> \in Seq(Tok)
  BY LettersType
<1>8. \A k \in {"Array", "Object"} : OfLength({<<Openers[k]>>}, 1) /\ OfLength({<<Close[k]>>}, 1)
  BY <1>1, <1>7, Zenon DEF OfLength
<1>9. \A n : OfLength({}, n)
  BY DEF OfLength
<1>10. QED
  BY <1>4, <1>6, <1>8, <1>9

\* The items of a list.
LEMMA ItemLength ==
    ASSUME NEW f, NEW n \in 0..MaxText, NEW m \in 0..n, NEW k,
           \A x \in 0..n : OfLength(f[<<x, "Value">>], x)
    PROVE  OfLength(WordItem(f, m, k), m)
<1>1. CASE k = "Array"
  BY <1>1 DEF WordItem
<1>2. CASE k # "Array" /\ m < 2
  BY <1>2, LettersLength DEF WordItem
<1>3. CASE k # "Array" /\ ~(m < 2)
  <2>1. m - 2 \in 0..n /\ m - 2 \in Nat /\ 2 \in Nat /\ m = 2 + (m - 2)
    BY <1>3, TextAssumption
  <2>2. OfLength(f[<<m - 2, "Value">>], m - 2)
    BY <2>1
  <2>3. OfLength({<<"s", ":">>}, 2)
    BY LettersLength
  <2>4. OfLength(Concats({<<"s", ":">>}, f[<<m - 2, "Value">>]), m)
    BY <2>1, <2>2, <2>3, ConcatsLength
  <2>5. QED
    BY <1>3, <2>4 DEF WordItem
<1>4. QED
  BY <1>1, <1>2, <1>3

\* A list between its brackets, as far as the second.
LEMMA BetweenLength ==
    ASSUME NEW f, NEW n \in 0..MaxText, NEW k \in {"Array", "Object"}, ~(n < 2),
           OfLength(f[<<n - 2, k>>], n - 2)
    PROVE  /\ OfLength(Concats({<<Openers[k]>>}, f[<<n - 2, k>>]), n - 1)
           /\ OfLength(WordBetween(f, n, k), n)
<1>1. n - 2 \in Nat /\ 1 \in Nat /\ n - 1 \in Nat /\ n - 1 = 1 + (n - 2) /\ n = (n - 1) + 1
  BY TextAssumption
<1>2. OfLength({<<Openers[k]>>}, 1) /\ OfLength({<<Close[k]>>}, 1)
  BY LettersLength
<1>3. OfLength(Concats({<<Openers[k]>>}, f[<<n - 2, k>>]), n - 1)
  BY <1>1, <1>2, ConcatsLength
<1>4. OfLength(WordBetween(f, n, k), n)
  BY <1>1, <1>2, <1>3, ConcatsLength DEF WordBetween
<1>5. QED
  BY <1>3, <1>4

\* An item and the comma behind it.
LEMMA MoreLength ==
    ASSUME NEW f, NEW n \in 0..MaxText, NEW k, NEW m \in 1..(n - 2),
           OfLength(WordItem(f, m, k), m), OfLength(f[<<n - m - 1, k>>], n - m - 1)
    PROVE  /\ OfLength(Concats(WordItem(f, m, k), {<<",">>}), m + 1)
           /\ OfLength(WordMore(f, n, k, m), n)
<1>1. /\ m \in Nat /\ 1 \in Nat /\ m + 1 \in Nat /\ n - m - 1 \in Nat
      /\ n = (m + 1) + (n - m - 1)
  BY TextAssumption
<1>2. OfLength({<<",">>}, 1)
  BY LettersLength
<1>3. OfLength(Concats(WordItem(f, m, k), {<<",">>}), m + 1)
  BY <1>1, <1>2, ConcatsLength
<1>4. OfLength(WordMore(f, n, k, m), n)
  BY <1>1, <1>3, ConcatsLength DEF WordMore
<1>5. QED
  BY <1>3, <1>4

\* A step of the recursion.
LEMMA StepLength ==
    ASSUME NEW f, NEW n \in 0..MaxText, NEW k \in Sorts,
           \A x \in 0..(n - 1), j \in Sorts : OfLength(f[<<x, j>>], x),
           k # "Value" => OfLength(f[<<n, "Value">>], n)
    PROVE  OfLength(WordStep(f, n, k), n)
<1>1. CASE k = "Value"
  <2>1. CASE n = 0
    BY <1>1, <2>1, LettersLength DEF WordStep
  <2>2. CASE n = 1
    BY <1>1, <2>2, LettersLength DEF WordStep
  <2>3. CASE ~(n < 2)
    <3>1. n - 2 \in 0..(n - 1) /\ n # 0 /\ n # 1
      BY <2>3, TextAssumption
    <3>2. OfLength(f[<<n - 2, "Array">>], n - 2) /\ OfLength(f[<<n - 2, "Object">>], n - 2)
      BY <3>1 DEF Sorts
    <3>3. OfLength(WordBetween(f, n, "Array"), n) /\ OfLength(WordBetween(f, n, "Object"), n)
      BY <2>3, <3>2, BetweenLength
    <3>4. WordStep(f, n, k) = WordBetween(f, n, "Array") \union WordBetween(f, n, "Object")
      BY <1>1, <3>1 DEF WordStep
    <3>5. QED
      BY <3>3, <3>4 DEF OfLength
  <2>4. QED
    BY <2>1, <2>2, <2>3, TextAssumption
<1>2. CASE k # "Value"
  <2>1. CASE n = 0
    BY <1>2, <2>1, LettersLength DEF WordStep
  <2>2. CASE n # 0
    <3>1. \A x \in 0..n : OfLength(f[<<x, "Value">>], x)
      <4> TAKE x \in 0..n
      <4>1. x = n \/ x \in 0..(n - 1)
        BY TextAssumption
      <4>2. QED
        BY <1>2, <4>1 DEF Sorts
    <3>2. n \in 0..n /\ \A m \in 1..(n - 2) : m \in 0..n /\ n - m - 1 \in 0..(n - 1)
      BY TextAssumption
    <3>3. OfLength(WordItem(f, n, k), n) /\ \A m \in 1..(n - 2) : OfLength(WordItem(f, m, k), m)
      BY <3>1, <3>2, ItemLength
    <3>4. \A m \in 1..(n - 2) : OfLength(WordMore(f, n, k, m), n)
      <4> TAKE m \in 1..(n - 2)
      <4>1. OfLength(f[<<n - m - 1, k>>], n - m - 1)
        BY <3>2
      <4>2. QED
        BY <3>3, <4>1, MoreLength
    <3>5. WordStep(f, n, k) = WordItem(f, n, k) \union UNION {WordMore(f, n, k, m) : m \in 1..(n - 2)}
      BY <1>2, <2>2 DEF WordStep
    <3>6. QED
      BY <3>3, <3>4, <3>5 DEF OfLength
  <2>3. QED
    BY <2>1, <2>2
<1>3. QED
  BY <1>1, <1>2

\* All words, by induction on the length.
LEMMA WordLengths ==
    \A n \in 0..MaxText, k \in Sorts : OfLength(Words[<<n, k>>], n)
<1> DEFINE Bad == {z \in 0..MaxText : ~\A k \in Sorts : OfLength(Words[<<z, k>>], z)}
<1>1. ASSUME Bad # {}
      PROVE  FALSE
  <2>1. PICK z \in Bad : \A y \in Bad : z <= y
    <3>1. Bad \in SUBSET Nat
      OBVIOUS
    <3> HIDE DEF Bad
    <3>2. QED
      BY <1>1, <3>1, LeastOf
  <2>2. z \in 0..MaxText /\ \A y \in 0..MaxText : ~(z <= y) => y \notin Bad
    BY <2>1
  <2>3. \A y \in 0..(z - 1) : y \in 0..MaxText /\ ~(z <= y)
    BY <2>2, TextAssumption
  <2>4. \A y \in 0..(z - 1), k \in Sorts : OfLength(Words[<<y, k>>], y)
    <3>1. \A y \in 0..(z - 1) : y \notin Bad /\ y \in 0..MaxText
      BY <2>2, <2>3
    <3>2. QED
      BY <3>1
  <2>5. OfLength(Words[<<z, "Value">>], z)
    <3>1. "Value" \in Sorts
      BY DEF Sorts
    <3>2. "Value" # "Value" => OfLength(Words[<<z, "Value">>], z)
      OBVIOUS
    <3>3. z \in 0..MaxText
      BY <2>2
    <3>4. OfLength(WordStep(Words, z, "Value"), z)
      BY ONLY <2>4, <3>1, <3>2, <3>3, StepLength
    <3>5. QED
      BY <3>1, <3>3, <3>4, WordsExist
  <2>6. \A k \in Sorts : OfLength(WordStep(Words, z, k), z)
    BY <2>2, <2>4, <2>5, StepLength
  <2>7. \A k \in Sorts : OfLength(Words[<<z, k>>], z)
    BY <2>2, <2>6, WordsExist
  <2>8. QED
    BY <2>1, <2>7
<1>2. QED
  BY <1>1

\* The words of sort k include what stands in v behind a, up to b; and what it
\* takes to be the item of a list, and a list between its brackets.
Says(k, v, a, b) == Part(v, a, b) \in Words[<<b - a, k>>]
ItemSaid(k, v, a, b) ==
    IF k = "Array" THEN Says("Value", v, a, b)
    ELSE a + 2 <= b /\ v[a + 1] = "s" /\ v[a + 2] = ":" /\ Says("Value", v, a + 2, b)
Wrapped(k, v, a, b) ==
    a + 2 <= b /\ v[a + 1] = Opener(k) /\ v[b] = Close[k] /\ Says(k, v, a + 1, b - 1)
FirstOfMore(k, v, a, m, b) == ItemSaid(k, v, a, m) /\ v[m + 1] = "," /\ Says(k, v, m + 1, b)

\* The brackets are tokens.
LEMMA BracketsAre ==
    ASSUME NEW k \in {"Array", "Object"}
    PROVE  Openers[k] = Opener(k) /\ Opener(k) \in Tok /\ Close[k] \in Tok
<1>1. /\ Openers["Array"] = "[" /\ Openers["Object"] = "{"
      /\ Close["Array"] = "]" /\ Close["Object"] = "}"
  BY DEF Openers, Close
<1>2. QED
  BY <1>1 DEF Opener, Tok

\* What is known of the words of one place.
LEMMA WordsType ==
    ASSUME NEW n \in 0..MaxText, NEW k \in Sorts
    PROVE  /\ Words[<<n, k>>] \in SUBSET Seq(Tok) /\ OfLength(Words[<<n, k>>], n)
           /\ Words[<<n, k>>] = WordStep(Words, n, k)
<1>1. <<n, k>> \in WordPlaces
  BY DEF WordPlaces
<1>2. QED
  BY <1>1, WordsExist, WordLengths DEF WordSets

\* Between two brackets.
LEMMA BetweenSaid ==
    ASSUME NEW v \in Seq(Tok), Len(v) <= MaxText, NEW a \in Nat, NEW b \in a..Len(v), ~(b - a < 2),
           NEW k \in {"Array", "Object"}
    PROVE  Part(v, a, b) \in WordBetween(Words, b - a, k) <=> Wrapped(k, v, a, b)
<1> DEFINE n == b - a
           A == {<<Openers[k]>>}
           B == Words[<<n - 2, k>>]
           C == {<<Close[k]>>}
<1>1. /\ n \in 0..MaxText /\ n - 2 \in 0..MaxText /\ n - 1 \in Nat /\ 1 \in Nat /\ a + 1 \in Nat
      /\ a + (n - 1) = b - 1 /\ a + (n - 1) <= b /\ b - 1 \in a..Len(v) /\ a + 1 <= b - 1
      /\ b - 1 \in Nat /\ (b - 1) + 1 = b /\ b <= Len(v) /\ a + 1 <= Len(v) /\ a + 2 <= b
      /\ (b - 1) - (a + 1) = n - 2
  BY TextAssumption
<1>2. B \in SUBSET Seq(Tok) /\ OfLength(B, n - 2)
  BY <1>1, WordsType DEF Sorts
<1>3. OfLength(Concats(A, B), n - 1) /\ OfLength(A, 1) /\ C \in SUBSET Seq(Tok)
  BY <1>1, <1>2, BetweenLength, LettersLength, LettersType
<1>4. Part(v, a, b) \in Concats(Concats(A, B), C)
      <=> Part(v, a, b - 1) \in Concats(A, B) /\ Part(v, b - 1, b) \in C
  <2> HIDE DEF A, B, C, n
  <2>1. Part(v, a, b) \in Concats(Concats(A, B), C)
        <=> Part(v, a, a + (n - 1)) \in Concats(A, B) /\ Part(v, a + (n - 1), b) \in C
    <3> DEFINE p == n - 1
               D == Concats(A, B)
    <3>1. p \in Nat /\ a + p <= b /\ OfLength(D, p)
      BY <1>1, <1>3
    <3> HIDE DEF p, D
    <3>2. Part(v, a, b) \in Concats(D, C) <=> Part(v, a, a + p) \in D /\ Part(v, a + p, b) \in C
      BY <1>3, <3>1, PartConcats
    <3>3. QED
      BY <3>2 DEF p, D
  <2>2. QED
    BY <1>1, <2>1
<1>5. Part(v, a, b - 1) \in Concats(A, B)
      <=> Part(v, a, a + 1) \in A /\ Part(v, a + 1, b - 1) \in B
  <2> HIDE DEF A, B, C, n
  <2>1. QED
    BY <1>1, <1>2, <1>3, PartConcats
<1>6. Part(v, a, a + 1) \in A <=> v[a + 1] = Opener(k)
  <2>1. Part(v, a, a + 1) = <<Opener(k)>> <=> v[a + 1] = Opener(k)
    BY <1>1, PartOne, BracketsAre
  <2>2. QED
    BY <2>1, BracketsAre
<1>7. Part(v, b - 1, b) \in C <=> v[b] = Close[k]
  <2>1. Part(v, b - 1, (b - 1) + 1) = <<Close[k]>> <=> v[(b - 1) + 1] = Close[k]
    BY <1>1, PartOne, BracketsAre
  <2>2. QED
    BY <1>1, <2>1
<1>8. WordBetween(Words, n, k) = Concats(Concats(A, B), C)
  BY DEF WordBetween
<1>9. Part(v, a + 1, b - 1) \in B <=> Says(k, v, a + 1, b - 1)
  BY <1>1 DEF Says
<1> HIDE DEF A, B, C
<1>10. QED
  BY <1>1, <1>4, <1>5, <1>6, <1>7, <1>8, <1>9 DEF Wrapped

\* A value is a literal, a number or a string, or a list.
LEMMA ValueSaid ==
    ASSUME NEW v \in Seq(Tok), Len(v) <= MaxText, NEW a \in Nat, NEW b \in a..Len(v)
    PROVE  Says("Value", v, a, b) <=> \/ b = a + 1 /\ v[a + 1] \in {"v", "s"}
                                      \/ Wrapped("Array", v, a, b)
                                      \/ Wrapped("Object", v, a, b)
<1> DEFINE n == b - a
<1>1. n \in 0..MaxText
  BY TextAssumption
<1>2. Says("Value", v, a, b) <=> Part(v, a, b) \in WordStep(Words, n, "Value")
  BY <1>1, WordsType DEF Says, Sorts
<1>3. CASE n = 0
  <2>1. WordStep(Words, n, "Value") = {} /\ b # a + 1 /\ ~(a + 2 <= b)
    BY <1>3 DEF WordStep
  <2>2. QED
    BY <1>2, <2>1 DEF Wrapped
<1>4. CASE n = 1
  <2>1. WordStep(Words, n, "Value") = {<<"v">>, <<"s">>} /\ b = a + 1 /\ ~(a + 2 <= b) /\ a + 1 <= Len(v)
    BY <1>4 DEF WordStep
  <2>2. /\ Part(v, a, a + 1) = <<"v">> <=> v[a + 1] = "v"
        /\ Part(v, a, a + 1) = <<"s">> <=> v[a + 1] = "s"
    <3>1. "v" \in Tok /\ "s" \in Tok
      BY DEF Tok
    <3>2. QED
      BY <2>1, <3>1, PartOne
  <2>3. QED
    BY <1>2, <2>1, <2>2 DEF Wrapped
<1>5. CASE ~(n < 2)
  <2>1. WordStep(Words, n, "Value") = WordBetween(Words, n, "Array") \union WordBetween(Words, n, "Object")
    BY <1>1, <1>5 DEF WordStep
  <2>2. /\ Part(v, a, b) \in WordBetween(Words, n, "Array") <=> Wrapped("Array", v, a, b)
        /\ Part(v, a, b) \in WordBetween(Words, n, "Object") <=> Wrapped("Object", v, a, b)
    BY <1>5, BetweenSaid
  <2>3. b # a + 1
    BY <1>5
  <2> HIDE DEF n
  <2>4. QED
    BY <1>2, <2>1, <2>2, <2>3
<1>6. QED
  BY <1>1, <1>3, <1>4, <1>5

\* An item.
LEMMA ItemIsSaid ==
    ASSUME NEW v \in Seq(Tok), Len(v) <= MaxText, NEW a \in Nat, NEW b \in a..Len(v),
           NEW k \in {"Array", "Object"}
    PROVE  Part(v, a, b) \in WordItem(Words, b - a, k) <=> ItemSaid(k, v, a, b)
<1> DEFINE n == b - a
<1>1. n \in 0..MaxText
  BY TextAssumption
<1>2. CASE k = "Array"
  BY <1>2 DEF WordItem, ItemSaid, Says
<1>3. CASE k # "Array" /\ n < 2
  <2>1. ~(a + 2 <= b)
    BY <1>3
  <2>2. QED
    BY <1>3, <2>1 DEF WordItem, ItemSaid
<1>4. CASE k # "Array" /\ ~(n < 2)
  <2> DEFINE A == {<<"s", ":">>}
             B == Words[<<n - 2, "Value">>]
  <2>1. /\ n - 2 \in 0..MaxText /\ 2 \in Nat /\ a + 2 <= b /\ a + 2 <= Len(v) /\ b - (a + 2) = n - 2
    BY <1>4, TextAssumption
  <2>2. B \in SUBSET Seq(Tok) /\ OfLength(A, 2)
    BY <2>1, WordsType, LettersLength DEF Sorts
  <2>3. WordItem(Words, n, k) = Concats(A, B)
    BY <1>4 DEF WordItem
  <2>4. Part(v, a, a + 2) \in A <=> v[a + 1] = "s" /\ v[a + 2] = ":"
    <3>1. "s" \in Tok /\ ":" \in Tok
      BY DEF Tok
    <3>2. Part(v, a, a + 2) = <<"s", ":">> <=> v[a + 1] = "s" /\ v[a + 2] = ":"
      BY <2>1, <3>1, PartTwo
    <3>3. QED
      BY <3>2
  <2>5. Part(v, a + 2, b) \in B <=> Says("Value", v, a + 2, b)
    BY <2>1 DEF Says
  <2> HIDE DEF A, B, n
  <2>6. Part(v, a, b) \in Concats(A, B) <=> Part(v, a, a + 2) \in A /\ Part(v, a + 2, b) \in B
    BY <2>1, <2>2, PartConcats
  <2>7. QED
    BY <1>4, <2>1, <2>3, <2>4, <2>5, <2>6 DEF ItemSaid, n
<1>5. QED
  BY <1>2, <1>3, <1>4

\* An item, a comma and more.
LEMMA MoreSaid ==
    ASSUME NEW v \in Seq(Tok), Len(v) <= MaxText, NEW a \in Nat, NEW b \in a..Len(v),
           NEW k \in {"Array", "Object"}, NEW x \in 1..(b - a - 2)
    PROVE  Part(v, a, b) \in WordMore(Words, b - a, k, x) <=> FirstOfMore(k, v, a, a + x, b)
<1> DEFINE n == b - a
           m == a + x
           A == WordItem(Words, x, k)
           C == {<<",">>}
           B == Words[<<n - x - 1, k>>]
<1>1. /\ n \in 0..MaxText /\ n - x - 1 \in 0..MaxText /\ x \in 0..n /\ x \in Nat /\ x + 1 \in Nat
      /\ m \in Nat /\ m \in a..Len(v) /\ m + 1 \in a..Len(v) /\ m + 1 <= b /\ m + 1 <= Len(v) /\ m - a = x
      /\ a + (x + 1) = m + 1 /\ b - (m + 1) = n - x - 1 /\ a + x <= m + 1 /\ x \in 1..(n - 2)
  BY TextAssumption
<1>2. B \in SUBSET Seq(Tok) /\ OfLength(B, n - x - 1)
  BY <1>1, WordsType DEF Sorts
<1>3. OfLength(A, x) /\ C \in SUBSET Seq(Tok)
  <2>1. \A z \in 0..n : OfLength(Words[<<z, "Value">>], z)
    <3>1. \A z \in 0..n : z \in 0..MaxText
      BY <1>1, TextAssumption
    <3>2. QED
      BY <3>1, WordsType DEF Sorts
  <2> HIDE DEF n
  <2>2. QED
    BY <1>1, <2>1, ItemLength, LettersType
<1>4. OfLength(Concats(A, C), x + 1)
  <2> HIDE DEF n
  <2>1. QED
    BY <1>1, <1>2, <1>3, MoreLength
<1>5. WordMore(Words, n, k, x) = Concats(Concats(A, C), B)
  BY DEF WordMore
<1>6. Part(v, a, m) \in A <=> ItemSaid(k, v, a, m)
  BY <1>1, ItemIsSaid
<1>7. Part(v, m, m + 1) \in C <=> v[m + 1] = ","
  <2>1. "," \in Tok
    BY DEF Tok
  <2> HIDE DEF m
  <2>2. Part(v, m, m + 1) = <<",">> <=> v[m + 1] = ","
    BY <1>1, <2>1, PartOne
  <2>3. QED
    BY <2>2
<1>8. Part(v, m + 1, b) \in B <=> Says(k, v, m + 1, b)
  BY <1>1 DEF Says
<1> HIDE DEF A, B, C, n
<1>9. Part(v, a, b) \in Concats(Concats(A, C), B)
      <=> Part(v, a, a + (x + 1)) \in Concats(A, C) /\ Part(v, a + (x + 1), b) \in B
  BY <1>1, <1>2, <1>4, PartConcats
<1>10. Part(v, a, m + 1) \in Concats(A, C) <=> Part(v, a, a + x) \in A /\ Part(v, a + x, m + 1) \in C
  BY <1>1, <1>3, PartConcats
<1>11. QED
  BY <1>1, <1>5, <1>6, <1>7, <1>8, <1>9, <1>10 DEF FirstOfMore, n

\* What stands between the brackets of a list.
LEMMA ListSaid ==
    ASSUME NEW v \in Seq(Tok), Len(v) <= MaxText, NEW a \in Nat, NEW b \in a..Len(v),
           NEW k \in {"Array", "Object"}
    PROVE  Says(k, v, a, b) <=> \/ a = b
                                \/ a < b /\ ItemSaid(k, v, a, b)
                                \/ \E m \in (a + 1)..(b - 2) : FirstOfMore(k, v, a, m, b)
<1> DEFINE n == b - a
<1>1. n \in 0..MaxText /\ k \in Sorts /\ k # "Value"
  BY TextAssumption DEF Sorts
<1>2. Says(k, v, a, b) <=> Part(v, a, b) \in WordStep(Words, n, k)
  BY <1>1, WordsType DEF Says
<1>3. CASE n = 0
  <2>1. a = b /\ WordStep(Words, n, k) = {<<>>}
    BY <1>1, <1>3 DEF WordStep
  <2>2. Part(v, a, b) = <<>>
    <3>1. Part(v, a, b) \in Seq(Tok) /\ Len(Part(v, a, b)) = 0
      BY <2>1, PartIs
    <3>2. QED
      BY <3>1
  <2>3. QED
    BY <1>2, <2>1, <2>2
<1>4. CASE n # 0
  <2>1. a < b /\ a # b
    BY <1>4
  <2>2. WordStep(Words, n, k) = WordItem(Words, n, k) \union UNION {WordMore(Words, n, k, x) : x \in 1..(n - 2)}
    BY <1>1, <1>4 DEF WordStep
  <2>3. Part(v, a, b) \in WordItem(Words, n, k) <=> ItemSaid(k, v, a, b)
    BY ItemIsSaid
  <2>4. \A x \in 1..(n - 2) : Part(v, a, b) \in WordMore(Words, n, k, x) <=> FirstOfMore(k, v, a, a + x, b)
    BY MoreSaid
  <2>5. (\E x \in 1..(n - 2) : FirstOfMore(k, v, a, a + x, b))
        <=> \E m \in (a + 1)..(b - 2) : FirstOfMore(k, v, a, m, b)
    <3>1. \A x \in 1..(n - 2) : a + x \in (a + 1)..(b - 2)
      OBVIOUS
    <3>2. \A m \in (a + 1)..(b - 2) : m - a \in 1..(n - 2) /\ a + (m - a) = m
      OBVIOUS
    <3> HIDE DEF n
    <3>3. ASSUME NEW m \in (a + 1)..(b - 2), FirstOfMore(k, v, a, m, b)
          PROVE  \E x \in 1..(n - 2) : FirstOfMore(k, v, a, a + x, b)
      <4>1. m - a \in 1..(n - 2) /\ FirstOfMore(k, v, a, a + (m - a), b)
        BY <3>2, <3>3
      <4>2. QED
        BY <4>1
    <3>4. QED
      BY <3>1, <3>3
  <2> HIDE DEF n
  <2>6. QED
    BY <1>2, <2>1, <2>2, <2>3, <2>4, <2>5
<1>5. QED
  BY <1>3, <1>4

\* What a value is.
LEMMA ValuesSaid ==
    ASSUME NEW v
    PROVE  v \in Values <=> v \in Seq(Tok) /\ Len(v) <= MaxText /\ Says("Value", v, 0, Len(v))
<1>0. "Value" \in Sorts
  BY DEF Sorts
<1>1. ASSUME v \in Seq(Tok)
      PROVE  Part(v, 0, Len(v)) = v /\ Len(v) - 0 = Len(v) /\ Len(v) \in Nat
  <2>1. Len(v) \in 0..Len(v) /\ 0 \in Nat /\ Len(v) - 0 = Len(v) /\ Len(v) \in Nat
    BY <1>1
  <2>2. /\ Part(v, 0, Len(v)) \in Seq(Tok) /\ Len(Part(v, 0, Len(v))) = Len(v)
        /\ \A i \in 1..Len(v) : Part(v, 0, Len(v))[i] = v[0 + i]
    BY <1>1, <2>1, PartIs
  <2>3. \A i \in 1..Len(v) : Part(v, 0, Len(v))[i] = v[i]
    BY <2>2
  <2>4. QED
    BY <1>1, <2>1, <2>2, <2>3, SameSeq
<1>2. ASSUME v \in Values
      PROVE  v \in Seq(Tok) /\ Len(v) <= MaxText /\ Says("Value", v, 0, Len(v))
  <2>1. PICK n \in 0..MaxText : v \in Words[<<n, "Value">>]
    BY <1>2, ValuesAre
  <2>2. v \in Seq(Tok) /\ Len(v) = n
    BY <1>0, <2>1, WordsType DEF OfLength
  <2>3. Len(v) <= MaxText
    BY <2>2, TextAssumption
  <2>4. QED
    BY <1>1, <2>1, <2>2, <2>3 DEF Says
<1>3. ASSUME v \in Seq(Tok), Len(v) <= MaxText, Says("Value", v, 0, Len(v))
      PROVE  v \in Values
  <2>1. v \in Words[<<Len(v), "Value">>] /\ Len(v) \in 0..MaxText
    BY <1>1, <1>3, TextAssumption DEF Says
  <2>2. QED
    BY <2>1, ValuesAre
<1>4. QED
  BY <1>2, <1>3

-----------------------------------------------------------------------------
(* Which items have a name *)

\* Whether the node m has a name, or is about to get one.
Named(c, h, m) == h[m].string \/ (c = "name" /\ m = Len(h))
Member(k) == k = "Object"

\* The members of an object have one and the items of an array do not, whether
\* the list is complete or still open.
NamedAlike(c, h) ==
    /\ ~Named(c, h, Root)
    /\ \A m \in 1..Len(h) :
           /\ h[m].child # NULL => (Named(c, h, h[m].child) <=> Member(h[m].type))
           /\ h[m].next # NULL => (Named(c, h, h[m].next) <=> Named(c, h, m))
NamedInLists(c, h, fr) ==
    \A i \in 1..Len(fr) : fr[i].head # NULL =>
        /\ Named(c, h, fr[i].head) <=> Member(fr[i].kind)
        /\ Named(c, h, fr[i].last) <=> Member(fr[i].kind)
\* The invariant, and that a name is only read for a member.
NameInv ==
    pc \in Reading => /\ NamedAlike(pc, heap) /\ NamedInLists(pc, heap, frames)
                      /\ pc = "name" => Member(frames[Len(frames)].kind)

\* A step that gives nothing a name that was not about to get one.
LEMMA NamesKept ==
    ASSUME NEW c, NEW h, NEW fr, Inside(h, fr), NamedAlike(c, h), NamedInLists(c, h, fr), Root \in 1..Len(h),
           NEW d, NEW g, Len(g) = Len(h),
           \A m \in 1..Len(h) : /\ g[m].child = h[m].child /\ g[m].next = h[m].next
                                /\ h[m].child # NULL => g[m].type = h[m].type
                                /\ Named(d, g, m) <=> Named(c, h, m)
    PROVE  NamedAlike(d, g) /\ NamedInLists(d, g, fr)
<1>1. \A m \in 1..Len(h) : /\ h[m].child \in {NULL} \union 1..Len(h)
                            /\ h[m].next \in {NULL} \union 1..Len(h)
  BY DEF Inside
<1>2. NamedAlike(d, g)
  <2> SUFFICES ASSUME NEW m \in 1..Len(g)
               PROVE  /\ g[m].child # NULL => (Named(d, g, g[m].child) <=> Member(g[m].type))
                      /\ g[m].next # NULL => (Named(d, g, g[m].next) <=> Named(d, g, m))
    BY DEF NamedAlike
  <2>1. m \in 1..Len(h) /\ g[m].child = h[m].child /\ g[m].next = h[m].next
    OBVIOUS
  <2>2. CASE g[m].child # NULL
    <3>1. h[m].child \in 1..Len(h) /\ g[m].type = h[m].type
      BY <1>1, <2>1, <2>2
    <3>2. Named(d, g, g[m].child) <=> Member(g[m].type)
      BY <2>1, <2>2, <3>1 DEF NamedAlike
    <3>3. QED
      BY <2>2, <3>2, <2>1, <1>1 DEF NamedAlike
  <2>3. CASE g[m].child = NULL
    BY <2>3, <2>1, <1>1 DEF NamedAlike
  <2>4. QED
    BY <2>2, <2>3
<1>3. NamedInLists(d, g, fr)
  <2> SUFFICES ASSUME NEW i \in 1..Len(fr), fr[i].head # NULL
               PROVE  /\ Named(d, g, fr[i].head) <=> Member(fr[i].kind)
                      /\ Named(d, g, fr[i].last) <=> Member(fr[i].kind)
    BY DEF NamedInLists
  <2>1. fr[i].head \in 1..Len(h) /\ fr[i].last \in 1..Len(h)
    <3>1. FirstIn(fr, i) = fr[i].head /\ LastIn(fr, i) = fr[i].last /\ i \in 0..Len(fr)
      BY DEF FirstIn, LastIn, Inside
    <3>2. QED
      BY <3>1 DEF Inside
  <2>2. QED
    BY <2>1 DEF NamedInLists
<1>4. QED
  BY <1>2, <1>3

\* What the steps that read need of the state.
LEMMA WhileNamed ==
    ASSUME ParseInv, NameInv, pc \in Reading
    PROVE  /\ Inside(heap, frames) /\ Root \in 1..Len(heap)
           /\ heap \in Seq(Node) /\ Len(heap) \in Nat /\ Len(heap) \in 1..Len(heap)
           /\ NamedAlike(pc, heap) /\ NamedInLists(pc, heap, frames)
<1>1. PICK e : Tree(heap, e, frames, Len(heap))
  BY WhileReading
<1>2. heap \in Seq(Node) /\ Len(heap) \in Nat /\ Len(heap) \in 1..Len(heap)
  BY WhileReading
<1>3. Root \in 1..Len(heap)
  BY <1>2 DEF Root
<1>4. QED
  BY <1>1, <1>2, <1>3, TreeInside DEF NameInv

\* The youngest node gets a value or its name.
LEMMA YoungestNames ==
    ASSUME ParseInv, NameInv, pc \in {"value", "name"}, frames' = frames, pc' \in Reading, pc' # "name",
           NEW x, heap' = [heap EXCEPT ![Len(heap)] = x],
           x.child = heap[Len(heap)].child, x.next = heap[Len(heap)].next,
           x.string <=> heap[Len(heap)].string \/ pc = "name"
    PROVE  NameInv'
<1> DEFINE N == Len(heap)
<1>0. pc \in Reading
  BY DEF Reading
<1>1. /\ Inside(heap, frames) /\ Root \in 1..N /\ heap \in Seq(Node) /\ N \in Nat /\ N \in 1..N
      /\ NamedAlike(pc, heap) /\ NamedInLists(pc, heap, frames)
  BY <1>0, WhileNamed
<1>2. /\ Current = LastIn(frames, Len(frames)) /\ Current = N
      /\ FirstIn(frames, Len(frames)) # NULL /\ \E e : Tree(heap, e, frames, N)
  <2>1. Current = N
    BY DEF ParseInv
  <2>2. /\ Current = LastIn(frames, Len(frames)) /\ \E e : Tree(heap, e, frames, N)
        /\ Current # NULL => FirstIn(frames, Len(frames)) # NULL
    BY <1>0, WhileReading
  <2>3. N # NULL
    BY <1>1 DEF NULL
  <2>4. QED
    BY <2>1, <2>2, <2>3
<1>3. heap[N].child = NULL
  <2>1. PICK e : Tree(heap, e, frames, N)
    BY <1>2
  <2>2. QED
    BY <1>2, <2>1, YoungestIs
<1>4. Len(heap') = N /\ heap'[N] = x /\ \A m \in 1..N : m # N => heap'[m] = heap[m]
  BY <1>1
<1>5. ASSUME NEW m \in 1..N
      PROVE  /\ heap'[m].child = heap[m].child /\ heap'[m].next = heap[m].next
             /\ heap[m].child # NULL => heap'[m].type = heap[m].type
             /\ Named(pc', heap', m) <=> Named(pc, heap, m)
  <2>1. CASE m = N
    BY <1>3, <1>4, <2>1 DEF Named
  <2>2. CASE m # N
    BY <1>4, <2>2 DEF Named
  <2>3. QED
    BY <2>1, <2>2
<1>6. NamedAlike(pc', heap') /\ NamedInLists(pc', heap', frames)
  BY <1>1, <1>4, <1>5, NamesKept
<1>7. QED
  BY <1>6 DEF NameInv

\* A literal or a number has no name.
LEMMA ScalarNames ==
    ASSUME ParseInv, NameInv, Scalar
    PROVE  NameInv'
<1> DEFINE N == Len(heap)
           x == [heap[N] EXCEPT !.type = "Value"]
<1>1. /\ pc = "value" /\ pc' = Returned /\ frames' = frames /\ pc \in Reading
      /\ heap' = [heap EXCEPT ![Current].type = "Value"]
  BY DEF Scalar, Reading
<1>2. Current = N /\ heap \in Seq(Node) /\ N \in 1..N
  BY <1>1, WhileNamed DEF ParseInv
<1>3. heap[N] \in Node
  BY <1>2
<1>4. heap' = [heap EXCEPT ![N] = x]
  BY <1>1, <1>2
<1>5. x.child = heap[N].child /\ x.next = heap[N].next /\ x.string = heap[N].string
  BY <1>3 DEF Node
<1>6. pc' \in Reading /\ pc' # "name"
  BY <1>1 DEF Returned, Reading
<1> HIDE DEF x
<1>7. x.string <=> heap[N].string \/ pc = "name"
  BY <1>1, <1>5
<1>8. QED
  BY <1>1, <1>4, <1>5, <1>6, <1>7, YoungestNames

\* Nor has a string by itself.
LEMMA StringNames ==
    ASSUME ParseInv, NameInv, StringValue
    PROVE  NameInv'
<1> DEFINE N == Len(heap)
           x == [heap[N] EXCEPT !.type = "String", !.valuestring = TRUE]
<1>1. pc = "value" /\ frames' = frames /\ pc \in Reading
  BY DEF StringValue, Reading
<1>2. CASE Fail("memory")
  BY <1>2 DEF Fail, NameInv, Reading
<1>3. CASE /\ pc' = Returned
           /\ heap' = [heap EXCEPT ![Current].type = "String", ![Current].valuestring = TRUE]
  <2>2. Current = N /\ heap \in Seq(Node) /\ N \in 1..N
    BY <1>1, WhileNamed DEF ParseInv
  <2>3. heap[N] \in Node
    BY <2>2
  <2>4. heap' = [heap EXCEPT ![N] = x]
    BY <1>3, <2>2, <2>3
  <2>5. x.child = heap[N].child /\ x.next = heap[N].next /\ x.string = heap[N].string
    BY <2>3 DEF Node
  <2>6. pc' \in Reading /\ pc' # "name"
    BY <1>3 DEF Returned, Reading
  <2> HIDE DEF x
  <2>7. x.string <=> heap[N].string \/ pc = "name"
    BY <1>1, <2>5
  <2>8. QED
    BY <1>1, <2>4, <2>5, <2>6, <2>7, YoungestNames
<1>4. QED
  BY <1>2, <1>3 DEF StringValue

\* The name itself.
LEMMA NameNames ==
    ASSUME ParseInv, NameInv, Name
    PROVE  NameInv'
<1> DEFINE N == Len(heap)
           x == [heap[N] EXCEPT !.type = "String", !.string = TRUE]
<1>1. pc = "name" /\ frames' = frames /\ pc \in Reading
  BY DEF Name, Reading
<1>2. CASE Fail("memory") \/ Fail("syntax")
  BY <1>2 DEF Fail, NameInv, Reading
<1>3. CASE /\ pc' = "colon"
           /\ heap' = [heap EXCEPT ![Current].type = "String", ![Current].string = TRUE]
  <2>2. Current = N /\ heap \in Seq(Node) /\ N \in 1..N
    BY <1>1, WhileNamed DEF ParseInv
  <2>3. heap[N] \in Node
    BY <2>2
  <2>4. heap' = [heap EXCEPT ![N] = x]
    BY <1>3, <2>2, <2>3
  <2>5. x.child = heap[N].child /\ x.next = heap[N].next /\ x.string
    BY <2>3 DEF Node
  <2>6. pc' \in Reading /\ pc' # "name"
    BY <1>3 DEF Reading
  <2> HIDE DEF x
  <2>7. x.string <=> heap[N].string \/ pc = "name"
    BY <1>1, <2>5
  <2>8. QED
    BY <1>1, <2>4, <2>5, <2>6, <2>7, YoungestNames
<1>4. QED
  BY <1>2, <1>3 DEF Name

\* A step that only looks or opens a list.
LEMMA LookNames ==
    ASSUME ParseInv, NameInv, pc \in Reading, pc # "name", heap' = heap, pc' # "name",
           \A i \in 1..Len(frames') : frames'[i].head # NULL => i \in 1..Len(frames) /\ frames'[i] = frames[i]
    PROVE  NameInv'
<1>1. \A m : Named(pc', heap, m) <=> Named(pc, heap, m)
  BY DEF Named
<1>2. NamedAlike(pc', heap)
  BY <1>1 DEF NameInv, NamedAlike
<1>3. NamedInLists(pc', heap, frames')
  BY <1>1 DEF NameInv, NamedInLists
<1>4. QED
  BY <1>2, <1>3 DEF NameInv

\* A list that is opened has no item yet.
LEMMA OpenNames ==
    ASSUME ParseInv, NameInv, NEW k \in {"Array", "Object"}, OpenList(k)
    PROVE  NameInv'
<1>1. pc = "value" /\ heap' = heap /\ pc \in Reading
  BY DEF OpenList, Reading
<1>2. CASE Fail("depth")
  BY <1>2 DEF Fail, NameInv, Reading
<1>3. CASE pc' = "first" /\ frames' = Append(frames, [item |-> Current, kind |-> k, head |-> NULL, last |-> NULL])
  <2> DEFINE x == [item |-> Current, kind |-> k, head |-> NULL, last |-> NULL]
  <2>1. frames \in Seq(Frame) /\ x \in Frame /\ x.head = NULL
    <3>1. frames \in Seq(Frame) /\ Current = Len(heap) /\ Len(heap) \in Nat
      BY <1>1, WhileReading DEF ParseInv
    <3>2. QED
      BY <3>1 DEF Frame, NULL
  <2>2. frames' = Append(frames, x)
    BY <1>3
  <2> HIDE DEF x
  <2>3. \A i \in 1..Len(frames') : (i \in 1..Len(frames) /\ frames'[i] = frames[i]) \/ frames'[i] = x
    BY <2>1, <2>2
  <2>4. QED
    BY <1>1, <1>3, <2>1, <2>3, LookNames
<1>4. QED
  BY <1>2, <1>3 DEF OpenList

\* A complete list.
LEMMA CloseNames ==
    ASSUME ParseInv, NameInv, CloseList
    PROVE  NameInv'
<1> DEFINE N == Len(heap)
           K == Len(frames)
<1>1. /\ pc \in {"first", "after"} /\ pc \in Reading /\ frames' = Front(frames) /\ pc' # "name"
      /\ frames # <<>>
  BY DEF CloseList, Reading, ParseInv
<1>2. /\ Inside(heap, frames) /\ Root \in 1..N /\ N \in Nat
      /\ NamedAlike(pc, heap) /\ NamedInLists(pc, heap, frames)
  BY <1>1, WhileNamed
<1>3. /\ Len(heap') = N
      /\ \A m \in 1..N : /\ heap'[m].next = heap[m].next /\ heap'[m].string = heap[m].string
                         /\ heap'[m].child = IF m = Top.item THEN Top.head ELSE heap[m].child
                         /\ heap'[m].type = IF m = Top.item THEN Top.kind ELSE heap[m].type
  BY ListTaken
<1>4. /\ frames \in Seq(Frame) /\ K \in Nat /\ Top = frames[K]
      /\ K \in 1..K /\ Len(frames') = K - 1 /\ \A i \in 1..(K - 1) : frames'[i] = frames[i]
  BY <1>1, WhileReading, FrontIs
<1>5. \A m \in 1..N : Named(pc', heap', m) <=> Named(pc, heap, m)
  BY <1>1, <1>3 DEF Named
<1>6. Top.head # NULL => Top.head \in 1..N /\ (Named(pc, heap, Top.head) <=> Member(Top.kind))
  <2>1. FirstIn(frames, K) = Top.head /\ K \in 0..K
    BY <1>4 DEF FirstIn
  <2>2. QED
    BY <1>2, <1>4, <2>1 DEF Inside, NamedInLists
<1>7. NamedAlike(pc', heap')
  <2>1. ASSUME NEW m \in 1..N
        PROVE  /\ heap'[m].child # NULL => (Named(pc', heap', heap'[m].child) <=> Member(heap'[m].type))
               /\ heap'[m].next # NULL => (Named(pc', heap', heap'[m].next) <=> Named(pc', heap', m))
    <3>1. heap[m].child \in {NULL} \union 1..N /\ heap[m].next \in {NULL} \union 1..N
      BY <1>2 DEF Inside
    <3>2. /\ heap[m].child # NULL => (Named(pc, heap, heap[m].child) <=> Member(heap[m].type))
          /\ heap[m].next # NULL => (Named(pc, heap, heap[m].next) <=> Named(pc, heap, m))
      BY <1>2 DEF NamedAlike
    <3>3. heap'[m].next # NULL => (Named(pc', heap', heap'[m].next) <=> Named(pc', heap', m))
      BY <1>3, <1>5, <3>1, <3>2
    <3>4. CASE m = Top.item
      BY <1>3, <1>5, <1>6, <3>3, <3>4
    <3>5. CASE m # Top.item
      BY <1>3, <1>5, <3>1, <3>2, <3>3, <3>5
    <3>6. QED
      BY <3>4, <3>5
  <2>2. ~Named(pc', heap', Root)
    BY <1>2, <1>5 DEF NamedAlike
  <2>3. QED
    BY <1>3, <2>1, <2>2 DEF NamedAlike
<1>8. NamedInLists(pc', heap', frames')
  <2> SUFFICES ASSUME NEW i \in 1..Len(frames'), frames'[i].head # NULL
               PROVE  /\ Named(pc', heap', frames'[i].head) <=> Member(frames'[i].kind)
                      /\ Named(pc', heap', frames'[i].last) <=> Member(frames'[i].kind)
    BY DEF NamedInLists
  <2>1. i \in 1..K /\ i \in 0..K /\ i # 0 /\ frames'[i] = frames[i]
    BY <1>4
  <2>2. frames[i].head \in 1..N /\ frames[i].last \in 1..N
    BY <1>2, <2>1 DEF Inside, FirstIn, LastIn
  <2>3. QED
    BY <1>2, <1>5, <2>1, <2>2 DEF NamedInLists
<1>9. QED
  BY <1>1, <1>7, <1>8 DEF NameInv

\* A list that gets one item more, with a name if its items have one.
LEMMA NamesGrow ==
    ASSUME NEW c, NEW h, NEW fr \in Seq(Frame), fr # <<>>, Inside(h, fr), Root \in 1..Len(h),
           NamedAlike(c, h), NamedInLists(c, h, fr),
           fr[Len(fr)].head = NULL => fr[Len(fr)].last = NULL,
           NEW d, NEW g, Lengthened(h, g, fr[Len(fr)].last),
           \A m \in 1..Len(h) : g[m].type = h[m].type /\ (Named(d, g, m) <=> Named(c, h, m)),
           Named(d, g, Len(h) + 1) <=> Member(fr[Len(fr)].kind)
    PROVE  NamedAlike(d, g) /\ NamedInLists(d, g, NextItem(fr, Len(h) + 1))
<1> DEFINE N == Len(h)
           n == N + 1
           K == Len(fr)
           l == fr[K].last
           fn == NextItem(fr, n)
<1>1. N \in Nat /\ n \in Nat /\ Len(g) = n /\ K \in 1..K /\ K \in 0..K /\ K # 0
  <2>1. Len(h) \in Nat
    BY DEF Inside
  <2>2. K \in 1..K /\ K \in 0..K /\ K # 0
    OBVIOUS
  <2>3. QED
    BY <2>1, <2>2 DEF Lengthened
<1>2. \A m \in 1..n : m \in 1..N \/ m = n
  BY <1>1
<1>3. /\ Len(fn) = K /\ \A i \in 1..K : i # K => fn[i] = fr[i]
      /\ fn[K].kind = fr[K].kind /\ fn[K].last = n
      /\ fn[K].head = IF fr[K].head = NULL THEN n ELSE fr[K].head
  BY <1>1, NextItemIs
<1>4. \A m \in 1..N : /\ g[m].child = h[m].child
                      /\ m # l => g[m].next = h[m].next
  BY DEF Lengthened
<1>5. g[n].child = NULL /\ g[n].next = NULL /\ (l # NULL => g[l].next = n)
  BY DEF Lengthened
<1>6. \A m \in 1..N : g[m].type = h[m].type /\ (Named(d, g, m) <=> Named(c, h, m))
  OBVIOUS
<1>7. Named(d, g, n) <=> Member(fr[K].kind)
  OBVIOUS
<1>8. \A m \in 1..N : m # NULL
  BY DEF NULL
<1>9. ASSUME NEW i \in 1..K, fr[i].head # NULL
      PROVE  /\ fr[i].head \in 1..N /\ fr[i].last \in 1..N
             /\ Named(c, h, fr[i].head) <=> Member(fr[i].kind)
             /\ Named(c, h, fr[i].last) <=> Member(fr[i].kind)
  <2>1. i \in 0..K /\ i # 0
    BY <1>1
  <2>2. FirstIn(fr, i) = fr[i].head /\ LastIn(fr, i) = fr[i].last
    BY <2>1 DEF FirstIn, LastIn
  <2>3. fr[i].head \in 1..N /\ fr[i].last \in 1..N
    BY <1>9, <2>1, <2>2 DEF Inside
  <2>4. QED
    BY <1>9, <2>3 DEF NamedInLists
<1>10. l # NULL => l \in 1..N /\ (Named(c, h, l) <=> Member(fr[K].kind))
  BY <1>1, <1>9
<1>11. \A m \in 1..N : h[m].child \in {NULL} \union 1..N /\ h[m].next \in {NULL} \union 1..N
  BY DEF Inside
<1>12. \A m \in 1..N : /\ h[m].child # NULL => (Named(c, h, h[m].child) <=> Member(h[m].type))
                       /\ h[m].next # NULL => (Named(c, h, h[m].next) <=> Named(c, h, m))
  BY DEF NamedAlike
<1>13. Root \in 1..N /\ ~Named(c, h, Root)
  BY DEF NamedAlike
<1> HIDE DEF N, n, K, l, fn
<1>14. NamedAlike(d, g)
  <2>1. ASSUME NEW m \in 1..N
        PROVE  /\ g[m].child # NULL => (Named(d, g, g[m].child) <=> Member(g[m].type))
               /\ g[m].next # NULL => (Named(d, g, g[m].next) <=> Named(d, g, m))
    <3>1. g[m].child # NULL => (Named(d, g, g[m].child) <=> Member(g[m].type))
      <4>1. g[m].child = h[m].child /\ g[m].type = h[m].type
        BY <1>4, <1>6
      <4>2. g[m].child # NULL => h[m].child \in 1..N
        BY <1>11, <4>1
      <4>3. QED
        BY <1>6, <1>12, <4>1, <4>2
    <3>2. CASE m = l
      <4>1. l # NULL
        BY <1>8, <3>2
      <4>2. g[m].next = n
        BY <1>5, <3>2, <4>1
      <4>3. Named(c, h, m) <=> Member(fr[K].kind)
        BY <1>10, <3>2, <4>1
      <4>4. Named(d, g, m) <=> Named(c, h, m)
        BY <1>6
      <4>5. QED
        BY <1>7, <3>1, <4>2, <4>3, <4>4
    <3>3. CASE m # l
      <4>1. g[m].next = h[m].next
        BY <1>4, <3>3
      <4>2. g[m].next # NULL => h[m].next \in 1..N
        BY <1>11, <4>1
      <4>3. Named(d, g, m) <=> Named(c, h, m)
        BY <1>6
      <4>4. QED
        BY <1>6, <1>12, <3>1, <4>1, <4>2, <4>3
    <3>4. QED
      BY <3>2, <3>3
  <2>2. ~Named(d, g, Root)
    BY <1>6, <1>13
  <2>3. QED
    BY <1>1, <1>2, <1>5, <2>1, <2>2 DEF NamedAlike
<1>15. NamedInLists(d, g, fn)
  <2> SUFFICES ASSUME NEW i \in 1..K, fn[i].head # NULL
               PROVE  /\ Named(d, g, fn[i].head) <=> Member(fn[i].kind)
                      /\ Named(d, g, fn[i].last) <=> Member(fn[i].kind)
    BY <1>3 DEF NamedInLists
  <2>1. CASE i # K
    <3>1. fn[i] = fr[i]
      BY <1>3, <2>1
    <3>2. QED
      BY <1>6, <1>9, <3>1
  <2>2. CASE i = K
    <3>1. fn[i].kind = fr[K].kind /\ fn[i].last = n
      BY <1>3, <2>2
    <3>2. fn[i].head = IF fr[K].head = NULL THEN n ELSE fr[K].head
      BY <1>3, <2>2
    <3>3. CASE fr[K].head = NULL
      BY <1>7, <3>1, <3>2, <3>3
    <3>4. CASE fr[K].head # NULL
      <4>1. fr[K].head \in 1..N /\ (Named(c, h, fr[K].head) <=> Member(fr[K].kind))
        BY <1>1, <1>9, <3>4
      <4>2. QED
        BY <1>6, <1>7, <3>1, <3>2, <3>4, <4>1
    <3>5. QED
      BY <3>3, <3>4
  <2>3. QED
    BY <2>1, <2>2
<1>16. QED
  BY <1>14, <1>15 DEF fn, n, N

\* A new item.
LEMMA ElementNames ==
    ASSUME ParseInv, NameInv, Element
    PROVE  NameInv'
<1>1. pc = "element" /\ pc \in Reading /\ frames # <<>>
  BY DEF Element, Reading, ParseInv
<1>2. CASE pc' = "fail"
  BY <1>2 DEF NameInv, Reading
<1>3. CASE pc' # "fail"
  <2>1. /\ Lengthened(heap, heap', frames[Len(frames)].last)
        /\ \A m \in 1..Len(heap) : heap'[m].type = heap[m].type /\ heap'[m].string = heap[m].string
        /\ ~heap'[Len(heap) + 1].string
        /\ frames' = NextItem(frames, Len(heap) + 1)
        /\ pc' = IF Top.kind = "Array" THEN "value" ELSE "name"
    BY <1>3, ElementAdded
  <2>2. /\ Inside(heap, frames) /\ Root \in 1..Len(heap) /\ Len(heap) \in Nat
        /\ NamedAlike(pc, heap) /\ NamedInLists(pc, heap, frames)
    BY <1>1, WhileNamed
  <2>3. /\ frames \in Seq(Frame) /\ Top = frames[Len(frames)] /\ Top \in Frame
        /\ Top.head = NULL => Top.last = NULL
    BY <1>1, WhileReading
  <2>4. Top.kind \in {"Array", "Object"}
    BY <2>3 DEF Frame
  <2>5. pc' = "name" <=> Member(Top.kind)
    BY <2>1, <2>4 DEF Member
  <2>6. Len(heap') = Len(heap) + 1 /\ \A m \in 1..Len(heap) : m # Len(heap) + 1
    BY <2>1, <2>2 DEF Lengthened
  <2>7. \A m \in 1..Len(heap) : Named(pc', heap', m) <=> Named(pc, heap, m)
    BY <1>1, <2>1, <2>6 DEF Named
  <2>8. Named(pc', heap', Len(heap) + 1) <=> Member(frames[Len(frames)].kind)
    BY <2>1, <2>3, <2>5, <2>6 DEF Named
  <2>9. frames[Len(frames)].head = NULL => frames[Len(frames)].last = NULL
    BY <2>3
  <2>10. NamedAlike(pc', heap') /\ NamedInLists(pc', heap', frames')
    BY <1>1, <2>1, <2>2, <2>3, <2>7, <2>8, <2>9, NamesGrow
  <2>11. frames'[Len(frames')].kind = Top.kind
    BY <1>1, <2>1, <2>2, <2>3, NextItemIs
  <2>12. QED
    BY <2>5, <2>10, <2>11 DEF NameInv
<1>4. QED
  BY <1>2, <1>3

\* Every step.
LEMMA NamesKeep ==
    ASSUME ParseInv, NameInv, [ParseNext]_parseVars
    PROVE  NameInv'
<1>1. CASE UNCHANGED parseVars
  <2>1. UNCHANGED <<pc, heap, frames>>
    BY <1>1 DEF parseVars
  <2>2. QED
    BY <2>1 DEF NameInv
<1>2. CASE Start
  <2>1. CASE pc' = "refused"
    BY <2>1 DEF NameInv, Reading
  <2>2. CASE heap' = <<Blank>> /\ pc' = "value"
    <3> DEFINE h == <<Blank>>
    <3>1. Len(h) = 1 /\ h[1] = Blank /\ Blank.string = FALSE /\ Blank.child = NULL /\ Blank.next = NULL
      BY DEF Blank
    <3>2. frames' = <<>>
      BY <1>2 DEF ParseInv, Start
    <3>3. 1..Len(<<>>) = {} /\ 1..1 = {1}
      OBVIOUS
    <3> HIDE DEF h
    <3>4. ~Named("value", h, 1)
      BY <3>1 DEF Named
    <3>5. NamedAlike("value", h)
      BY <3>1, <3>3, <3>4 DEF NamedAlike, Root
    <3>6. NamedInLists("value", h, <<>>)
      BY <3>3 DEF NamedInLists
    <3>7. heap' = h
      BY <2>2 DEF h
    <3>8. QED
      BY <2>2, <3>2, <3>5, <3>6, <3>7 DEF NameInv
  <2>3. QED
    BY <1>2, <2>1, <2>2 DEF Start
<1>3. CASE NoValue
  BY <1>3 DEF NoValue, Fail, NameInv, Reading
<1>4. CASE Unwind
  <2>1. pc' = "refused" \/ pc' = "fail"
    BY <1>4 DEF Unwind
  <2>2. QED
    BY <2>1 DEF NameInv, Reading
<1>5. CASE DeleteRoot
  BY <1>5 DEF DeleteRoot, NameInv, Reading
<1>6. CASE \E k \in {"Array", "Object"} : OpenList(k)
  BY <1>6, OpenNames
<1>7. CASE NotClosed
  BY <1>7, LookNames DEF NotClosed, Reading
<1>8. CASE Colon
  <2>1. CASE Fail("syntax")
    BY <2>1 DEF Fail, NameInv, Reading
  <2>2. CASE pc' = "value"
    BY <1>8, <2>2, LookNames DEF Colon, Reading
  <2>3. QED
    BY <1>8, <2>1, <2>2 DEF Colon
<1>9. CASE Comma
  <2>1. CASE Fail("syntax")
    BY <2>1 DEF Fail, NameInv, Reading
  <2>2. CASE pc' = "element"
    BY <1>9, <2>2, LookNames DEF Comma, Reading
  <2>3. QED
    BY <1>9, <2>1, <2>2 DEF Comma
<1>10. QED
  BY <1>1, <1>2, <1>3, <1>4, <1>5, <1>6, <1>7, <1>8, <1>9, ScalarNames, StringNames, NameNames,
     ElementNames, CloseNames DEF ParseNext

-----------------------------------------------------------------------------
(* How much of a text is read *)

\* Nothing is read beyond the last token, and the end of the text is all that
\* can be seen there.
Bounded(tx, p) ==
    /\ p <= MaxText
    /\ Len(tx) > MaxText => tx[Len(tx)] = "?"
LenInv == pc \in Reading \union {"start"} => Bounded(text, pos)

\* A look leaves it so, and so does reading a token that is not the end.
LEMMA PeekBounded ==
    ASSUME text \in Seq(Tok), pos \in Nat, pos <= Len(text), Len(text) <= pos + 1, Bounded(text, pos),
           NEW t, Peek(t)
    PROVE  Bounded(text', pos) /\ (t # "?" => Bounded(text', pos + 1))
<1>0. Len(text) \in Nat /\ pos <= MaxText /\ MaxText \in Nat
  BY TextAssumption DEF Bounded
<1>1. CASE pos < Len(text)
  <2>1. t = text[pos + 1] /\ text' = text /\ Len(text) = pos + 1
    BY <1>0, <1>1 DEF Peek
  <2>2. t # "?" => Len(text) <= MaxText
    BY <1>0, <2>1 DEF Bounded
  <2>3. t # "?" => pos + 1 <= MaxText
    BY <2>1, <2>2
  <2>4. QED
    BY <2>1, <2>3 DEF Bounded
<1>2. CASE ~(pos < Len(text))
  <2>1. t \in (IF Len(text) < MaxText THEN Tok ELSE {"?"}) /\ text' = Append(text, t)
    BY <1>2 DEF Peek
  <2>2. Len(text) = pos
    BY <1>0, <1>2
  <2>3. Len(text') = pos + 1 /\ text'[pos + 1] = t
    BY <2>1, <2>2
  <2>4. CASE pos < MaxText
    <3>1. pos + 1 <= MaxText /\ ~(pos + 1 > MaxText)
      BY <1>0, <2>4
    <3>2. QED
      BY <1>0, <2>3, <3>1 DEF Bounded
  <2>5. CASE ~(pos < MaxText)
    <3>1. t = "?"
      BY <2>1, <2>2, <2>5
    <3>2. QED
      BY <1>0, <2>3, <3>1 DEF Bounded
  <2>6. QED
    BY <2>4, <2>5
<1>3. QED
  BY <1>1, <1>2

\* Looking and reading on.
LEMMA LooksBounded ==
    ASSUME ParseInv, SpellInv, LenInv, pc \in Reading, NEW t, Peek(t), UNCHANGED pos
    PROVE  LenInv'
<1>1. Bounded(text', pos)
  BY WhileSpelled, PeekBounded DEF LenInv
<1>2. QED
  BY <1>1 DEF LenInv
\* Reading on.
LEMMA ReadsBounded ==
    ASSUME ParseInv, SpellInv, LenInv, pc \in Reading, NEW t, t # "?", Consume(t)
    PROVE  LenInv'
<1>1. Peek(t) /\ pos' = pos + 1
  BY DEF Consume
<1>2. Bounded(text', pos + 1)
  BY <1>1, WhileSpelled, PeekBounded DEF LenInv
<1>3. QED
  BY <1>1, <1>2 DEF LenInv
\* Neither.
LEMMA StaysBounded ==
    ASSUME LenInv, pc \in Reading, UNCHANGED <<text, pos>>
    PROVE  LenInv'
BY DEF LenInv

\* What closes a list is neither a comma nor the end of the text.
LEMMA ClosesAre ==
    ASSUME NEW f \in Frame
    PROVE  f.kind \in {"Array", "Object"} /\ Close[f.kind] \in Tok /\ Close[f.kind] \notin {"?", ","}
<1>1. f.kind \in {"Array", "Object"}
  BY DEF Frame
<1>2. Close["Array"] = "]" /\ Close["Object"] = "}"
  BY DEF Close
<1>3. QED
  BY <1>1, <1>2 DEF Tok

\* Every step.
LEMMA LenKeeps ==
    ASSUME ParseInv, SpellInv, LenInv, [ParseNext]_parseVars
    PROVE  LenInv'
<1>1. CASE UNCHANGED parseVars
  <2>1. UNCHANGED <<pc, text, pos>>
    BY <1>1 DEF parseVars
  <2>2. QED
    BY <2>1 DEF LenInv
<1>2. CASE Start
  <2>1. pc = "start" /\ UNCHANGED <<text, pos>>
    BY <1>2 DEF Start
  <2>2. QED
    BY <2>1 DEF LenInv
<1>3. CASE Scalar
  BY <1>3, ReadsBounded DEF Scalar, Reading
<1>4. CASE StringValue
  BY <1>4, ReadsBounded, LooksBounded DEF StringValue, Reading
<1>5. CASE NoValue
  BY <1>5, LooksBounded DEF NoValue, Reading
<1>6. CASE CloseList
  <2>1. pc \in Reading /\ frames # <<>> /\ Consume(Close[Top.kind])
    BY <1>6 DEF CloseList, Reading, ParseInv
  <2>2. Close[Top.kind] # "?"
    BY <2>1, WhileReading, ClosesAre
  <2>3. QED
    BY <2>1, <2>2, ReadsBounded
<1>7. CASE NotClosed
  BY <1>7, LooksBounded DEF NotClosed, Reading
<1>8. CASE Element
  BY <1>8, StaysBounded DEF Element, Reading
<1>9. CASE Name
  BY <1>9, ReadsBounded, LooksBounded DEF Name, Reading
<1>10. CASE Colon
  BY <1>10, ReadsBounded, LooksBounded DEF Colon, Reading
<1>11. CASE Comma
  BY <1>11, ReadsBounded, LooksBounded DEF Comma, Reading
<1>12. CASE Unwind
  <2>1. pc' \notin Reading \union {"start"}
    BY <1>12 DEF Unwind, Reading
  <2>2. QED
    BY <2>1 DEF LenInv
<1>13. CASE DeleteRoot
  <2>1. pc' \notin Reading \union {"start"}
    BY <1>13 DEF DeleteRoot, Reading
  <2>2. QED
    BY <2>1 DEF LenInv
<1>14. CASE \E k \in {"Array", "Object"} : OpenList(k)
  <2>1. PICK k \in {"Array", "Object"} : OpenList(k)
    BY <1>14
  <2>2. CASE Len(frames) >= DepthLimit
    <3>1. \E t : Peek(t) /\ pc \in Reading /\ UNCHANGED pos
      BY <2>1, <2>2 DEF OpenList, Reading
    <3>2. QED
      BY <3>1, LooksBounded
  <2>3. CASE ~(Len(frames) >= DepthLimit)
    <3>1. \E t : t # "?" /\ Consume(t) /\ pc \in Reading
      BY <2>1, <2>3 DEF OpenList, Reading
    <3>2. QED
      BY <3>1, ReadsBounded
  <2>4. QED
    BY <2>2, <2>3
<1>15. QED
  BY <1>1, <1>2, <1>3, <1>4, <1>5, <1>6, <1>7, <1>8, <1>9, <1>10, <1>11, <1>12, <1>13, <1>14 DEF ParseNext

-----------------------------------------------------------------------------
(* The tree of a text that is accepted *)

\* Every node is written where from and to say, and what follows it behind it.
AllWritten(h, tx, from, to, until) ==
    /\ Upward(h) /\ Len(h) \in Nat /\ Root \in 1..Len(h) /\ h[Root].next = NULL
    /\ tx \in Seq(Tok) /\ Len(tx) \in Nat /\ from[Root] = 0 /\ to[Root] = Len(tx)
    /\ \A m \in 1..Len(h) :
           /\ from[m] \in 0..Len(tx) /\ to[m] \in 0..Len(tx) /\ until[m] \in 0..Len(tx)
           /\ Written(h, tx, from, to, until, m)
           /\ Linked(h, tx, from, to, until, m)
           /\ m # Root /\ h[m].next = NULL => until[m] = to[m]

\* When the text is accepted the whole tree is written in it.
LEMMA AcceptedTree ==
    ASSUME ParseInv, SpellInv, NameInv, LenInv, pc = "accepted"
    PROVE  /\ \E from, to, until : AllWritten(heap, text, from, to, until)
           /\ NamedAlike(pc, heap) /\ Len(text) <= MaxText
<1> DEFINE N == Len(heap)
<1>0. pc \in Reading
  BY DEF Reading
<1>1. PICK from, to, until : /\ Spelled(heap, frames, Young(pc, heap), text, pos, from, to, until)
                             /\ Stands(heap, frames, text, pos, pc, from, to)
  BY <1>0 DEF SpellInv
<1>2. frames = <<>> /\ Young(pc, heap) = NULL /\ pos = to[Root] /\ Len(text) = pos
  BY <1>1 DEF ParseInv, Young, Stands
<1>3. PICK e : Tree(heap, e, frames, Len(heap))
  BY <1>0, WhileSpelled
<1>4. /\ heap \in Seq(Node) /\ N \in Nat /\ N \in 1..N /\ text \in Seq(Tok) /\ Inside(heap, frames)
      /\ TextOrder(heap, e) /\ Nested(heap, e, frames, N) /\ pos \in Nat
  <2>1. /\ heap \in Seq(Node) /\ N \in Nat /\ N \in 1..N /\ text \in Seq(Tok) /\ Inside(heap, frames)
        /\ pos \in Nat
    BY <1>0, WhileSpelled
  <2>2. QED
    BY <1>3, <2>1 DEF Tree
<1>5. Upward(heap)
  BY <1>4, OrderIsUpward
<1>6. Len(frames) = 0 /\ 0 \in 0..0 /\ 0..0 = {0} /\ 1..0 = {} /\ Root \in 1..N
  BY <1>2, <1>4 DEF Root
<1>7. heap[Root].next = NULL
  <2>1. FirstIn(frames, 0) # NULL /\ LastIn(frames, 0) = Root
    BY DEF FirstIn, LastIn, Root, NULL
  <2>2. Growing(heap, e, FirstIn(frames, 0), LastIn(frames, 0), N)
    BY <1>4, <1>6, <2>1 DEF Nested
  <2>3. QED
    BY <2>1, <2>2 DEF Growing
<1>8. \A m \in 1..N : from[m] \in 0..Len(text) /\ to[m] \in 0..Len(text) /\ until[m] \in 0..Len(text)
  <2> DEFINE R == 0..pos
  <2>1. from \in [1..N -> R] /\ to \in [1..N -> R] /\ until \in [1..N -> R]
    BY <1>1 DEF Spelled, Placed
  <2>2. R = 0..Len(text)
    BY <1>2
  <2> HIDE DEF R
  <2>3. QED
    BY <2>1, <2>2
<1>9. \A m \in 1..N : /\ Written(heap, text, from, to, until, m)
                      /\ Linked(heap, text, from, to, until, m)
                      /\ m # Root /\ heap[m].next = NULL => until[m] = to[m]
  <2> TAKE m \in 1..N
  <2>1. Done(frames, NULL, m)
    BY <1>6 DEF Done, NULL
  <2>2. /\ Written(heap, text, from, to, until, m) /\ Linked(heap, text, from, to, until, m)
        /\ Ended(heap, frames, NULL, to, until, m)
    BY <1>1, <1>2, <2>1 DEF Spelled
  <2>3. \A i \in 0..Len(frames) : LastIn(frames, i) = Root
    BY <1>6 DEF LastIn
  <2>4. QED
    BY <2>2, <2>3 DEF Ended
<1>10. from[Root] = 0 /\ to[Root] = Len(text) /\ Len(text) \in Nat
  BY <1>1, <1>2, <1>4 DEF Spelled, Placed
<1>11. AllWritten(heap, text, from, to, until)
  BY <1>4, <1>5, <1>6, <1>7, <1>8, <1>9, <1>10 DEF AllWritten
<1>12. NamedAlike(pc, heap) /\ Len(text) <= MaxText
  BY <1>0, <1>2 DEF NameInv, LenInv, Bounded
<1>13. QED
  BY <1>11, <1>12

\* What holds of a node when it holds of all that are younger holds of all.
LEMMA FromTheYoungest ==
    ASSUME NEW N \in Nat, NEW T,
           \A m \in 1..N : (\A x \in 1..N : x > m => x \in T) => m \in T
    PROVE  \A m \in 1..N : m \in T
<1> DEFINE S == {k \in Nat : \A m \in 1..N : m > N - k => m \in T}
<1>1. 0 \in S
  OBVIOUS
<1>2. ASSUME NEW k \in S \intersect Nat
      PROVE  k + 1 \in S
  <2> SUFFICES ASSUME NEW m \in 1..N, m > N - (k + 1)
               PROVE  m \in T
    OBVIOUS
  <2>1. \A x \in 1..N : x > m => x > N - k
    OBVIOUS
  <2>2. \A x \in 1..N : x > m => x \in T
    BY <2>1
  <2>3. QED
    BY <2>2
<1> HIDE DEF S
<1>3. N \in S
  BY <1>1, <1>2, SetInduction
<1>4. QED
  BY <1>3 DEF S

\* What a node says is a value, and the list from it on is one of its sort.
SortOf(node) == IF node.string THEN "Object" ELSE "Array"
NodeSaid(h, tx, from, to, until, m) ==
    /\ from[m] < to[m]
    /\ Says("Value", tx, ValueAt(h, from, m), to[m])
    /\ m # Root => to[m] <= until[m] /\ Says(SortOf(h[m]), tx, from[m], until[m])

\* The value of a node.
LEMMA OwnSaid ==
    ASSUME NEW h, NEW tx, NEW from, NEW to, NEW until, AllWritten(h, tx, from, to, until),
           Len(tx) <= MaxText, NEW m \in 1..Len(h),
           NEW c, c = h[m].child,
           c # NULL /\ h[m].type \in {"Array", "Object"} => Says(h[m].type, tx, from[c], until[c])
    PROVE  /\ Says("Value", tx, ValueAt(h, from, m), to[m])
           /\ ValueAt(h, from, m) \in Nat /\ from[m] <= ValueAt(h, from, m) /\ ValueAt(h, from, m) < to[m]
<1> DEFINE v == ValueAt(h, from, m)
           b == to[m]
           k == h[m].type
<1>1. /\ tx \in Seq(Tok) /\ Len(tx) \in Nat /\ from[m] \in Nat /\ b \in 0..Len(tx)
      /\ Written(h, tx, from, to, until, m)
  BY DEF AllWritten
<1>2. v \in Nat /\ from[m] <= v
  BY <1>1 DEF ValueAt
<1>3. /\ v < b /\ k \in {"Value", "String", "Array", "Object"}
      /\ Scalars(h, tx, v, to, m) /\ Brackets(h, tx, v, from, to, until, m)
  BY <1>1 DEF Written
<1> HIDE DEF v
<1>4. b \in v..Len(tx) /\ b \in Nat
  BY <1>1, <1>2, <1>3
<1>5. CASE k \in {"Value", "String"}
  <2>1. b = v + 1 /\ tx[v + 1] \in {"v", "s"}
    BY <1>3, <1>5 DEF Scalars
  <2>2. QED
    BY <1>1, <1>2, <1>3, <1>4, <2>1, ValueSaid DEF v
<1>6. CASE k \in {"Array", "Object"}
  <2>1. /\ tx[v + 1] = Opener(k) /\ tx[b] = Close[k] /\ v + 2 <= b
        /\ c = NULL => b = v + 2
        /\ c # NULL => from[c] = v + 1 /\ until[c] = b - 1
    BY <1>3, <1>6 DEF Brackets, IsList
  <2>2. CASE c = NULL
    <3>1. b - 1 = v + 1 /\ v + 1 \in Nat /\ v + 1 \in (v + 1)..Len(tx)
      BY <1>1, <1>2, <1>4, <2>1, <2>2
    <3>2. Says(k, tx, v + 1, v + 1)
      BY <1>1, <1>6, <3>1, ListSaid
    <3>3. QED
      BY <1>1, <1>2, <1>3, <1>4, <1>6, <2>1, <3>1, <3>2, ValueSaid DEF v, Wrapped
  <2>3. CASE c # NULL
    <3>1. Says(k, tx, v + 1, b - 1)
      BY <1>6, <2>1, <2>3
    <3>2. QED
      BY <1>1, <1>2, <1>3, <1>4, <1>6, <2>1, <3>1, ValueSaid DEF v, Wrapped
  <2>4. QED
    BY <2>2, <2>3
<1>7. QED
  BY <1>3, <1>5, <1>6

\* The list from a node on.
LEMMA RestSaid ==
    ASSUME NEW h, NEW tx, NEW from, NEW to, NEW until, AllWritten(h, tx, from, to, until),
           Len(tx) <= MaxText, NEW m \in 1..Len(h), m # Root,
           Says("Value", tx, ValueAt(h, from, m), to[m]), ValueAt(h, from, m) < to[m],
           NEW n, n = h[m].next,
           n # NULL => /\ n \in 1..Len(h) /\ Says(SortOf(h[m]), tx, from[n], until[n])
                       /\ from[n] < to[n] /\ to[n] <= until[n]
    PROVE  to[m] <= until[m] /\ Says(SortOf(h[m]), tx, from[m], until[m])
<1> DEFINE v == ValueAt(h, from, m)
           a == from[m]
           b == to[m]
           u == until[m]
           k == SortOf(h[m])
<1>1. /\ tx \in Seq(Tok) /\ Len(tx) \in Nat /\ a \in Nat /\ b \in 0..Len(tx) /\ u \in 0..Len(tx)
      /\ Labelled(h, tx, from, m) /\ Linked(h, tx, from, to, until, m)
      /\ n = NULL => u = b
  BY DEF AllWritten, Written
<1>2. k \in {"Array", "Object"} /\ (h[m].string <=> k = "Object") /\ (h[m].string <=> k # "Array")
  BY DEF SortOf
<1>3. ItemSaid(k, tx, a, b) /\ a < b
  <2>1. CASE h[m].string
    <3>1. v = a + 2 /\ tx[a + 1] = "s" /\ tx[a + 2] = ":" /\ v < b
      BY <1>1, <2>1 DEF Labelled, ValueAt
    <3>2. a + 2 <= b /\ a < b
      BY <1>1, <3>1
    <3>3. Says("Value", tx, a + 2, b)
      BY <3>1
    <3> HIDE DEF a, b, k, v
    <3>4. QED
      BY <1>2, <2>1, <3>1, <3>2, <3>3 DEF ItemSaid
  <2>2. CASE ~h[m].string
    <3>1. v = a /\ v < b /\ Says("Value", tx, v, b)
      BY <2>2 DEF ValueAt
    <3> HIDE DEF a, b, k, v
    <3>2. QED
      BY <1>2, <2>2, <3>1 DEF ItemSaid
  <2>3. QED
    BY <2>1, <2>2
<1>4. CASE n = NULL
  <2>1. u = b /\ b \in a..Len(tx)
    BY <1>1, <1>3, <1>4
  <2> HIDE DEF a, b, u, k
  <2>2. Says(k, tx, a, b)
    BY <1>1, <1>2, <1>3, <2>1, ListSaid
  <2>3. QED
    BY <1>1, <2>1, <2>2 DEF a, b, u, k
<1>5. CASE n # NULL
  <2> DEFINE p == from[n]
             q == to[n]
  <2>1. tx[b + 1] = "," /\ p = b + 1 /\ until[n] = u
    BY <1>1, <1>5 DEF Linked
  <2>2. Says(k, tx, b + 1, u)
    BY <1>5, <2>1
  <2>3. b \in (a + 1)..(u - 2) /\ u \in a..Len(tx) /\ b <= u
    <3>1. p \in 0..Len(tx) /\ q \in 0..Len(tx) /\ p < q /\ q <= u /\ p = b + 1
      BY <1>5, <2>1 DEF AllWritten
    <3>2. a \in Nat /\ b \in Nat /\ u \in Nat /\ a < b /\ Len(tx) \in Nat /\ u <= Len(tx)
      BY <1>1, <1>3
    <3> HIDE DEF a, b, u, k, p, q
    <3>3. QED
      BY <3>1, <3>2
  <2> HIDE DEF a, b, u, k, p, q
  <2>4. FirstOfMore(k, tx, a, b, u)
    BY <1>3, <2>1, <2>2 DEF FirstOfMore
  <2>5. Says(k, tx, a, u)
    BY <1>1, <1>2, <2>3, <2>4, ListSaid
  <2>6. QED
    BY <2>3, <2>5 DEF a, b, u, k
<1>6. QED
  BY <1>4, <1>5

\* The members of an object have names, the items of an array have none.
LEMMA SortsAlike ==
    ASSUME pc = "accepted", NEW h, NamedAlike(pc, h), NEW m \in 1..Len(h),
           h[m].child = NULL \/ h[m].child \in 1..Len(h), h[m].next = NULL \/ h[m].next \in 1..Len(h)
    PROVE  /\ h[m].child # NULL /\ h[m].type \in {"Array", "Object"} => SortOf(h[h[m].child]) = h[m].type
           /\ h[m].next # NULL => SortOf(h[h[m].next]) = SortOf(h[m])
<1>1. \A x : Named(pc, h, x) <=> h[x].string
  BY DEF Named
<1>2. /\ h[m].child # NULL => (h[h[m].child].string <=> h[m].type = "Object")
      /\ h[m].next # NULL => (h[h[m].next].string <=> h[m].string)
  BY <1>1 DEF NamedAlike, Member
<1>3. QED
  BY <1>2 DEF SortOf

\* A text that is accepted is a value.
LEMMA TreeSaid ==
    ASSUME pc = "accepted", NEW h, NamedAlike(pc, h),
           NEW tx, NEW from, NEW to, NEW until, AllWritten(h, tx, from, to, until), Len(tx) <= MaxText
    PROVE  \A m \in 1..Len(h) : NodeSaid(h, tx, from, to, until, m)
<1> DEFINE N == Len(h)
           T == {m \in 1..N : NodeSaid(h, tx, from, to, until, m)}
<1>1. N \in Nat /\ Upward(h)
  BY DEF AllWritten
<1>2. ASSUME NEW m \in 1..N, \A x \in 1..N : x > m => x \in T
      PROVE  m \in T
  <2> DEFINE c == h[m].child
             n == h[m].next
  <2>1. /\ c # NULL => c \in 1..N /\ c # Root /\ c \in T
        /\ n # NULL => n \in 1..N /\ n # Root /\ n \in T
    <3>1. /\ c # NULL => c \in (m + 1)..N
          /\ n # NULL => n \in (m + 1)..N
      BY <1>1 DEF Upward
    <3>2. \A x \in (m + 1)..N : x \in 1..N /\ x > m /\ x # Root
      BY <1>1 DEF Root
    <3> HIDE DEF c, n, T
    <3>3. QED
      BY <1>2, <3>1, <3>2
  <2>2. c = h[m].child /\ n = h[m].next
    OBVIOUS
  <2> HIDE DEF c, n
  <2>3. /\ c # NULL => NodeSaid(h, tx, from, to, until, c)
        /\ n # NULL => NodeSaid(h, tx, from, to, until, n)
    BY <2>1
  <2>4. /\ c # NULL /\ h[m].type \in {"Array", "Object"} => SortOf(h[c]) = h[m].type
        /\ n # NULL => SortOf(h[n]) = SortOf(h[m])
    BY <2>1, <2>2, SortsAlike
  <2>5. c # NULL /\ h[m].type \in {"Array", "Object"} => Says(h[m].type, tx, from[c], until[c])
    BY <2>1, <2>3, <2>4 DEF NodeSaid
  <2>6. /\ Says("Value", tx, ValueAt(h, from, m), to[m])
        /\ ValueAt(h, from, m) \in Nat /\ from[m] <= ValueAt(h, from, m) /\ ValueAt(h, from, m) < to[m]
    BY <2>2, <2>5, OwnSaid
  <2>7. from[m] < to[m]
    <3> DEFINE v == ValueAt(h, from, m)
               a == from[m]
               b == to[m]
    <3>1. v \in Nat /\ a <= v /\ v < b
      BY <2>6
    <3>2. a \in 0..Len(tx) /\ b \in 0..Len(tx) /\ Len(tx) \in Nat
      BY DEF AllWritten
    <3> HIDE DEF v, a, b
    <3>3. a < b
      BY <3>1, <3>2
    <3>4. QED
      BY <3>3 DEF a, b
  <2>8. n # NULL => /\ n \in 1..N /\ Says(SortOf(h[m]), tx, from[n], until[n])
                    /\ from[n] < to[n] /\ to[n] <= until[n]
    BY <2>1, <2>3, <2>4 DEF NodeSaid
  <2>9. m # Root => to[m] <= until[m] /\ Says(SortOf(h[m]), tx, from[m], until[m])
    BY <2>2, <2>6, <2>8, RestSaid
  <2>10. QED
    BY <2>6, <2>7, <2>9 DEF NodeSaid
<1> HIDE DEF T
<1>3. \A m \in 1..N : m \in T
  BY <1>1, <1>2, FromTheYoungest
<1>4. QED
  BY <1>3 DEF T

-----------------------------------------------------------------------------
(* What the tree says *)

\* What an item and all behind it stand for, when f says what those below and
\* behind stand for.
NameText(node) == IF node.string THEN <<"s", ":">> ELSE <<>>
OwnText(node, inner) ==
    CASE node.type = "Value" -> <<"v">>
      [] node.type = "String" -> <<"s">>
      [] node.type = "Array" -> <<"[">> \o inner \o <<"]">>
      [] node.type = "Object" -> <<"{">> \o inner \o <<"}">>
MoreText(node, more) == IF node.next = NULL THEN <<>> ELSE <<",">> \o more
NodeText(h, f, m) ==
    IF m = NULL THEN <<>>
    ELSE NameText(h[m]) \o OwnText(h[m], f[h[m].child]) \o MoreText(h[m], f[h[m].next])

\* If the recursion has a solution, Printed is one.
LEMMA PrintedIs ==
    ASSUME NEW g, g = [m \in 0..Len(heap) |-> NodeText(heap, g, m)]
    PROVE  \E f : f = [m \in 0..Len(heap) |-> NodeText(heap, f, m)] /\ Printed(Root) = f[Root]
<1> DEFINE Follows(f) == f = [m \in 0..Len(heap) |-> NodeText(heap, f, m)]
           said == CHOOSE f : Follows(f)
<1>1. Follows(said)
  OBVIOUS
<1>2. Printed(Root) = said[Root]
  BY DEF Printed, NodeText, NameText, OwnText, MoreText
<1> HIDE DEF said
<1>3. QED
  BY <1>1, <1>2

\* A solution, on which nothing depends but what is younger, is the only one.
LEMMA PrintedOnce ==
    ASSUME NEW h, Upward(h),
           NEW f, f = [m \in 0..Len(h) |-> NodeText(h, f, m)],
           NEW g, g = [m \in 0..Len(h) |-> NodeText(h, g, m)]
    PROVE  \A m \in 1..Len(h) : f[m] = g[m]
<1> DEFINE N == Len(h)
           T == {m \in 1..N : f[m] = g[m]}
<1>1. N \in Nat
  BY DEF Upward
<1>2. f[NULL] = g[NULL]
  <2>1. NULL \in 0..N
    BY <1>1 DEF NULL
  <2>2. f[NULL] = NodeText(h, f, NULL) /\ g[NULL] = NodeText(h, g, NULL)
    BY <2>1
  <2>3. QED
    BY <2>2 DEF NodeText
<1>3. \A m \in 1..N : f[m] = NodeText(h, f, m) /\ g[m] = NodeText(h, g, m)
  <2>1. \A m \in 1..N : m \in 0..N
    BY <1>1
  <2>2. QED
    BY <2>1
<1>4. ASSUME NEW m \in 1..N, \A x \in 1..N : x > m => x \in T
      PROVE  m \in T
  <2> DEFINE c == h[m].child
             n == h[m].next
  <2>1. (c = NULL \/ c \in (m + 1)..N) /\ (n = NULL \/ n \in (m + 1)..N)
    BY DEF Upward
  <2>2. \A x \in (m + 1)..N : x \in 1..N /\ x > m
    BY <1>1
  <2> HIDE DEF T, c, n
  <2>3. f[c] = g[c] /\ f[n] = g[n]
    <3>1. (c = NULL \/ c \in T) /\ (n = NULL \/ n \in T)
      BY <1>4, <2>1, <2>2
    <3>2. QED
      BY <1>2, <3>1 DEF T
  <2>4. NodeText(h, f, m) = NodeText(h, g, m)
    BY <2>3, Zenon DEF NodeText, c, n
  <2>5. f[m] = g[m]
    BY <1>3, <2>4
  <2>6. QED
    BY <2>5 DEF T
<1> HIDE DEF T
<1>5. \A m \in 1..N : m \in T
  BY <1>1, <1>4, FromTheYoungest
<1>6. QED
  BY <1>5 DEF T

\* No part, and the whole.
LEMMA PartNone ==
    ASSUME NEW v \in Seq(Tok), NEW a \in 0..Len(v)
    PROVE  Part(v, a, a) = <<>>
<1> DEFINE s == Part(v, a, a)
<1>1. a \in Nat /\ a \in a..Len(v) /\ a - a = 0
  OBVIOUS
<1>2. s \in Seq(Tok) /\ Len(s) = a - a
  BY <1>1, PartIs
<1> HIDE DEF s
<1>3. s \in Seq(Tok) /\ Len(s) = 0
  BY <1>1, <1>2
<1>4. s = <<>>
  BY <1>3
<1>5. QED
  BY <1>4 DEF s
\* All of it.
LEMMA PartAll ==
    ASSUME NEW v \in Seq(Tok)
    PROVE  Part(v, 0, Len(v)) = v
<1>1. Len(v) \in 0..Len(v) /\ 0 \in Nat /\ Len(v) - 0 = Len(v) /\ Len(v) \in Nat
  OBVIOUS
<1>2. /\ Part(v, 0, Len(v)) \in Seq(Tok) /\ Len(Part(v, 0, Len(v))) = Len(v)
      /\ \A i \in 1..Len(v) : Part(v, 0, Len(v))[i] = v[0 + i]
  BY <1>1, PartIs
<1>3. \A i \in 1..Len(v) : Part(v, 0, Len(v))[i] = v[i]
  BY <1>2
<1>4. QED
  BY <1>1, <1>2, <1>3, SameSeq

\* The stretch of the text that a node and all behind it stand for.
End(from, to, until, m) == IF m = Root THEN to[m] ELSE until[m]
StretchOf(tx, from, to, until, m) ==
    IF m = NULL THEN <<>> ELSE Part(tx, from[m], End(from, to, until, m))

\* The name of an item.
LEMMA NamePart ==
    ASSUME NEW h, NEW tx, NEW from, NEW to, NEW until, AllWritten(h, tx, from, to, until),
           NEW m \in 1..Len(h)
    PROVE  NameText(h[m]) = Part(tx, from[m], ValueAt(h, from, m))
<1> DEFINE v == ValueAt(h, from, m)
           a == from[m]
           b == to[m]
<1>1. /\ tx \in Seq(Tok) /\ Len(tx) \in Nat /\ a \in 0..Len(tx) /\ b \in 0..Len(tx)
      /\ Labelled(h, tx, from, m) /\ v < b
  BY DEF AllWritten, Written
<1>2. CASE h[m].string
  <2>1. v = a + 2 /\ tx[a + 1] = "s" /\ tx[a + 2] = ":"
    BY <1>1, <1>2 DEF Labelled, ValueAt
  <2>2. NameText(h[m]) = <<"s", ":">>
    BY <1>2 DEF NameText
  <2>3. "s" \in Tok /\ ":" \in Tok
    BY DEF Tok
  <2> HIDE DEF a, b, v
  <2>4. a \in Nat /\ a + 2 <= Len(tx)
    BY <1>1, <2>1
  <2>5. Part(tx, a, a + 2) = <<"s", ":">>
    BY <1>1, <2>1, <2>3, <2>4, PartTwo
  <2>6. QED
    BY <2>1, <2>2, <2>5 DEF a, v
<1>3. CASE ~h[m].string
  <2>1. v = a
    BY <1>3 DEF ValueAt
  <2>2. NameText(h[m]) = <<>>
    BY <1>3 DEF NameText
  <2> HIDE DEF a, b, v
  <2>3. Part(tx, a, a) = <<>>
    BY <1>1, PartNone
  <2>4. QED
    BY <2>1, <2>2, <2>3 DEF a, v
<1>4. QED
  BY <1>2, <1>3

\* Its value.
LEMMA OwnPart ==
    ASSUME NEW h, NEW tx, NEW from, NEW to, NEW until, AllWritten(h, tx, from, to, until),
           NEW m \in 1..Len(h), NEW v \in Nat, v = ValueAt(h, from, m),
           NEW c, c = h[m].child, c # Root
    PROVE  OwnText(h[m], StretchOf(tx, from, to, until, c)) = Part(tx, v, to[m])
<1> DEFINE b == to[m]
           k == h[m].type
           inner == StretchOf(tx, from, to, until, c)
<1>1. /\ tx \in Seq(Tok) /\ Len(tx) \in Nat /\ b \in 0..Len(tx)
      /\ v < b /\ k \in {"Value", "String", "Array", "Object"}
      /\ Scalars(h, tx, v, to, m) /\ Brackets(h, tx, v, from, to, until, m)
  BY DEF AllWritten, Written
<1>2. "v" \in Tok /\ "s" \in Tok /\ "[" \in Tok /\ "]" \in Tok /\ "{" \in Tok /\ "}" \in Tok
  BY DEF Tok
<1>3. ASSUME k \in {"Value", "String"}
      PROVE  OwnText(h[m], inner) = Part(tx, v, b)
  <2>1. /\ b = v + 1 /\ v + 1 <= Len(tx)
        /\ k = "Value" => tx[v + 1] = "v"
        /\ k = "String" => tx[v + 1] = "s"
    BY <1>1, <1>3 DEF Scalars
  <2>2. /\ k = "Value" => OwnText(h[m], inner) = <<"v">>
        /\ k = "String" => OwnText(h[m], inner) = <<"s">>
    BY DEF OwnText
  <2>3. /\ Part(tx, v, v + 1) = <<"v">> <=> tx[v + 1] = "v"
        /\ Part(tx, v, v + 1) = <<"s">> <=> tx[v + 1] = "s"
    BY <1>1, <1>2, <2>1, PartOne
  <2> HIDE DEF k, b, inner
  <2>4. QED
    BY <1>3, <2>1, <2>2, <2>3
<1>4. ASSUME k \in {"Array", "Object"}
      PROVE  OwnText(h[m], inner) = Part(tx, v, b)
  <2>1. /\ tx[v + 1] = Opener(k) /\ tx[b] = Close[k] /\ v + 2 <= b
        /\ c = NULL => b = v + 2
        /\ c # NULL => from[c] = v + 1 /\ until[c] = b - 1
    BY <1>1, <1>4 DEF Brackets, IsList
  <2>2. OwnText(h[m], inner) = <<Opener(k)>> \o inner \o <<Close[k]>>
    <3>1. Close["Array"] = "]" /\ Close["Object"] = "}"
      BY DEF Close
    <3>2. /\ k = "Array" => OwnText(h[m], inner) = <<"[">> \o inner \o <<"]">>
          /\ k = "Object" => OwnText(h[m], inner) = <<"{">> \o inner \o <<"}">>
      BY Zenon DEF OwnText
    <3> HIDE DEF inner
    <3>3. CASE k = "Array"
      BY <3>1, <3>2, <3>3 DEF Opener
    <3>4. CASE k = "Object"
      BY <3>1, <3>2, <3>4 DEF Opener
    <3>5. QED
      BY <1>4, <3>3, <3>4
  <2>3. inner = Part(tx, v + 1, b - 1)
    <3>1. CASE c = NULL
      <4>1. inner = <<>>
        BY <3>1 DEF StretchOf
      <4>2. b - 1 = v + 1 /\ v + 1 \in 0..Len(tx)
        BY <1>1, <2>1, <3>1
      <4> HIDE DEF inner, b
      <4>3. QED
        BY <1>1, <4>1, <4>2, PartNone
    <3>2. CASE c # NULL
      BY <2>1, <3>2 DEF StretchOf, End
    <3>3. QED
      BY <3>1, <3>2
  <2> HIDE DEF k, b, inner
  <2>4. /\ v + 1 \in v..Len(tx) /\ v + 1 \in Nat /\ b \in (v + 1)..Len(tx) /\ b - 1 \in (v + 1)..Len(tx)
        /\ b \in (b - 1)..Len(tx) /\ v + 1 <= Len(tx) /\ b - 1 \in v..Len(tx)
        /\ b - 1 \in Nat /\ (b - 1) + 1 = b /\ (b - 1) + 1 <= Len(tx)
    BY <1>1, <2>1
  <2>5. Part(tx, v, v + 1) = <<Opener(k)>> /\ Part(tx, b - 1, b) = <<Close[k]>>
    <3>1. Opener(k) \in Tok /\ Close[k] \in Tok
      BY <1>4, BracketsAre
    <3>2. Part(tx, v, v + 1) = <<Opener(k)>>
      BY <1>1, <2>1, <2>4, <3>1, PartOne
    <3>3. Part(tx, b - 1, (b - 1) + 1) = <<Close[k]>> <=> tx[(b - 1) + 1] = Close[k]
      BY <1>1, <2>4, <3>1, PartOne
    <3>4. QED
      BY <2>1, <2>4, <3>2, <3>3
  <2>6. Part(tx, v, b) = Part(tx, v, b - 1) \o Part(tx, b - 1, b)
    BY <1>1, <2>4, PartJoined
  <2>7. Part(tx, v, b - 1) = Part(tx, v, v + 1) \o Part(tx, v + 1, b - 1)
    BY <1>1, <2>4, PartJoined
  <2>8. QED
    BY <2>2, <2>3, <2>5, <2>6, <2>7
<1>5. QED
  BY <1>1, <1>3, <1>4

\* What follows it.
LEMMA MorePart ==
    ASSUME NEW h, NEW tx, NEW from, NEW to, NEW until, AllWritten(h, tx, from, to, until),
           NEW m \in 1..Len(h), NEW n, n = h[m].next, n = NULL \/ n \in 1..Len(h), n # Root,
           n # NULL => from[n] < to[n] /\ to[n] <= until[n]
    PROVE  /\ MoreText(h[m], StretchOf(tx, from, to, until, n)) = Part(tx, to[m], End(from, to, until, m))
           /\ End(from, to, until, m) \in to[m]..Len(tx)
<1> DEFINE b == to[m]
           u == End(from, to, until, m)
           more == StretchOf(tx, from, to, until, n)
<1>0. tx \in Seq(Tok) /\ Len(tx) \in Nat /\ b \in 0..Len(tx) /\ u \in 0..Len(tx)
  BY DEF AllWritten, End
<1>1. /\ n # NULL => m # Root /\ u = until[m]
      /\ n = NULL => u = b
      /\ n # NULL => tx[b + 1] = "," /\ from[n] = b + 1 /\ until[n] = until[m]
  BY DEF AllWritten, End, Linked
<1>2. CASE n = NULL
  <2>1. MoreText(h[m], more) = <<>> /\ u = b
    BY <1>1, <1>2 DEF MoreText
  <2> HIDE DEF b, u, more
  <2>2. Part(tx, b, b) = <<>> /\ b \in b..Len(tx)
    BY <1>0, PartNone
  <2>3. QED
    BY <2>1, <2>2 DEF b, u, more
<1>3. CASE n # NULL
  <2>1. MoreText(h[m], more) = <<",">> \o more
    BY <1>3, Zenon DEF MoreText
  <2>2. more = Part(tx, b + 1, u) /\ tx[b + 1] = ","
    BY <1>1, <1>3 DEF StretchOf, End
  <2>3. b + 1 <= u
    <3> DEFINE p == from[n]
               q == to[n]
    <3>1. p \in 0..Len(tx) /\ q \in 0..Len(tx) /\ p < q /\ q <= u /\ p = b + 1
      BY <1>1, <1>3 DEF AllWritten
    <3> HIDE DEF p, q, b, u
    <3>2. QED
      BY <1>0, <3>1
  <2> HIDE DEF b, u, more
  <2>4. /\ b \in Nat /\ b + 1 <= Len(tx) /\ b + 1 \in b..Len(tx) /\ u \in (b + 1)..Len(tx)
        /\ u \in b..Len(tx)
    BY <1>0, <2>3
  <2>5. Part(tx, b, b + 1) = <<",">>
    <3>1. "," \in Tok
      BY DEF Tok
    <3>2. QED
      BY <1>0, <2>2, <2>4, <3>1, PartOne
  <2>6. Part(tx, b, u) = Part(tx, b, b + 1) \o Part(tx, b + 1, u)
    BY <1>0, <2>4, PartJoined
  <2>7. QED
    BY <2>1, <2>2, <2>4, <2>5, <2>6 DEF b, u, more
<1>4. QED
  BY <1>2, <1>3

\* The stretches solve the recursion.
LEMMA StretchSolves ==
    ASSUME NEW h, NEW tx, NEW from, NEW to, NEW until, AllWritten(h, tx, from, to, until),
           \A m \in 1..Len(h) : NodeSaid(h, tx, from, to, until, m),
           NEW g, g = [m \in 0..Len(h) |-> StretchOf(tx, from, to, until, m)]
    PROVE  g = [m \in 0..Len(h) |-> NodeText(h, g, m)]
<1> DEFINE N == Len(h)
<1>1. N \in Nat /\ Upward(h)
  BY DEF AllWritten
<1>2. ASSUME NEW m \in 1..N
      PROVE  StretchOf(tx, from, to, until, m) = NodeText(h, g, m)
  <2> DEFINE c == h[m].child
             n == h[m].next
             v == ValueAt(h, from, m)
             a == from[m]
             b == to[m]
             u == End(from, to, until, m)
  <2>1. (c = NULL \/ c \in (m + 1)..N) /\ (n = NULL \/ n \in (m + 1)..N)
    BY <1>1 DEF Upward
  <2>2. \A x \in (m + 1)..N : x \in 1..N /\ x \in 0..N /\ x # Root
    BY <1>1 DEF Root
  <2>3. NULL \in 0..N /\ NULL # Root /\ m # NULL
    BY <1>1 DEF NULL, Root
  <2>4. c = h[m].child /\ n = h[m].next
    OBVIOUS
  <2> HIDE DEF c, n
  <2>5. /\ c \in 0..N /\ c # Root /\ n \in 0..N /\ n # Root
        /\ n = NULL \/ n \in 1..N
    BY <2>1, <2>2, <2>3
  <2>6. n # NULL => from[n] < to[n] /\ to[n] <= until[n]
    BY <2>5 DEF NodeSaid
  <2>7. /\ tx \in Seq(Tok) /\ Len(tx) \in Nat /\ a \in 0..Len(tx) /\ b \in 0..Len(tx)
        /\ v < b
    BY DEF AllWritten, Written
  <2>8. v \in Nat /\ a <= v
    <3>1. a \in Nat
      BY <2>7
    <3>2. QED
      BY <3>1 DEF ValueAt
  <2>9. g[c] = StretchOf(tx, from, to, until, c) /\ g[n] = StretchOf(tx, from, to, until, n)
    BY <2>5
  <2>10. NameText(h[m]) = Part(tx, a, v)
    BY NamePart
  <2>11. OwnText(h[m], g[c]) = Part(tx, v, b)
    BY <2>4, <2>5, <2>8, <2>9, OwnPart
  <2>12. MoreText(h[m], g[n]) = Part(tx, b, u) /\ u \in b..Len(tx)
    BY <2>4, <2>5, <2>6, <2>9, MorePart
  <2>13. StretchOf(tx, from, to, until, m) = Part(tx, a, u)
    BY <2>3 DEF StretchOf
  <2>14. NodeText(h, g, m) = NameText(h[m]) \o OwnText(h[m], g[c]) \o MoreText(h[m], g[n])
    BY <2>3, <2>4, Zenon DEF NodeText
  <2> HIDE DEF a, b, u, v
  <2>15. a \in Nat /\ b \in a..Len(tx) /\ v \in a..Len(tx) /\ b \in v..Len(tx) /\ u \in b..Len(tx)
    BY <2>7, <2>8, <2>12
  <2>16. Part(tx, a, u) = Part(tx, a, b) \o Part(tx, b, u)
    BY <2>7, <2>15, PartJoined
  <2>17. Part(tx, a, b) = Part(tx, a, v) \o Part(tx, v, b)
    BY <2>7, <2>15, PartJoined
  <2>18. QED
    BY <2>10, <2>11, <2>12, <2>13, <2>14, <2>16, <2>17, Zenon
<1>3. StretchOf(tx, from, to, until, 0) = NodeText(h, g, 0)
  BY DEF StretchOf, NodeText, NULL
<1>4. \A m \in 0..N : m = 0 \/ m \in 1..N
  BY <1>1
<1>5. \A m \in 0..N : StretchOf(tx, from, to, until, m) = NodeText(h, g, m)
  BY <1>2, <1>3, <1>4
<1>6. QED
  BY <1>5, Zenon

\* A text that is accepted is a value, and the tree says it.
LEMMA AcceptedSays ==
    ASSUME ParseInv, SpellInv, NameInv, LenInv, pc = "accepted"
    PROVE  text \in Values /\ Printed(Root) = text
<1>1. /\ \E from, to, until : AllWritten(heap, text, from, to, until)
      /\ NamedAlike(pc, heap) /\ Len(text) <= MaxText
  BY AcceptedTree
<1>2. PICK from, to, until : AllWritten(heap, text, from, to, until)
  BY <1>1
<1>3. \A m \in 1..Len(heap) : NodeSaid(heap, text, from, to, until, m)
  BY <1>1, <1>2, TreeSaid
<1>4. /\ Upward(heap) /\ Len(heap) \in Nat /\ Root \in 1..Len(heap) /\ Root \in 0..Len(heap)
      /\ text \in Seq(Tok) /\ from[Root] = 0 /\ to[Root] = Len(text) /\ Len(text) \in Nat
  BY <1>2 DEF AllWritten
<1>5. ~heap[Root].string
  BY <1>1 DEF NamedAlike, Named
<1>6. Says("Value", text, 0, Len(text))
  <2>1. ValueAt(heap, from, Root) = 0
    BY <1>4, <1>5 DEF ValueAt
  <2>2. QED
    BY <1>3, <1>4, <2>1 DEF NodeSaid
<1>7. text \in Values
  BY <1>1, <1>4, <1>6, ValuesSaid
<1> DEFINE g == [m \in 0..Len(heap) |-> StretchOf(text, from, to, until, m)]
<1>8. g[Root] = text
  <2>1. Root # NULL
    BY DEF Root, NULL
  <2>2. g[Root] = Part(text, 0, Len(text))
    BY <1>4, <2>1 DEF StretchOf, End
  <2>3. Part(text, 0, Len(text)) = text
    BY <1>4, PartAll
  <2>4. QED
    BY <2>2, <2>3
<1>9. g = [m \in 0..Len(heap) |-> NodeText(heap, g, m)]
  <2> DEFINE k == g
  <2>1. k = [m \in 0..Len(heap) |-> StretchOf(text, from, to, until, m)]
    OBVIOUS
  <2> HIDE DEF k
  <2>2. k = [m \in 0..Len(heap) |-> NodeText(heap, k, m)]
    BY <1>2, <1>3, <2>1, StretchSolves
  <2>3. QED
    BY <2>2 DEF k
<1> HIDE DEF g
<1>10. PICK f : f = [m \in 0..Len(heap) |-> NodeText(heap, f, m)] /\ Printed(Root) = f[Root]
  BY <1>9, PrintedIs
<1>11. f[Root] = g[Root]
  BY <1>4, <1>9, <1>10, PrintedOnce
<1>12. QED
  BY <1>7, <1>8, <1>10, <1>11

-----------------------------------------------------------------------------
(* What may still follow *)

\* The first token of a value, and of an item.
LEMMA FirstOfValue ==
    ASSUME NEW v \in Seq(Tok), Len(v) <= MaxText, NEW a \in Nat, NEW b \in a..Len(v),
           Says("Value", v, a, b)
    PROVE  /\ v[a + 1] \in {"v", "s"} => b = a + 1
           /\ \A k \in {"Array", "Object"} : v[a + 1] = Opener(k) => Wrapped(k, v, a, b)
           /\ v[a + 1] \in {"v", "s", "[", "{"}
           /\ a < b
<1>1. \/ b = a + 1 /\ v[a + 1] \in {"v", "s"}
      \/ Wrapped("Array", v, a, b)
      \/ Wrapped("Object", v, a, b)
  BY ValueSaid
<1>2. Opener("Array") = "[" /\ Opener("Object") = "{"
  BY DEF Opener
<1>0. (b = a + 1 => a < b) /\ (a + 2 <= b => a < b)
  OBVIOUS
<1>3. CASE b = a + 1 /\ v[a + 1] \in {"v", "s"}
  <2>1. a < b
    BY <1>0, <1>3
  <2>2. QED
    BY <1>2, <1>3, <2>1
<1>4. CASE Wrapped("Array", v, a, b)
  <2>1. v[a + 1] = "[" /\ a + 2 <= b
    BY <1>2, <1>4 DEF Wrapped
  <2>2. a < b
    BY <1>0, <2>1
  <2>3. QED
    BY <1>2, <1>4, <2>1, <2>2
<1>5. CASE Wrapped("Object", v, a, b)
  <2>1. v[a + 1] = "{" /\ a + 2 <= b
    BY <1>2, <1>5 DEF Wrapped
  <2>2. a < b
    BY <1>0, <2>1
  <2>3. QED
    BY <1>2, <1>5, <2>1, <2>2
<1>6. QED
  BY <1>1, <1>3, <1>4, <1>5

\* An item begins with a value or with its name.
LEMMA FirstOfItem ==
    ASSUME NEW v \in Seq(Tok), Len(v) <= MaxText, NEW a \in Nat, NEW b \in a..Len(v),
           NEW k \in {"Array", "Object"}, ItemSaid(k, v, a, b)
    PROVE  v[a + 1] \in {"v", "s", "[", "{"}
<1>1. CASE k = "Array"
  BY <1>1, FirstOfValue DEF ItemSaid
<1>2. CASE k # "Array"
  BY <1>2 DEF ItemSaid
<1>3. QED
  BY <1>1, <1>2

\* What follows a value: the end of the list around it, or a comma and more;
\* nothing, if there is no list.
Follows(k, v, a, b) ==
    a = b \/ (k # "Value" /\ a + 1 < b /\ v[a + 1] = "," /\ Says(k, v, a + 1, b))
ValueNext(k, v, p, e) == \E m \in p..e : Says("Value", v, p, m) /\ Follows(k, v, m, e)

\* An item and what follows it.
ItemNext(k, v, p, e) ==
    IF k = "Array" THEN ValueNext(k, v, p, e)
    ELSE p + 2 <= e /\ v[p + 1] = "s" /\ v[p + 2] = ":" /\ ValueNext(k, v, p + 2, e)

\* A list that is not empty begins with an item.
LEMMA ItemFirst ==
    ASSUME NEW v \in Seq(Tok), Len(v) <= MaxText, NEW p \in Nat, NEW e \in p..Len(v),
           NEW k \in {"Array", "Object"}, Says(k, v, p, e), p < e
    PROVE  ItemNext(k, v, p, e) /\ v[p + 1] \in {"v", "s", "[", "{"}
<1>0. k # "Value" /\ e \in Nat /\ e \in p..e /\ p # e
  OBVIOUS
<1>1. PICK m \in p..e : ItemSaid(k, v, p, m) /\ Follows(k, v, m, e)
  <2>1. CASE ItemSaid(k, v, p, e)
    BY <1>0, <2>1 DEF Follows
  <2>2. CASE \E m \in (p + 1)..(e - 2) : FirstOfMore(k, v, p, m, e)
    <3>1. PICK m \in (p + 1)..(e - 2) : FirstOfMore(k, v, p, m, e)
      BY <2>2
    <3>2. m \in p..e /\ m + 1 < e
      BY <1>0
    <3>3. ItemSaid(k, v, p, m) /\ Follows(k, v, m, e)
      BY <1>0, <3>1, <3>2 DEF Follows, FirstOfMore
    <3>4. QED
      BY <3>2, <3>3
  <2>3. QED
    BY <1>0, <2>1, <2>2, ListSaid
<1>2. m \in p..Len(v)
  BY <1>0
<1>3. v[p + 1] \in {"v", "s", "[", "{"}
  BY <1>1, <1>2, FirstOfItem
<1>4. CASE k = "Array"
  BY <1>1, <1>3, <1>4 DEF ItemSaid, ItemNext, ValueNext
<1>5. CASE k # "Array"
  <2>1. p + 2 <= m /\ v[p + 1] = "s" /\ v[p + 2] = ":" /\ Says("Value", v, p + 2, m)
    BY <1>1, <1>5 DEF ItemSaid
  <2>2. p + 2 <= e /\ m \in (p + 2)..e
    BY <1>0, <2>1
  <2>3. ValueNext(k, v, p + 2, e)
    BY <1>1, <2>1, <2>2 DEF ValueNext
  <2>4. QED
    BY <1>3, <1>5, <2>1, <2>2, <2>3 DEF ItemNext
<1>6. QED
  BY <1>4, <1>5

\* The lists that are open, outermost first, close at ends[1], ends[2] and so on
\* in the text v, which ends at ends[0].
KindOf(fr, i) == IF i = 0 THEN "Value" ELSE fr[i].kind
ClosedAt(fr, v, ends, i) ==
    /\ ends[i] + 1 <= ends[i - 1] /\ ends[i] <= Len(v)
    /\ v[ends[i] + 1] = Close[fr[i].kind]
    /\ Follows(KindOf(fr, i - 1), v, ends[i] + 1, ends[i - 1])
Enclosed(fr, v, ends) ==
    /\ ends \in [Nat -> Nat] /\ ends[0] = Len(v)
    /\ \A i \in 1..Len(fr) : ClosedAt(fr, v, ends, i)

\* What the parser still has to find up to the end e of a list of sort k, by where it is.
Expected(c, k, v, p, e) ==
    /\ p <= e
    /\ c = "value" => ValueNext(k, v, p, e)
    /\ c = "first" => Says(k, v, p, e)
    /\ c = "element" => p < e /\ Says(k, v, p, e)
    /\ c = "name" => p + 2 <= e /\ v[p + 1] = "s" /\ v[p + 2] = ":" /\ ValueNext(k, v, p + 2, e)
    /\ c = "colon" => p + 1 <= e /\ v[p + 1] = ":" /\ ValueNext(k, v, p + 1, e)
    /\ c = "after" => Follows(k, v, p, e)
    /\ c = "accepted" => p = e

\* The text v can be read on from the p-th token.
Fits(c, fr, v, p) ==
    \E ends : Enclosed(fr, v, ends) /\ Expected(c, KindOf(fr, Len(fr)), v, p, ends[Len(fr)])

\* Every value that begins with what has been looked at still fits.
RestInv ==
    /\ pc \in Reading => \A v \in Values : IsPrefix(text, v) => Fits(pc, frames, v, pos)
    /\ pc = "fail" /\ why = "syntax" => ~ \E v \in Values : IsPrefix(text, v)

\* Where the innermost open list closes.
LEMMA EndOf ==
    ASSUME NEW fr \in Seq(Frame), NEW v \in Seq(Tok), NEW ends, Enclosed(fr, v, ends)
    PROVE  /\ ends[Len(fr)] \in 0..Len(v) /\ ends[Len(fr)] \in Nat
           /\ fr = <<>> => KindOf(fr, Len(fr)) = "Value" /\ ends[Len(fr)] = Len(v)
           /\ fr # <<>> => /\ KindOf(fr, Len(fr)) = fr[Len(fr)].kind
                           /\ KindOf(fr, Len(fr)) \in {"Array", "Object"}
                           /\ v[ends[Len(fr)] + 1] = Close[fr[Len(fr)].kind]
<1>1. ends[Len(fr)] \in Nat /\ Len(v) \in Nat /\ Len(fr) \in Nat
  BY DEF Enclosed
<1>2. CASE fr = <<>>
  <2>1. Len(fr) = 0
    BY <1>2
  <2>2. QED
    BY <1>1, <1>2, <2>1 DEF Enclosed, KindOf
<1>3. CASE fr # <<>>
  <2>1. Len(fr) # 0 /\ Len(fr) \in 1..Len(fr)
    BY <1>3
  <2>2. ClosedAt(fr, v, ends, Len(fr)) /\ fr[Len(fr)] \in Frame
    BY <2>1 DEF Enclosed
  <2>3. fr[Len(fr)].kind \in {"Array", "Object"}
    BY <2>2 DEF Frame
  <2>4. ends[Len(fr)] <= Len(v) /\ v[ends[Len(fr)] + 1] = Close[fr[Len(fr)].kind]
    BY <2>2 DEF ClosedAt
  <2>5. QED
    BY <1>1, <1>3, <2>1, <2>3, <2>4 DEF KindOf
<1>4. QED
  BY <1>2, <1>3

\* A beginning of a text, token by token.
LEMMA PrefixIs ==
    ASSUME NEW s \in Seq(Tok), NEW v \in Seq(Tok)
    PROVE  IsPrefix(s, v) <=> Len(s) <= Len(v) /\ \A i \in 1..Len(s) : s[i] = v[i]
<1>1. CASE ~(Len(s) <= Len(v))
  BY <1>1 DEF IsPrefix
<1>2. CASE Len(s) <= Len(v)
  <2> DEFINE a == SubSeq(s, 1, Len(s))
             b == SubSeq(v, 1, Len(s))
  <2>1. /\ a \in Seq(Tok) /\ Len(a) = Len(s) /\ \A i \in 1..Len(s) : a[i] = s[i]
        /\ b \in Seq(Tok) /\ Len(b) = Len(s) /\ \A i \in 1..Len(s) : b[i] = v[i]
    BY <1>2
  <2>2. IsPrefix(s, v) <=> a = b
    BY <1>2 DEF IsPrefix
  <2> HIDE DEF a, b
  <2>3. a = b <=> \A i \in 1..Len(s) : a[i] = b[i]
    BY <2>1, SameSeq
  <2>4. QED
    BY <1>2, <2>1, <2>2, <2>3
<1>3. QED
  BY <1>1, <1>2

\* A text that goes on as one does after a look goes on as it did before, with
\* the token that was seen.
LEMMA PrefixRead ==
    ASSUME ParseInv, SpellInv, pc \in Reading, NEW t, Peek(t), NEW v \in Values, IsPrefix(text', v)
    PROVE  /\ IsPrefix(text, v) /\ v[pos + 1] = t /\ pos + 1 <= Len(v)
           /\ v \in Seq(Tok) /\ Len(v) <= MaxText /\ pos \in Nat /\ pos + 1 \in Nat
<1>1. v \in Seq(Tok) /\ Len(v) <= MaxText /\ Len(v) \in Nat
  BY ValuesSaid
<1>2. text \in Seq(Tok) /\ pos \in Nat /\ pos <= Len(text) /\ Len(text) <= pos + 1
  BY WhileSpelled
<1>3. OneToken(text, text', pos, t)
  BY TokenRead
<1>4. text' \in Seq(Tok) /\ Len(text') = pos + 1 /\ text'[pos + 1] = t /\ \A i \in 1..pos : text'[i] = text[i]
  BY <1>3 DEF OneToken
<1>5. pos + 1 <= Len(v) /\ \A i \in 1..(pos + 1) : text'[i] = v[i]
  BY <1>1, <1>4, PrefixIs
<1>6. v[pos + 1] = t
  BY <1>2, <1>4, <1>5
<1>7. \A i \in 1..Len(text) : text[i] = v[i]
  <2>1. CASE pos < Len(text)
    <3>1. text' = text
      BY <2>1 DEF Peek
    <3>2. QED
      BY <1>4, <1>5, <3>1
  <2>2. CASE ~(pos < Len(text))
    <3>1. Len(text) = pos
      BY <1>2, <2>2
    <3>2. QED
      BY <1>2, <1>4, <1>5, <3>1
  <2>3. QED
    BY <2>1, <2>2
<1>8. Len(text) <= Len(v)
  BY <1>1, <1>2, <1>5
<1>9. QED
  BY <1>1, <1>2, <1>5, <1>6, <1>7, <1>8, PrefixIs

\* What is known of a value that begins with what has been looked at.
LEMMA StillFits ==
    ASSUME ParseInv, SpellInv, RestInv, pc \in Reading, NEW v \in Values, IsPrefix(text, v)
    PROVE  /\ v \in Seq(Tok) /\ Len(v) <= MaxText /\ pos \in Nat /\ frames \in Seq(Frame)
           /\ \E ends : /\ Enclosed(frames, v, ends)
                        /\ Expected(pc, KindOf(frames, Len(frames)), v, pos, ends[Len(frames)])
                        /\ ends[Len(frames)] \in pos..Len(v) /\ ends[Len(frames)] \in Nat
           /\ frames # <<>> => Top = frames[Len(frames)]
<1>1. v \in Seq(Tok) /\ Len(v) <= MaxText
  BY ValuesSaid
<1>2. pos \in Nat /\ frames \in Seq(Frame) /\ (frames # <<>> => Top = frames[Len(frames)])
  BY WhileSpelled
<1>3. PICK ends : /\ Enclosed(frames, v, ends)
                  /\ Expected(pc, KindOf(frames, Len(frames)), v, pos, ends[Len(frames)])
  BY DEF RestInv, Fits
<1>4. pos <= ends[Len(frames)]
  BY <1>3 DEF Expected
<1>5. ends[Len(frames)] \in 0..Len(v) /\ ends[Len(frames)] \in Nat
  BY <1>1, <1>2, <1>3, EndOf
<1>6. ends[Len(frames)] \in pos..Len(v)
  BY <1>2, <1>4, <1>5
<1>7. QED
  BY <1>1, <1>2, <1>3, <1>5, <1>6

\* A step that reads on, or only looks, and leaves the lists as they are.
LEMMA FitsOn ==
    ASSUME ParseInv, SpellInv, RestInv, pc \in Reading, NEW t, Peek(t), frames' = frames, pc' # "fail",
           \A v, e, k :
               /\ v \in Seq(Tok) /\ Len(v) <= MaxText /\ e \in pos..Len(v) /\ pos + 1 <= Len(v)
               /\ Expected(pc, k, v, pos, e) /\ v[pos + 1] = t
               /\ frames = <<>> => k = "Value"
               /\ frames # <<>> => k = Top.kind /\ k \in {"Array", "Object"} /\ v[e + 1] = Close[k]
               => Expected(pc', k, v, pos', e)
    PROVE  RestInv'
<1> SUFFICES ASSUME NEW v \in Values, IsPrefix(text', v)
             PROVE  Fits(pc', frames, v, pos')
  BY DEF RestInv
<1>1. /\ IsPrefix(text, v) /\ v[pos + 1] = t /\ pos + 1 <= Len(v)
      /\ v \in Seq(Tok) /\ Len(v) <= MaxText
  BY PrefixRead
<1>2. /\ frames \in Seq(Frame) /\ (frames # <<>> => Top = frames[Len(frames)])
      /\ \E ends : /\ Enclosed(frames, v, ends)
                   /\ Expected(pc, KindOf(frames, Len(frames)), v, pos, ends[Len(frames)])
                   /\ ends[Len(frames)] \in pos..Len(v)
  BY <1>1, StillFits
<1>3. PICK ends : /\ Enclosed(frames, v, ends)
                  /\ Expected(pc, KindOf(frames, Len(frames)), v, pos, ends[Len(frames)])
                  /\ ends[Len(frames)] \in pos..Len(v)
  BY <1>2
<1> DEFINE k == KindOf(frames, Len(frames))
           e == ends[Len(frames)]
<1>4. /\ frames = <<>> => k = "Value"
      /\ frames # <<>> => k = frames[Len(frames)].kind /\ k \in {"Array", "Object"}
                          /\ v[e + 1] = Close[frames[Len(frames)].kind]
  BY <1>1, <1>2, <1>3, EndOf
<1>5. frames # <<>> => k = Top.kind /\ k \in {"Array", "Object"} /\ v[e + 1] = Close[k]
  BY <1>2, <1>4
<1>6. Expected(pc, k, v, pos, e) /\ e \in pos..Len(v)
  BY <1>3
<1> HIDE DEF k, e
<1>7. Expected(pc', k, v, pos', e)
  BY <1>1, <1>4, <1>5, <1>6
<1>8. QED
  BY <1>3, <1>7 DEF Fits, k, e

\* A step that gives up: no value begins with what has been seen.
LEMMA FitsNone ==
    ASSUME ParseInv, SpellInv, RestInv, pc \in Reading, NEW t, Peek(t), pc' = "fail",
           \A v, e, k :
               /\ v \in Seq(Tok) /\ Len(v) <= MaxText /\ e \in pos..Len(v) /\ pos + 1 <= Len(v)
               /\ Expected(pc, k, v, pos, e) /\ v[pos + 1] = t
               /\ frames # <<>> => k = Top.kind /\ k \in {"Array", "Object"} /\ v[e + 1] = Close[k]
               => FALSE
    PROVE  RestInv'
<1>0. pc' \notin Reading
  BY DEF Reading
<1> SUFFICES ASSUME NEW v \in Values, IsPrefix(text', v)
             PROVE  FALSE
  BY <1>0 DEF RestInv
<1>1. /\ IsPrefix(text, v) /\ v[pos + 1] = t /\ pos + 1 <= Len(v)
      /\ v \in Seq(Tok) /\ Len(v) <= MaxText
  BY PrefixRead
<1>2. /\ frames \in Seq(Frame) /\ (frames # <<>> => Top = frames[Len(frames)])
      /\ \E ends : /\ Enclosed(frames, v, ends)
                   /\ Expected(pc, KindOf(frames, Len(frames)), v, pos, ends[Len(frames)])
                   /\ ends[Len(frames)] \in pos..Len(v)
  BY <1>1, StillFits
<1>3. PICK ends : /\ Enclosed(frames, v, ends)
                  /\ Expected(pc, KindOf(frames, Len(frames)), v, pos, ends[Len(frames)])
                  /\ ends[Len(frames)] \in pos..Len(v)
  BY <1>2
<1> DEFINE k == KindOf(frames, Len(frames))
           e == ends[Len(frames)]
<1>4. frames # <<>> => k = frames[Len(frames)].kind /\ k \in {"Array", "Object"}
                       /\ v[e + 1] = Close[frames[Len(frames)].kind]
  BY <1>1, <1>2, <1>3, EndOf
<1>5. frames # <<>> => k = Top.kind /\ k \in {"Array", "Object"} /\ v[e + 1] = Close[k]
  BY <1>2, <1>4
<1>6. Expected(pc, k, v, pos, e) /\ e \in pos..Len(v)
  BY <1>3
<1> HIDE DEF k, e
<1>7. QED
  BY <1>1, <1>5, <1>6

\* A step that gives up for another reason.
LEMMA FitsNoMore ==
    ASSUME pc' \notin Reading, pc' = "fail" => why' # "syntax"
    PROVE  RestInv'
BY DEF RestInv

\* Places up to another.
LEMMA UpTo ==
    ASSUME NEW p \in Nat, NEW v \in Seq(Tok), NEW e \in p..Len(v)
    PROVE  e \in Nat /\ p <= e /\ \A m \in p..e : m \in p..Len(v)
OBVIOUS

\* Only a literal, a number or a string is read whole.
LEMMA ScalarNext ==
    ASSUME NEW v \in Seq(Tok), Len(v) <= MaxText, NEW p \in Nat, NEW e \in p..Len(v), NEW k,
           ValueNext(k, v, p, e), v[p + 1] \in {"v", "s"}
    PROVE  Follows(k, v, p + 1, e) /\ p + 1 <= e
<1>1. PICK m \in p..e : Says("Value", v, p, m) /\ Follows(k, v, m, e)
  BY DEF ValueNext
<1>2. m \in p..Len(v) /\ e \in Nat
  OBVIOUS
<1>3. m = p + 1
  BY <1>1, <1>2, FirstOfValue
<1>4. QED
  BY <1>1, <1>2, <1>3

\* It is a value, and the list goes on behind it.
LEMMA ScalarFits ==
    ASSUME ParseInv, SpellInv, RestInv, pc = "value", NEW t \in {"v", "s"}, Consume(t),
           frames' = frames, pc' = Returned
    PROVE  RestInv'
<1>1. pc \in Reading /\ Peek(t) /\ pos' = pos + 1
  BY DEF Reading, Consume
<1>2. pc' \in {"accepted", "after"} /\ (pc' = "accepted" <=> frames = <<>>)
  BY DEF Returned
<1>3. ASSUME NEW v, NEW e, NEW k,
             v \in Seq(Tok), Len(v) <= MaxText, e \in pos..Len(v),
             Expected(pc, k, v, pos, e), v[pos + 1] = t,
             frames = <<>> => k = "Value"
      PROVE  Expected(pc', k, v, pos + 1, e)
  <2>1. ValueNext(k, v, pos, e) /\ pos \in Nat
    BY <1>1, <1>3, WhileSpelled DEF Expected
  <2>2. Follows(k, v, pos + 1, e) /\ pos + 1 <= e
    BY <1>3, <2>1, ScalarNext
  <2>3. k = "Value" => pos + 1 = e
    BY <2>2 DEF Follows
  <2>4. QED
    BY <1>2, <1>3, <2>2, <2>3 DEF Expected
<1>4. QED
  BY <1>1, <1>2, <1>3, FitsOn

\* No value: none begins like that.
LEMMA NoValueFits ==
    ASSUME ParseInv, SpellInv, RestInv, NoValue
    PROVE  RestInv'
<1>1. PICK t \in Tok \ {"v", "s", "[", "{"} : Peek(t)
  BY DEF NoValue
<1>2. pc = "value" /\ pc \in Reading /\ pc' = "fail"
  BY DEF NoValue, Reading, Fail
<1>3. ASSUME NEW v, NEW e, NEW k,
             v \in Seq(Tok), Len(v) <= MaxText, e \in pos..Len(v),
             Expected(pc, k, v, pos, e), v[pos + 1] = t
      PROVE  FALSE
  <2>1. pos \in Nat
    BY <1>2, WhileSpelled
  <2>2. PICK m \in pos..e : Says("Value", v, pos, m)
    BY <1>2, <1>3 DEF Expected, ValueNext
  <2>3. m \in pos..Len(v)
    <3>1. v \in Seq(Tok) /\ e \in pos..Len(v)
      BY <1>3
    <3>2. QED
      BY <2>1, <3>1, UpTo
  <2>4. v[pos + 1] \in {"v", "s", "[", "{"}
    BY <1>3, <2>1, <2>2, <2>3, FirstOfValue
  <2>5. QED
    BY <1>3, <2>4
<1>4. QED
  BY <1>1, <1>2, <1>3, FitsNone

\* The first item, or none.
LEMMA NotClosedFits ==
    ASSUME ParseInv, SpellInv, RestInv, NotClosed
    PROVE  RestInv'
<1>1. PICK t \in Tok \ {Close[Top.kind]} : Peek(t)
  BY DEF NotClosed
<1>2. pc = "first" /\ pc \in Reading /\ pc' = "element" /\ frames' = frames /\ frames # <<>> /\ pos' = pos
  BY DEF NotClosed, Reading, ParseInv
<1>3. ASSUME NEW v, NEW e, NEW k, e \in pos..Len(v), v \in Seq(Tok),
             Expected(pc, k, v, pos, e), v[pos + 1] = t,
             frames # <<>> => k = Top.kind /\ k \in {"Array", "Object"} /\ v[e + 1] = Close[k]
      PROVE  Expected(pc', k, v, pos, e)
  <2>1. Says(k, v, pos, e) /\ pos <= e /\ pos # e
    BY <1>1, <1>2, <1>3 DEF Expected
  <2>2. pos < e
    <3>1. pos \in Nat
      BY <1>2, WhileSpelled
    <3>2. e \in Nat
      BY <1>3, <3>1
    <3> QED
      BY <2>1, <3>1, <3>2
  <2>3. QED
    BY <1>2, <2>1, <2>2 DEF Expected
<1>4. QED
  BY <1>1, <1>2, <1>3, FitsOn

\* A name.
LEMMA NameFits ==
    ASSUME ParseInv, SpellInv, RestInv, Name
    PROVE  RestInv'
<1>1. pc = "name" /\ pc \in Reading /\ frames' = frames /\ pos \in Nat
  BY WhileSpelled DEF Name, Reading
<1>2. CASE Fail("memory")
  BY <1>2, FitsNoMore DEF Fail, Reading
<1>3. CASE (\E t \in Tok \ {"s"} : Peek(t)) /\ Fail("syntax")
  <2>1. PICK t \in Tok \ {"s"} : Peek(t)
    BY <1>3
  <2>2. \A v, e, k : Expected(pc, k, v, pos, e) => v[pos + 1] = "s"
    BY <1>1 DEF Expected
  <2>3. pc' = "fail"
    BY <1>3 DEF Fail
  <2>4. QED
    BY <1>1, <2>1, <2>2, <2>3, FitsNone
<1>4. CASE Consume("s") /\ pc' = "colon"
  <2>1. Peek("s") /\ pos' = pos + 1
    BY <1>4 DEF Consume
  <2>2. ASSUME NEW v, NEW e, NEW k, e \in pos..Len(v), v \in Seq(Tok), Expected(pc, k, v, pos, e)
        PROVE  Expected("colon", k, v, pos + 1, e)
    <3>1. pos + 2 <= e /\ v[pos + 2] = ":" /\ ValueNext(k, v, pos + 2, e)
      BY <1>1, <2>2 DEF Expected
    <3>2. (pos + 1) + 1 = pos + 2 /\ pos + 1 <= e
      BY <1>1, <3>1, <2>2
    <3>3. QED
      BY <3>1, <3>2 DEF Expected
  <2>3. QED
    BY <1>1, <1>4, <2>1, <2>2, FitsOn
<1>5. QED
  BY <1>2, <1>3, <1>4 DEF Name

\* Its colon.
LEMMA ColonFits ==
    ASSUME ParseInv, SpellInv, RestInv, Colon
    PROVE  RestInv'
<1>1. pc = "colon" /\ pc \in Reading /\ frames' = frames
  BY DEF Colon, Reading
<1>2. CASE (\E t \in Tok \ {":"} : Peek(t)) /\ Fail("syntax")
  <2>1. PICK t \in Tok \ {":"} : Peek(t)
    BY <1>2
  <2>2. \A v, e, k : Expected(pc, k, v, pos, e) => v[pos + 1] = ":"
    BY <1>1 DEF Expected
  <2>3. pc' = "fail"
    BY <1>2 DEF Fail
  <2>4. QED
    BY <1>1, <2>1, <2>2, <2>3, FitsNone
<1>3. CASE Consume(":") /\ pc' = "value"
  <2>1. Peek(":") /\ pos' = pos + 1
    BY <1>3 DEF Consume
  <2>2. \A v, e, k : Expected(pc, k, v, pos, e) => Expected("value", k, v, pos + 1, e)
    BY <1>1 DEF Expected
  <2>3. QED
    BY <1>1, <1>3, <2>1, <2>2, FitsOn
<1>4. QED
  BY <1>2, <1>3 DEF Colon

\* A comma, or neither that nor the end.
LEMMA CommaFits ==
    ASSUME ParseInv, SpellInv, RestInv, Comma
    PROVE  RestInv'
<1>1. pc = "after" /\ pc \in Reading /\ frames' = frames /\ frames # <<>> /\ pos \in Nat
  BY WhileSpelled DEF Comma, Reading, ParseInv
<1>2. Close[Top.kind] # ","
  BY <1>1, WhileReading, ClosesAre
<1>3. CASE (\E t \in Tok \ {",", Close[Top.kind]} : Peek(t)) /\ Fail("syntax")
  <2>1. PICK t \in Tok \ {",", Close[Top.kind]} : Peek(t)
    BY <1>3
  <2>2. pc' = "fail"
    BY <1>3 DEF Fail
  <2>3. ASSUME NEW v, NEW e, NEW k, Expected(pc, k, v, pos, e), v[pos + 1] = t,
               k = Top.kind, v[e + 1] = Close[k]
        PROVE  FALSE
    <3>1. Follows(k, v, pos, e)
      BY <1>1, <2>3 DEF Expected
    <3>2. QED
      BY <2>1, <2>3, <3>1 DEF Follows
  <2>4. QED
    BY <1>1, <2>1, <2>2, <2>3, FitsNone
<1>4. CASE Consume(",") /\ pc' = "element"
  <2>1. Peek(",") /\ pos' = pos + 1
    BY <1>4 DEF Consume
  <2>2. ASSUME NEW v, NEW e, NEW k, e \in pos..Len(v), Expected(pc, k, v, pos, e), v[pos + 1] = ",",
               v \in Seq(Tok), k = Top.kind, v[e + 1] = Close[k]
        PROVE  Expected("element", k, v, pos + 1, e)
    <3>1. Follows(k, v, pos, e)
      BY <1>1, <2>2 DEF Expected
    <3>2. pos # e
      BY <1>2, <2>2
    <3>3. pos + 1 < e /\ Says(k, v, pos + 1, e)
      BY <3>1, <3>2 DEF Follows
    <3>4. pos + 1 <= e
      <4>1. e \in Nat
        <5>1. v \in Seq(Tok) /\ e \in pos..Len(v)
          BY <2>2
        <5>2. QED
          BY <1>1, <5>1, UpTo
      <4> QED
        BY <1>1, <3>3, <4>1
    <3>5. QED
      BY <3>3, <3>4 DEF Expected
  <2>3. QED
    BY <1>1, <1>4, <2>1, <2>2, FitsOn
<1>5. QED
  BY <1>3, <1>4 DEF Comma

\* The lists are of the same sorts: they close at the same places.
LEMMA SameKinds ==
    ASSUME NEW fr, NEW fn, Len(fr) \in Nat, NEW d \in 0..Len(fr), Len(fn) = d,
           \A i \in 1..d : fn[i].kind = fr[i].kind,
           NEW v, NEW ends, Enclosed(fr, v, ends)
    PROVE  Enclosed(fn, v, ends) /\ \A i \in 0..d : KindOf(fn, i) = KindOf(fr, i)
<1>1. \A i \in 0..d : KindOf(fn, i) = KindOf(fr, i)
  <2> TAKE i \in 0..d
  <2>1. CASE i = 0
    BY <2>1 DEF KindOf
  <2>2. CASE i # 0
    <3>1. i \in 1..d
      BY <2>2
    <3>2. QED
      BY <2>2, <3>1 DEF KindOf
  <2>3. QED
    BY <2>1, <2>2
<1>2. ASSUME NEW i \in 1..Len(fn)
      PROVE  ClosedAt(fn, v, ends, i)
  <2>1. i \in 1..d /\ i \in 1..Len(fr) /\ i - 1 \in 0..d
    OBVIOUS
  <2>2. ClosedAt(fr, v, ends, i) /\ fn[i].kind = fr[i].kind /\ KindOf(fn, i - 1) = KindOf(fr, i - 1)
    BY <1>1, <2>1 DEF Enclosed
  <2>3. QED
    BY <2>2 DEF ClosedAt
<1>3. QED
  BY <1>1, <1>2 DEF Enclosed

\* A list is opened: it closes where its value ends.
LEMMA OpenedFits ==
    ASSUME NEW fr \in Seq(Frame), NEW v \in Seq(Tok), Len(v) <= MaxText, NEW ends, Enclosed(fr, v, ends),
           NEW p \in Nat, ends[Len(fr)] \in p..Len(v),
           ValueNext(KindOf(fr, Len(fr)), v, p, ends[Len(fr)]),
           NEW x \in Frame, v[p + 1] = Opener(x.kind)
    PROVE  Fits("first", Append(fr, x), v, p + 1)
<1> DEFINE d == Len(fr)
           e == ends[d]
           fn == Append(fr, x)
           k == x.kind
<1>1. k \in {"Array", "Object"}
  BY DEF Frame
<1>2. d \in Nat /\ Len(fn) = d + 1 /\ fn[d + 1] = x /\ \A i \in 1..d : fn[i] = fr[i]
  OBVIOUS
<1>20. d \in Nat
  OBVIOUS
<1>3. PICK m \in p..e : Says("Value", v, p, m) /\ Follows(KindOf(fr, d), v, m, e)
  BY DEF ValueNext
<1>4. e \in Nat /\ m \in p..Len(v) /\ m \in Nat /\ m <= e /\ e <= Len(v)
  OBVIOUS
<1>5. Wrapped(k, v, p, m)
  BY <1>1, <1>3, <1>4, FirstOfValue
<1>6. p + 2 <= m /\ v[m] = Close[k] /\ Says(k, v, p + 1, m - 1)
  BY <1>5 DEF Wrapped
<1> HIDE DEF d, e, fn, k
<1> DEFINE z == m - 1
           ens == [ends EXCEPT ![d + 1] = z]
<1>7. z \in Nat /\ z + 1 = m /\ z <= Len(v) /\ p + 1 <= z /\ z + 1 <= e
  BY <1>4, <1>6
<1> HIDE DEF z
<1>8. /\ ens \in [Nat -> Nat] /\ ens[d + 1] = z
      /\ \A i \in 0..d : ens[i] = ends[i]
  <2>1. ends \in [Nat -> Nat]
    BY DEF Enclosed
  <2>2. d + 1 \in Nat /\ \A i \in 0..d : i \in Nat /\ i # d + 1
    BY <1>20
  <2>3. z \in Nat
    BY <1>7
  <2> DEFINE n == d + 1
  <2> HIDE DEF n
  <2>4. n \in Nat /\ \A i \in 0..d : i \in Nat /\ i # n
    BY <2>2 DEF n
  <2>5. /\ [ends EXCEPT ![n] = z] \in [Nat -> Nat] /\ [ends EXCEPT ![n] = z][n] = z
        /\ \A i \in 0..d : [ends EXCEPT ![n] = z][i] = ends[i]
    BY <2>1, <2>3, <2>4
  <2>6. QED
    BY <2>5 DEF n
<1> HIDE DEF ens
<1>9. ens[0] = Len(v)
  <2>1. 0 \in 0..d /\ ends[0] = Len(v)
    BY <1>2 DEF Enclosed
  <2>2. QED
    BY <1>8, <2>1
<1>10. \A i \in 0..d : KindOf(fn, i) = KindOf(fr, i)
  <2> TAKE i \in 0..d
  <2>1. i # 0 => i \in 1..d
    BY <1>2
  <2>2. QED
    BY <1>2, <2>1 DEF KindOf
<1>11. ASSUME NEW i \in 1..d
       PROVE  ClosedAt(fn, v, ens, i)
  <2>1. i \in 0..d /\ i - 1 \in 0..d
    BY <1>2
  <2>2. ens[i] = ends[i] /\ ens[i - 1] = ends[i - 1] /\ KindOf(fn, i - 1) = KindOf(fr, i - 1) /\ fn[i] = fr[i]
    BY <1>2, <1>8, <1>10, <2>1
  <2>3. ClosedAt(fr, v, ends, i)
    BY DEF Enclosed, d
  <2>4. QED
    BY <2>2, <2>3 DEF ClosedAt
<1>12. ClosedAt(fn, v, ens, d + 1)
  <2>1. (d + 1) - 1 = d /\ d \in 0..d
    BY <1>20
  <2>2. ens[(d + 1) - 1] = e /\ KindOf(fn, (d + 1) - 1) = KindOf(fr, d) /\ fn[d + 1].kind = k
    BY <1>2, <1>8, <1>10, <2>1 DEF e, k
  <2>3. Follows(KindOf(fr, d), v, z + 1, e) /\ v[z + 1] = Close[k]
    BY <1>3, <1>6, <1>7
  <2>4. QED
    BY <1>7, <1>8, <2>2, <2>3 DEF ClosedAt
<1>13. Enclosed(fn, v, ens)
  <2>1. \A i \in 1..Len(fn) : i \in 1..d \/ i = d + 1
    BY <1>2
  <2>2. QED
    BY <1>8, <1>9, <1>11, <1>12, <2>1 DEF Enclosed
<1>14. KindOf(fn, Len(fn)) = k /\ ens[Len(fn)] = z
  <2>1. Len(fn) # 0
    BY <1>2
  <2>2. QED
    BY <1>2, <1>8, <2>1 DEF KindOf, k
<1>15. Expected("first", k, v, p + 1, z)
  BY <1>6, <1>7 DEF Expected, z
<1>16. QED
  BY <1>13, <1>14, <1>15 DEF Fits, fn

\* A list is closed: the one around it goes on.
LEMMA ClosedFits ==
    ASSUME NEW fr \in Seq(Frame), fr # <<>>, NEW v \in Seq(Tok), NEW ends, Enclosed(fr, v, ends),
           NEW p, p = ends[Len(fr)], NEW c, c = IF Len(fr) = 1 THEN "accepted" ELSE "after"
    PROVE  Fits(c, Front(fr), v, p + 1)
<1> DEFINE d == Len(fr) - 1
           fn == Front(fr)
<1>1. /\ d \in Nat /\ Len(fn) = d /\ d \in 0..Len(fr) /\ d \in 0..d /\ \A i \in 1..d : fn[i].kind = fr[i].kind
      /\ Len(fr) \in Nat /\ Len(fr) \in 1..Len(fr)
  <2>1. Len(fn) = d /\ Len(fr) \in 1..Len(fr) /\ \A i \in 1..d : fn[i] = fr[i]
    BY FrontIs
  <2>2. Len(fr) \in Nat
    OBVIOUS
  <2>3. QED
    BY <2>1, <2>2
<1>2. Enclosed(fn, v, ends) /\ \A i \in 0..d : KindOf(fn, i) = KindOf(fr, i)
  <2> HIDE DEF d, fn
  <2>1. QED
    BY <1>1, SameKinds
<1>3. ClosedAt(fr, v, ends, Len(fr))
  BY <1>1 DEF Enclosed
<1>4. p + 1 <= ends[d] /\ Follows(KindOf(fr, d), v, p + 1, ends[d])
  BY <1>3 DEF ClosedAt
<1>5. d = 0 => KindOf(fr, d) = "Value"
  BY DEF KindOf
<1>6. Len(fr) = 1 <=> d = 0
  BY <1>1
<1> HIDE DEF d, fn
<1>7. Expected(c, KindOf(fr, d), v, p + 1, ends[d])
  <2>1. CASE d = 0
    <3>1. c = "accepted" /\ p + 1 = ends[d]
      BY <1>4, <1>5, <1>6, <2>1 DEF Follows
    <3>2. QED
      BY <1>4, <3>1 DEF Expected
  <2>2. CASE d # 0
    <3>1. c = "after"
      BY <1>6, <2>2
    <3>2. QED
      BY <1>4, <3>1 DEF Expected
  <2>3. QED
    BY <2>1, <2>2
<1>8. KindOf(fn, Len(fn)) = KindOf(fr, d) /\ ends[Len(fn)] = ends[d]
  BY <1>1, <1>2
<1>9. QED
  BY <1>2, <1>7, <1>8 DEF Fits, fn

\* An array or an object begins.
LEMMA OpenFits ==
    ASSUME ParseInv, SpellInv, RestInv, NEW k \in {"Array", "Object"}, OpenList(k)
    PROVE  RestInv'
<1>1. pc = "value" /\ pc \in Reading
  BY DEF OpenList, Reading
<1>2. CASE Len(frames) >= DepthLimit
  <2>1. pc' = "fail" /\ why' = "depth"
    BY <1>2 DEF OpenList, Fail
  <2>2. QED
    BY <2>1, FitsNoMore DEF Reading
<1>3. CASE ~(Len(frames) >= DepthLimit)
  <2> DEFINE x == [item |-> Current, kind |-> k, head |-> NULL, last |-> NULL]
  <2>1. /\ Consume(Opener(k)) /\ frames' = Append(frames, x) /\ pc' = "first"
    BY <1>3 DEF OpenList, Opener
  <2>2. Peek(Opener(k)) /\ pos' = pos + 1
    BY <2>1 DEF Consume
  <2>3. x \in Frame /\ x.kind = k
    <3>1. Current \in Nat /\ NULL \in Nat
      <4>1. Current = Len(heap) /\ Len(heap) \in Nat
        BY <1>1, WhileSpelled
      <4>2. QED
        BY <4>1 DEF NULL
    <3>2. QED
      BY <3>1 DEF Frame
  <2> HIDE DEF x
  <2> SUFFICES ASSUME NEW v \in Values, IsPrefix(text', v)
               PROVE  Fits("first", Append(frames, x), v, pos + 1)
    BY <2>1, <2>2 DEF RestInv
  <2>4. /\ IsPrefix(text, v) /\ v[pos + 1] = Opener(k)
        /\ v \in Seq(Tok) /\ Len(v) <= MaxText /\ pos \in Nat
    BY <1>1, <2>2, PrefixRead
  <2>5. PICK ends : /\ Enclosed(frames, v, ends)
                    /\ Expected(pc, KindOf(frames, Len(frames)), v, pos, ends[Len(frames)])
                    /\ ends[Len(frames)] \in pos..Len(v)
    BY <1>1, <2>4, StillFits
  <2>6. frames \in Seq(Frame)
    BY <1>1, WhileSpelled
  <2>7. ValueNext(KindOf(frames, Len(frames)), v, pos, ends[Len(frames)])
    BY <1>1, <2>5 DEF Expected
  <2>8. v[pos + 1] = Opener(x.kind)
    BY <2>3, <2>4
  <2>9. QED
    BY <2>3, <2>4, <2>5, <2>6, <2>7, <2>8, OpenedFits
<1>4. QED
  BY <1>2, <1>3

\* Where a list can be closed, it ends.
LEMMA EndsHere ==
    ASSUME NEW v \in Seq(Tok), Len(v) <= MaxText, NEW p \in Nat, NEW e \in p..Len(v),
           NEW k \in {"Array", "Object"}, NEW c \in {"first", "after"}, Expected(c, k, v, p, e),
           v[p + 1] = Close[k]
    PROVE  p = e
<1>1. Close[k] \notin {"v", "s", "[", "{", ","}
  <2>1. Close["Array"] = "]" /\ Close["Object"] = "}"
    BY DEF Close
  <2>2. QED
    BY <2>1
<1>2. p <= e /\ e \in Nat /\ (p # e => p < e)
  OBVIOUS
<1>3. CASE c = "first"
  <2> SUFFICES ASSUME p # e
               PROVE  FALSE
    OBVIOUS
  <2>1. Says(k, v, p, e)
    BY <1>3 DEF Expected
  <2>2. v[p + 1] \in {"v", "s", "[", "{"}
    BY <1>2, <2>1, ItemFirst
  <2>3. QED
    BY <1>1, <2>2
<1>4. CASE c = "after"
  BY <1>1, <1>4 DEF Expected, Follows
<1>5. QED
  BY <1>3, <1>4

\* Its end.
LEMMA CloseFits ==
    ASSUME ParseInv, SpellInv, RestInv, CloseList
    PROVE  RestInv'
<1>1. /\ pc \in {"first", "after"} /\ pc \in Reading /\ frames # <<>> /\ frames' = Front(frames)
      /\ Peek(Close[Top.kind]) /\ pos' = pos + 1
      /\ pc' = IF Len(frames) = 1 THEN "accepted" ELSE "after"
  BY DEF CloseList, Consume, Reading, ParseInv
<1>2. pc' # "fail"
  BY <1>1
<1> SUFFICES ASSUME NEW v \in Values, IsPrefix(text', v)
             PROVE  Fits(pc', Front(frames), v, pos + 1)
  BY <1>1, <1>2 DEF RestInv
<1>3. /\ IsPrefix(text, v) /\ v[pos + 1] = Close[Top.kind]
      /\ v \in Seq(Tok) /\ Len(v) <= MaxText /\ pos \in Nat
  BY <1>1, PrefixRead
<1>4. PICK ends : /\ Enclosed(frames, v, ends)
                  /\ Expected(pc, KindOf(frames, Len(frames)), v, pos, ends[Len(frames)])
                  /\ ends[Len(frames)] \in pos..Len(v)
  BY <1>1, <1>3, StillFits
<1>5. frames \in Seq(Frame) /\ Top = frames[Len(frames)]
  BY <1>1, WhileSpelled
<1>6. /\ KindOf(frames, Len(frames)) = Top.kind
      /\ KindOf(frames, Len(frames)) \in {"Array", "Object"}
  BY <1>1, <1>3, <1>4, <1>5, EndOf
<1>7. pos = ends[Len(frames)]
  <2> DEFINE k == KindOf(frames, Len(frames))
             e == ends[Len(frames)]
  <2>1. Expected(pc, k, v, pos, e) /\ e \in pos..Len(v) /\ k \in {"Array", "Object"} /\ v[pos + 1] = Close[k]
    BY <1>3, <1>4, <1>6
  <2> HIDE DEF k, e
  <2>2. pos = e
    BY <1>1, <1>3, <2>1, EndsHere
  <2>3. QED
    BY <2>2 DEF e
<1>8. QED
  BY <1>1, <1>3, <1>4, <1>5, <1>7, ClosedFits

\* A new item, where one must follow.
LEMMA ElementFits ==
    ASSUME ParseInv, SpellInv, RestInv, Element
    PROVE  RestInv'
<1>1. pc = "element" /\ pc \in Reading /\ frames # <<>> /\ UNCHANGED <<text, pos>>
  BY DEF Element, Reading, ParseInv
<1>2. CASE Fail("memory")
  BY <1>2, FitsNoMore DEF Fail, Reading
<1>3. CASE pc' # "fail"
  <2>1. /\ frames' = NextItem(frames, Len(heap) + 1)
        /\ pc' = IF Top.kind = "Array" THEN "value" ELSE "name"
    BY <1>3, ElementAdded
  <2>2. frames \in Seq(Frame) /\ Top = frames[Len(frames)] /\ Len(heap) + 1 \in Nat /\ Len(frames) \in Nat
    BY <1>1, WhileSpelled
  <2>3. Len(frames') = Len(frames) /\ \A i \in 1..Len(frames) : frames'[i].kind = frames[i].kind
    <3> DEFINE fn == NextItem(frames, Len(heap) + 1)
    <3>1. /\ Len(fn) = Len(frames) /\ fn[Len(frames)].kind = frames[Len(frames)].kind
          /\ \A i \in 1..Len(frames) : i # Len(frames) => fn[i] = frames[i]
      BY <1>1, <2>2, NextItemIs
    <3> HIDE DEF fn
    <3>2. \A i \in 1..Len(frames) : fn[i].kind = frames[i].kind
      BY <3>1
    <3>3. QED
      BY <2>1, <3>1, <3>2 DEF fn
  <2> SUFFICES ASSUME NEW v \in Values, IsPrefix(text, v)
               PROVE  Fits(pc', frames', v, pos)
    BY <1>1, <1>3 DEF RestInv
  <2>4. v \in Seq(Tok) /\ Len(v) <= MaxText /\ pos \in Nat
    BY <1>1, StillFits
  <2>5. PICK ends : /\ Enclosed(frames, v, ends)
                    /\ Expected(pc, KindOf(frames, Len(frames)), v, pos, ends[Len(frames)])
                    /\ ends[Len(frames)] \in pos..Len(v)
    BY <1>1, StillFits
  <2>6. /\ Enclosed(frames', v, ends)
        /\ KindOf(frames', Len(frames)) = KindOf(frames, Len(frames))
    <3> DEFINE fn == frames'
               d == Len(frames)
    <3>1. Len(frames) \in Nat /\ d \in 0..Len(frames) /\ Len(fn) = d /\ \A i \in 1..d : fn[i].kind = frames[i].kind
      BY <2>2, <2>3
    <3>2. d \in 0..d
      BY <2>2
    <3> HIDE DEF fn, d
    <3>3. Enclosed(fn, v, ends) /\ \A i \in 0..d : KindOf(fn, i) = KindOf(frames, i)
      BY <2>5, <3>1, SameKinds
    <3>4. QED
      BY <3>2, <3>3 DEF fn, d
  <2>7. /\ KindOf(frames, Len(frames)) = Top.kind
        /\ KindOf(frames, Len(frames)) \in {"Array", "Object"}
    BY <1>1, <2>2, <2>4, <2>5, EndOf
  <2> DEFINE k == KindOf(frames, Len(frames))
             e == ends[Len(frames)]
  <2>8. Expected(pc, k, v, pos, e) /\ e \in pos..Len(v) /\ k \in {"Array", "Object"}
        /\ pc' = IF k = "Array" THEN "value" ELSE "name"
    BY <2>1, <2>5, <2>7
  <2> HIDE DEF k, e
  <2>9. Says(k, v, pos, e) /\ pos < e /\ pos <= e
    BY <1>1, <2>8 DEF Expected
  <2>10. ItemNext(k, v, pos, e)
    BY <2>4, <2>8, <2>9, ItemFirst
  <2>11. Expected(pc', k, v, pos, e)
    <3>1. CASE k = "Array"
      BY <2>8, <2>9, <2>10, <3>1 DEF Expected, ItemNext
    <3>2. CASE k # "Array"
      BY <2>8, <2>9, <2>10, <3>2 DEF Expected, ItemNext
    <3>3. QED
      BY <3>1, <3>2
  <2>12. QED
    BY <2>3, <2>6, <2>11 DEF Fits, k, e
<1>4. QED
  BY <1>2, <1>3 DEF Element, Fail

\* A text, before anything is read of it.
LEMMA StartFits ==
    ASSUME ParseInv, SpellInv, RestInv, Start
    PROVE  RestInv'
<1>1. pc = "start" /\ text = <<>> /\ pos = 0 /\ frames = <<>> /\ UNCHANGED <<text, pos, frames>>
  BY DEF Start, SpellInv, ParseInv
<1>2. CASE pc' = "refused"
  BY <1>2 DEF RestInv, Reading
<1>3. CASE pc' = "value"
  <2> SUFFICES ASSUME NEW v \in Values
               PROVE  Fits("value", <<>>, v, 0)
    BY <1>1, <1>3 DEF RestInv
  <2>1. v \in Seq(Tok) /\ Len(v) <= MaxText /\ Says("Value", v, 0, Len(v)) /\ Len(v) \in Nat
    BY ValuesSaid
  <2> DEFINE ends == [i \in Nat |-> Len(v)]
             e == Len(v)
  <2>2. Len(<<>>) = 0 /\ 1..Len(<<>>) = {}
    OBVIOUS
  <2>3. ends \in [Nat -> Nat] /\ ends[0] = e
    BY <2>1
  <2>4. Enclosed(<<>>, v, ends)
    BY <2>2, <2>3 DEF Enclosed
  <2>5. KindOf(<<>>, 0) = "Value"
    BY DEF KindOf
  <2> HIDE DEF e, ends
  <2>6. e \in 0..e /\ 0 <= e
    BY <2>1 DEF e
  <2>7. ValueNext("Value", v, 0, e)
    BY <2>1, <2>6 DEF ValueNext, Follows, e
  <2>8. Expected("value", "Value", v, 0, e)
    BY <2>6, <2>7 DEF Expected
  <2>9. QED
    BY <2>2, <2>3, <2>4, <2>5, <2>8 DEF Fits
<1>4. QED
  BY <1>2, <1>3 DEF Start

\* Every step.
LEMMA FitsKeep ==
    ASSUME ParseInv, SpellInv, RestInv, [ParseNext]_parseVars
    PROVE  RestInv'
<1>1. CASE UNCHANGED parseVars
  <2>1. UNCHANGED <<pc, text, pos, frames, why>>
    BY <1>1 DEF parseVars
  <2>2. \A v : Fits(pc, frames, v, pos)' = Fits(pc, frames, v, pos)
    BY <2>1
  <2>3. QED
    BY <2>1, <2>2 DEF RestInv
<1>2. CASE Scalar
  BY <1>2, ScalarFits DEF Scalar
<1>3. CASE StringValue
  <2>1. CASE Consume("s") /\ pc' = Returned
    BY <1>3, <2>1, ScalarFits DEF StringValue
  <2>2. CASE Fail("memory")
    BY <2>2, FitsNoMore DEF Fail, Reading
  <2>3. QED
    BY <1>3, <2>1, <2>2 DEF StringValue
<1>4. CASE Unwind
  <2>1. pc = "fail" /\ (pc' = "refused" \/ pc' = pc) /\ UNCHANGED <<text, why>>
    BY <1>4 DEF Unwind
  <2>2. pc' \notin Reading
    BY <2>1 DEF Reading
  <2>3. QED
    BY <2>1, <2>2 DEF RestInv
<1>5. CASE DeleteRoot
  BY <1>5, FitsNoMore DEF DeleteRoot, Reading
<1>6. CASE \E k \in {"Array", "Object"} : OpenList(k)
  BY <1>6, OpenFits
<1>7. QED
  BY <1>1, <1>2, <1>3, <1>4, <1>5, <1>6, StartFits, NoValueFits, CloseFits, NotClosedFits,
     ElementFits, NameFits, ColonFits, CommaFits DEF ParseNext

-----------------------------------------------------------------------------
(* What is read is JSON *)

\* The invariant of the reading.
ReadInv == ParseInv /\ SpellInv /\ NameInv /\ LenInv /\ RestInv

\* The list and the printer leave it alone.
LEMMA LibraryReadInv == LibrarySpec => []ReadInv
<1>1. LibraryInit => ReadInv
  <2> SUFFICES ASSUME LibraryInit
               PROVE  ReadInv
    OBVIOUS
  <2>1. Init
    BY DEF LibraryInit, PrintInit
  <2>2. ParseInv /\ SpellInv /\ NameInv /\ RestInv
    BY <2>1 DEF Init, ParseInv, SpellInv, NameInv, RestInv, Reading
  <2>3. LenInv
    <3>1. text = <<>> /\ pos = 0
      BY <2>1 DEF Init
    <3>2. 0 <= MaxText /\ Len(<<>>) = 0 /\ ~(0 > MaxText)
      BY TextAssumption
    <3>3. QED
      BY <3>1, <3>2 DEF LenInv, Bounded
  <2>4. QED
    BY <2>2, <2>3 DEF ReadInv
<1>2. ReadInv /\ [LibraryNext]_<<printVars, listVars>> => ReadInv'
  <2> SUFFICES ASSUME ReadInv, [LibraryNext]_<<printVars, listVars>>
               PROVE  ReadInv'
    OBVIOUS
  <2>1. [ParseNext]_parseVars
    <3>1. CASE PrintTree
      BY <3>1 DEF PrintTree
    <3>2. CASE UNCHANGED printVars
      BY <3>2 DEF printVars
    <3>3. QED
      BY <3>1, <3>2 DEF LibraryNext, PrintNext
  <2>2. QED
    BY <2>1, ParseKeeps, SpellKeeps, NamesKeep, LenKeeps, FitsKeep DEF ReadInv
<1>3. QED
  BY <1>1, <1>2, PTL DEF LibrarySpec

\* cJSON_Parse accepts JSON and nothing else, the tree that it returns says what
\* the text said, and a text that could still become JSON is refused only for
\* want of memory or for its depth, whatever the bounds of the text and the depth.
THEOREM TextsAreParsed == LibrarySpec => []ParsesJson
<1>1. ReadInv => ParsesJson
  BY AcceptedSays DEF ReadInv, RestInv, ParsesJson
<1>2. QED
  BY <1>1, LibraryReadInv, PTL

=============================================================================
