----------------------------- MODULE JsonProofs -----------------------------
(***************************************************************************)
(* Proofs about the list below an array or object of the JSON library, for *)
(* every finite set of items and every set of names, and about the memory  *)
(* of the parser and what is printed, for texts of any length and depth.   *)
(*                                                                         *)
(* The list: the state holds links; the properties speak of List, the      *)
(* sequence that is met by following them.  The invariant therefore says   *)
(* that there is a sequence s of which the links are the links (Whole),    *)
(* FollowChain that Follow then returns s, and one lemma per edit which    *)
(* sequence the links are the links of afterwards.                         *)
(*                                                                         *)
(* The memory: the nodes are numbered as the text names them, so what      *)
(* cJSON_Delete walks over from n is the interval n..e[n], each node once  *)
(* (WalkListsAll).  The tree is always the nodes 1..end, the calls of the  *)
(* recursion hold its lists that still grow (Nested), and a level that     *)
(* gives up cuts the tree off behind the item that its list belongs to.    *)
(*                                                                         *)
(* The print: while the text is read, each node of the tree stands between *)
(* two tokens of it (Spelled), and print_value writes for a node and those *)
(* behind it the tokens from the first to the end of their list            *)
(* (TreeSpells, from the youngest node down).  A buffer that has taken the *)
(* first k pieces holds as much of the text as these spell (PrintedRight). *)
(***************************************************************************)
EXTENDS JsonLibrary, FiniteSetTheorems, FunctionTheorems, TLAPS

-----------------------------------------------------------------------------
(* Numbers and sequences *)

\* What holds of 0 and of the successor of whatever it holds of holds of every
\* number: a set of numbers that misses one would inject 1..m + 1 into 1..m.
LEMMA SetInduction ==
  ASSUME NEW S, 0 \in S, \A n \in S \intersect Nat : n + 1 \in S
  PROVE  Nat \subseteq S
<1> SUFFICES ASSUME NEW m \in Nat, m \notin S PROVE FALSE
  OBVIOUS
<1> DEFINE f == [x \in 1..(m + 1) |-> IF x - 1 \in S THEN x ELSE x - 1]
<1>0. \A z \in 1..(m + 1) : z - 1 \in S => z \in S
  <2> TAKE z \in 1..(m + 1)
  <2>1. z - 1 \in Nat /\ (z - 1) + 1 = z
    OBVIOUS
  <2>2. QED
    BY <2>1
<1>1. ASSUME NEW x \in 1..(m + 1) PROVE f[x] \in 1..m
  OBVIOUS
<1>2. ASSUME NEW x \in 1..(m + 1), NEW y \in 1..(m + 1), f[x] = f[y] PROVE x = y
  <2>1. f[x] = (IF x - 1 \in S THEN x ELSE x - 1) /\ f[y] = (IF y - 1 \in S THEN y ELSE y - 1)
    OBVIOUS
  <2>2. (IF x - 1 \in S THEN x ELSE x - 1) = (IF y - 1 \in S THEN y ELSE y - 1)
    BY <1>2, <2>1
  <2>3. CASE x - 1 \in S /\ y - 1 \notin S
    BY <1>0, <2>2, <2>3
  <2>4. CASE x - 1 \notin S /\ y - 1 \in S
    BY <1>0, <2>2, <2>4
  <2>5. QED
    BY <2>2, <2>3, <2>4
<1>3. f \in Injection(1..(m + 1), 1..m)
  <2>1. f \in [1..(m + 1) -> 1..m]
    BY <1>1
  <2>2. QED
    BY <2>1, <1>2 DEF Injection, IsInjective
<1> HIDE DEF f
<1>4. m + 1 <= m
  BY <1>3, Fun_NatInjLeq DEF ExistsInjection
<1>5. QED
  BY <1>4

\* Sequences are equal item by item.
LEMMA SameSeq ==
    ASSUME NEW S, NEW s \in Seq(S), NEW t \in Seq(S), Len(s) = Len(t),
           \A i \in 1..Len(s) : s[i] = t[i]
    PROVE  s = t
OBVIOUS

\* A sequence that repeats no item is no longer than there are items.
LEMMA ShortList ==
    ASSUME NEW s \in Seq(Item), IsInjective(s)
    PROVE  Len(s) \in Nat /\ Len(s) <= Cardinality(Item) /\ Cardinality(Item) \in Nat
<1>1. s \in Injection(1..Len(s), Item) /\ Len(s) \in Nat
  BY DEF Injection, IsInjective
<1>2. IsFiniteSet(Item) /\ Cardinality(Item) \in Nat
  BY ItemAssumption, FS_CardinalityType
<1>3. Cardinality(1..Len(s)) <= Cardinality(Item)
  BY <1>1, <1>2, FS_Injection
<1>4. Cardinality(1..Len(s)) = Len(s)
  <2>1. ASSUME NEW n \in Nat PROVE Cardinality(1..n) = n
    <3>1. 1 \in Int /\ n \in Int
      OBVIOUS
    <3>2. Cardinality(1..n) = IF 1 > n THEN 0 ELSE n - 1 + 1
      BY <3>1, FS_Interval
    <3>3. QED
      BY <3>2
  <2>2. QED
    BY <1>1, <2>1
<1>5. QED
  BY <1>1, <1>2, <1>3, <1>4

-----------------------------------------------------------------------------
(* Chains of links *)

\* s is the chain of items from the first along the links.
Chain(s, first, links) ==
    /\ first = IF s = <<>> THEN NoItem ELSE s[1]
    /\ \A x \in 1..Len(s) : links[s[x]] = IF x < Len(s) THEN s[x + 1] ELSE NoItem

\* Following the links of a chain finds the chain: Follow is computed, by induction
\* over its steps.
LEMMA FollowChain ==
    ASSUME NEW s \in Seq(Item), IsInjective(s), NEW first, NEW links, Chain(s, first, links)
    PROVE  Follow(first, links) = s
<1> DEFINE Found(seen) == IF seen = <<>> THEN first ELSE links[Last(seen)]
           Step(f, n) == IF n = 0 THEN <<>>
                         ELSE LET seen == f[n - 1]
                                  i == IF seen = <<>> THEN first ELSE links[Last(seen)]
                              IN  IF i = NoItem THEN seen ELSE Append(seen, i)
           Walks(f) == f = [n \in Nat |-> Step(f, n)]
           walk == CHOOSE f : Walks(f)
           top(n) == IF n < Len(s) THEN n ELSE Len(s)
           g == [n \in Nat |-> SubSeq(s, 1, top(n))]
<1>1. Follow(first, links) = walk[Cardinality(Item) + 1]
  BY DEF Follow
<1>2. Len(s) \in Nat /\ Len(s) <= Cardinality(Item) /\ Cardinality(Item) \in Nat
  BY ShortList
<1>3. \A n \in Nat : top(n) \in 0..Len(s) /\ top(n) <= n /\ (n >= Len(s) => top(n) = Len(s))
  BY <1>2
<1>4. \A n \in Nat : /\ g[n] \in Seq(Item) /\ Len(g[n]) = top(n)
                     /\ \A x \in 1..top(n) : g[n][x] = s[x]
  <2> TAKE n \in Nat
  <2>1. top(n) \in 0..Len(s) /\ g[n] = SubSeq(s, 1, top(n))
    BY <1>3
  <2> HIDE DEF g, top
  <2>2. QED
    BY <2>1
<1>steps. \A f : \A n \in Nat \ {0} :
         Step(f, n) = IF Found(f[n - 1]) = NoItem THEN f[n - 1]
                      ELSE Append(f[n - 1], Found(f[n - 1]))
  OBVIOUS
<1>5. Walks(g)
  <2> HIDE DEF g, top
  <2> SUFFICES ASSUME NEW n \in Nat
               PROVE  g[n] = Step(g, n)
    BY DEF g
  <2>1. CASE n = 0
    <3>1. Len(g[n]) = 0 /\ g[n] \in Seq(Item)
      BY <1>2, <1>4, <2>1 DEF top
    <3>2. g[n] = <<>>
      BY <3>1
    <3>3. QED
      BY <2>1, <3>2
  <2>2. CASE n # 0
    <3> DEFINE m == n - 1
               seen == g[m]
    <3>1. m \in Nat /\ n = m + 1
      BY <2>2
    <3>2. /\ seen \in Seq(Item) /\ Len(seen) = top(m) /\ \A x \in 1..top(m) : seen[x] = s[x]
          /\ g[n] \in Seq(Item) /\ Len(g[n]) = top(n) /\ \A x \in 1..top(n) : g[n][x] = s[x]
      BY <1>4, <3>1
    <3>3. CASE m < Len(s)
      <4>1. top(m) = m /\ top(n) = n /\ n \in 1..Len(s)
        BY <1>2, <3>1, <3>3 DEF top
      <4>2. Found(seen) = s[n]
        <5>1. CASE m = 0
          <6>1. seen = <<>> /\ s # <<>>
            BY <3>2, <3>3, <4>1, <5>1
          <6>2. QED
            BY <3>1, <5>1, <6>1 DEF Chain
        <5>2. CASE m # 0
          <6>1. seen # <<>> /\ Last(seen) = s[m] /\ m \in 1..Len(s)
            BY <3>1, <3>2, <3>3, <4>1, <5>2 DEF Last
          <6>2. QED
            BY <3>1, <3>3, <6>1 DEF Chain
        <5>3. QED
          BY <5>1, <5>2
      <4>3. Found(seen) # NoItem
        <5>1. s[n] \in Item
          BY <4>1
        <5>2. QED
          BY <4>2, <5>1, NamesAssumption
      <4>4. Append(seen, s[n]) \in Seq(Item) /\ Len(Append(seen, s[n])) = n
            /\ \A x \in 1..n : Append(seen, s[n])[x] = s[x]
        BY <3>1, <3>2, <4>1
      <4>5. g[n] = Append(seen, s[n])
        BY <3>2, <4>1, <4>4, SameSeq
      <4>6. Step(g, n) = Append(seen, s[n])
        BY <1>steps, <2>2, <4>2, <4>3
      <4>7. QED
        BY <4>5, <4>6
    <3>4. CASE m >= Len(s)
      <4>1. top(m) = Len(s) /\ top(n) = Len(s)
        BY <1>2, <3>1, <3>4 DEF top
      <4>2. seen = s /\ g[n] = s
        BY <3>2, <4>1, SameSeq
      <4>3. Found(s) = NoItem
        BY <1>2 DEF Chain, Last
      <4>4. Step(g, n) = s
        <5>1. Found(seen) = NoItem
          BY <4>2, <4>3
        <5>2. Step(g, n) = seen
          BY <1>steps, <2>2, <5>1
        <5>3. QED
          BY <4>2, <5>2
      <4>5. QED
        BY <4>2, <4>4
    <3>5. QED
      BY <1>2, <3>1, <3>3, <3>4
  <2>3. QED
    BY <2>1, <2>2
<1>6. Walks(walk)
  BY <1>5
<1> HIDE DEF g, walk
<1>7. Nat \subseteq {n \in Nat : walk[n] = g[n]}
  <2>1. walk[0] = g[0]
    BY <1>5, <1>6
  <2>2. ASSUME NEW n \in Nat, walk[n] = g[n]
        PROVE  walk[n + 1] = g[n + 1]
    <3>1. n + 1 \in Nat /\ n + 1 # 0 /\ (n + 1) - 1 = n
      OBVIOUS
    <3>2. walk[n + 1] = Step(walk, n + 1) /\ g[n + 1] = Step(g, n + 1)
      BY <1>5, <1>6, <3>1
    <3>3. QED
      BY <2>2, <3>1, <3>2
  <2> DEFINE S == {n \in Nat : walk[n] = g[n]}
  <2>3. 0 \in S /\ \A n \in S \intersect Nat : n + 1 \in S
    BY <2>1, <2>2
  <2> HIDE DEF S
  <2>4. Nat \subseteq S
    BY <2>3, SetInduction
  <2>5. QED
    BY <2>4 DEF S
<1>8. walk[Cardinality(Item) + 1] = g[Cardinality(Item) + 1]
  BY <1>2, <1>7
<1>9. g[Cardinality(Item) + 1] = s
  <2>1. Cardinality(Item) + 1 \in Nat /\ top(Cardinality(Item) + 1) = Len(s)
    BY <1>2
  <2>2. QED
    BY <1>4, <2>1, SameSeq
<1>10. QED
  BY <1>1, <1>8, <1>9

-----------------------------------------------------------------------------
(* Edits of a whole list *)

\* The list is s.
IsWhole(s, first, nx, pv, listed) ==
    /\ s \in Seq(Item) /\ IsInjective(s) /\ Range(s) = listed
    /\ Chain(s, first, nx)
    /\ nx \in [Item -> Item \union {NoItem}] /\ pv \in [Item -> Item \union {NoItem}]
    /\ \A x \in 2..Len(s) : pv[s[x]] = s[x - 1]
    /\ s # <<>> => pv[s[1]] \in {NoItem, s[Len(s)]}
    /\ \A i \in Item \ listed : nx[i] = NoItem /\ pv[i] = NoItem

\* What is known of the places of a sequence that repeats no item.
LEMMA Places ==
    ASSUME NEW s \in Seq(Item), IsInjective(s)
    PROVE  /\ Len(s) \in Nat
           /\ s # <<>> <=> Len(s) # 0
           /\ \A x \in 1..Len(s) : s[x] \in Item /\ s[x] # NoItem /\ s[x] \in Range(s)
           /\ \A x, y \in 1..Len(s) : s[x] = s[y] => x = y
           /\ \A i \in Range(s) : i \in Item /\ \E x \in 1..Len(s) : i = s[x]
BY NamesAssumption DEF IsInjective, Range

\* The sequence that Append makes.
LEMMA AppendedList ==
    ASSUME NEW s \in Seq(Item), IsInjective(s), NEW i \in Item \ Range(s)
    PROVE  /\ Append(s, i) \in Seq(Item) /\ IsInjective(Append(s, i))
           /\ Len(Append(s, i)) = Len(s) + 1
           /\ \A x \in 1..Len(s) : Append(s, i)[x] = s[x]
           /\ Append(s, i)[Len(s) + 1] = i
           /\ Range(Append(s, i)) = Range(s) \union {i}
<1> DEFINE t == Append(s, i)
<1>1. /\ t \in Seq(Item) /\ Len(t) = Len(s) + 1 /\ Len(s) \in Nat /\ DOMAIN t = 1..(Len(s) + 1)
      /\ \A x \in 1..Len(s) : t[x] = s[x]
      /\ t[Len(s) + 1] = i /\ DOMAIN s = 1..Len(s)
  OBVIOUS
<1> HIDE DEF t
<1>2. \A x \in 1..Len(s) : s[x] \in Range(s) /\ s[x] # i
  BY <1>1 DEF Range
<1>3. ASSUME NEW x \in 1..(Len(s) + 1), NEW y \in 1..(Len(s) + 1), t[x] = t[y]
      PROVE  x = y
  <2>1. x \in 1..Len(s) \/ x = Len(s) + 1
    BY <1>1
  <2>2. y \in 1..Len(s) \/ y = Len(s) + 1
    BY <1>1
  <2>3. QED
    BY <1>1, <1>2, <1>3, <2>1, <2>2 DEF IsInjective
<1>4. Range(t) = Range(s) \union {i}
  <2>1. ASSUME NEW x \in 1..(Len(s) + 1)
        PROVE  t[x] \in Range(s) \union {i}
    <3>1. x \in 1..Len(s) \/ x = Len(s) + 1
      BY <1>1
    <3>2. QED
      BY <1>1, <1>2, <3>1
  <2>2. ASSUME NEW x \in 1..Len(s)
        PROVE  s[x] \in Range(t)
    <3>1. x \in DOMAIN t /\ t[x] = s[x]
      BY <1>1
    <3>2. QED
      BY <3>1 DEF Range
  <2>3. i \in Range(t)
    <3>1. Len(s) + 1 \in DOMAIN t
      BY <1>1
    <3>2. QED
      BY <1>1, <3>1 DEF Range
  <2>4. QED
    BY <1>1, <2>1, <2>2, <2>3 DEF Range
<1>5. IsInjective(t)
  BY <1>1, <1>3 DEF IsInjective
<1>6. QED
  BY <1>1, <1>4, <1>5 DEF t

\* add_item_to_array, once the tail is known, appends.
LEMMA WholeAppend ==
    ASSUME NEW s, NEW first, NEW nx, NEW pv, NEW listed, IsWhole(s, first, nx, pv, listed),
           NEW i \in Item \ listed,
           NEW first2, NEW nx2, NEW pv2,
           IF first = NoItem
           THEN /\ first2 = i
                /\ pv2 = [pv EXCEPT ![i] = i]
                /\ nx2 = [nx EXCEPT ![i] = NoItem]
           ELSE /\ nx2 = [nx EXCEPT ![s[Len(s)]] = i]
                /\ pv2 = [pv EXCEPT ![i] = s[Len(s)], ![first] = i]
                /\ first2 = first
    PROVE  IsWhole(Append(s, i), first2, nx2, pv2, listed \union {i})
<1> DEFINE t == Append(s, i)
           n == Len(s)
<1>1. s \in Seq(Item) /\ IsInjective(s) /\ i \in Item \ Range(s) /\ i \in Item
  BY DEF IsWhole
<1>2. /\ n \in Nat
      /\ \A x \in 1..n : s[x] \in Item /\ s[x] # NoItem /\ s[x] \in listed /\ s[x] # i
      /\ \A x, y \in 1..n : s[x] = s[y] => x = y
  BY <1>1, Places DEF IsWhole
<1>3. /\ t \in Seq(Item) /\ IsInjective(t) /\ Len(t) = n + 1 /\ t[n + 1] = i
      /\ \A x \in 1..n : t[x] = s[x]
      /\ Range(t) = listed \union {i}
  BY <1>1, AppendedList DEF IsWhole
<1>4. /\ nx \in [Item -> Item \union {NoItem}] /\ pv \in [Item -> Item \union {NoItem}]
      /\ nx[i] = NoItem /\ \A j \in Item \ listed : nx[j] = NoItem /\ pv[j] = NoItem
      /\ \A x \in 1..n : nx[s[x]] = IF x < n THEN s[x + 1] ELSE NoItem
      /\ \A x \in 2..n : pv[s[x]] = s[x - 1]
  BY DEF IsWhole, Chain
<1> HIDE DEF t
<1>5. CASE n = 0
  <2>1. first = NoItem
    BY <1>1, <1>5, Places DEF IsWhole, Chain
  <2>2. first2 = i /\ t[1] = i /\ pv2 = [pv EXCEPT ![i] = i] /\ nx2 = [nx EXCEPT ![i] = NoItem]
    BY <1>3, <1>5, <2>1
  <2>3. Chain(t, first2, nx2)
    <3>1. t # <<>> /\ 1..Len(t) = {1} /\ nx2[i] = NoItem
      BY <1>1, <1>3, <1>4, <1>5, <2>2
    <3>2. QED
      BY <1>3, <1>5, <2>2, <3>1 DEF Chain
  <2>4. QED
    BY <1>1, <1>3, <1>4, <1>5, <2>2, <2>3 DEF IsWhole, t
<1>6. CASE n # 0
  <2> DEFINE l == s[n]
  <2>1. n \in 1..n /\ 1 \in 1..n /\ first = s[1] /\ first # NoItem
    BY <1>1, <1>2, <1>6, Places DEF IsWhole, Chain
  <2>2. first2 = first /\ nx2 = [nx EXCEPT ![l] = i] /\ pv2 = [pv EXCEPT ![i] = l, ![first] = i]
    BY <2>1
  <2>3. /\ nx2 \in [Item -> Item \union {NoItem}] /\ pv2 \in [Item -> Item \union {NoItem}]
        /\ nx2[l] = i /\ \A j \in Item : j # l => nx2[j] = nx[j]
        /\ pv2[first] = i /\ pv2[i] = l /\ \A j \in Item : j \notin {first, i} => pv2[j] = pv[j]
    BY <1>1, <1>2, <1>4, <2>1, <2>2
  <2>4. \A x \in 1..(n + 1) : nx2[t[x]] = IF x < n + 1 THEN t[x + 1] ELSE NoItem
    <3> TAKE x \in 1..(n + 1)
    <3>1. CASE x = n + 1
      BY <1>2, <1>3, <1>4, <2>1, <2>3, <3>1
    <3>2. CASE x = n
      BY <1>2, <1>3, <2>1, <2>3, <3>2
    <3>3. CASE x \in 1..(n - 1)
      <4>1. x \in 1..n /\ x + 1 \in 1..n /\ x # n /\ x < n
        BY <1>2, <3>3
      <4>2. s[x] # l
        BY <1>2, <2>1, <4>1
      <4>3. nx2[s[x]] = s[x + 1]
        BY <1>2, <1>4, <2>3, <4>1, <4>2
      <4>4. QED
        BY <1>2, <1>3, <4>1, <4>3
    <3>4. QED
      BY <1>2, <3>1, <3>2, <3>3
  <2>5. \A x \in 2..(n + 1) : pv2[t[x]] = t[x - 1]
    <3> TAKE x \in 2..(n + 1)
    <3>1. CASE x = n + 1
      BY <1>2, <1>3, <2>1, <2>3, <3>1
    <3>2. CASE x \in 2..n
      <4>1. x \in 1..n /\ x - 1 \in 1..n /\ x # 1
        BY <1>2, <3>2
      <4>2. s[x] # first /\ s[x] # i
        BY <1>2, <2>1, <4>1
      <4>3. pv2[s[x]] = s[x - 1]
        BY <1>2, <1>4, <2>3, <3>2, <4>1, <4>2
      <4>4. QED
        BY <1>3, <4>1, <4>3
    <3>3. QED
      BY <1>2, <3>1, <3>2
  <2>6. t[1] = first /\ t # <<>> /\ pv2[t[1]] = t[Len(t)]
    BY <1>3, <2>1, <2>3
  <2>7. \A j \in Item \ (listed \union {i}) : nx2[j] = NoItem /\ pv2[j] = NoItem
    BY <1>2, <1>4, <2>1, <2>3
  <2>8. Chain(t, first2, nx2)
    BY <1>2, <1>3, <2>2, <2>4, <2>6 DEF Chain
  <2>9. QED
    BY <1>2, <1>3, <2>3, <2>5, <2>6, <2>7, <2>8 DEF IsWhole, t
<1>7. QED
  BY <1>5, <1>6

\* The parts of a concatenation.
LEMMA Joined ==
    ASSUME NEW S, NEW a \in Seq(S), NEW b \in Seq(S)
    PROVE  /\ a \o b \in Seq(S) /\ Len(a \o b) = Len(a) + Len(b)
           /\ Len(a) \in Nat /\ Len(b) \in Nat
           /\ \A x \in 1..Len(a) : (a \o b)[x] = a[x]
           /\ \A x \in 1..Len(b) : (a \o b)[Len(a) + x] = b[x]
OBVIOUS

\* The sequence that RemoveAt makes.
LEMMA RemovedList ==
    ASSUME NEW s \in Seq(Item), IsInjective(s), NEW k \in 1..Len(s)
    PROVE  /\ RemoveAt(s, k) \in Seq(Item) /\ IsInjective(RemoveAt(s, k))
           /\ Len(RemoveAt(s, k)) = Len(s) - 1
           /\ \A x \in 1..(Len(s) - 1) : RemoveAt(s, k)[x] = IF x < k THEN s[x] ELSE s[x + 1]
           /\ Range(RemoveAt(s, k)) = Range(s) \ {s[k]}
<1> DEFINE t == RemoveAt(s, k)
           n == Len(s)
<1>1. n \in Nat /\ k \in Nat /\ 1 <= k /\ k <= n
  OBVIOUS
<1>2. /\ \A x \in 1..n : s[x] \in Item /\ s[x] \in Range(s)
      /\ \A x, y \in 1..n : s[x] = s[y] => x = y
      /\ \A i \in Range(s) : \E x \in 1..n : i = s[x]
  BY Places
<1>3. t \in Seq(Item) /\ Len(t) = n - 1 /\ \A x \in 1..(n - 1) : t[x] = IF x < k THEN s[x] ELSE s[x + 1]
  <2> DEFINE a == SubSeq(s, 1, k - 1)
             b == SubSeq(s, k + 1, n)
  <2>1. a \in Seq(Item) /\ Len(a) = k - 1 /\ \A x \in 1..(k - 1) : a[x] = s[x]
    BY <1>1
  <2>2. b \in Seq(Item) /\ Len(b) = n - k /\ \A x \in 1..(n - k) : b[x] = s[k + x]
    BY <1>1
  <2> HIDE DEF a, b
  <2>3. a \o b \in Seq(Item) /\ Len(a \o b) = n - 1
    <3>1. Len(a) + Len(b) = n - 1
      BY <1>1, <2>1, <2>2
    <3>2. a \o b \in Seq(Item) /\ Len(a \o b) = Len(a) + Len(b)
      BY <2>1, <2>2, Joined
    <3>3. QED
      BY <3>1, <3>2
  <2>4. ASSUME NEW x \in 1..(n - 1)
        PROVE  (a \o b)[x] = IF x < k THEN s[x] ELSE s[x + 1]
    <3>1. CASE x < k
      <4>1. x \in 1..(k - 1)
        BY <1>1, <3>1
      <4>2. (a \o b)[x] = a[x]
        BY <2>1, <2>2, <4>1, Joined
      <4>3. QED
        BY <2>1, <3>1, <4>1, <4>2
    <3>2. CASE x >= k
      <4> DEFINE y == x - (k - 1)
      <4>1. y \in 1..(n - k) /\ (k - 1) + y = x /\ k + y = x + 1 /\ ~(x < k)
        BY <1>1, <3>2
      <4> HIDE DEF y
      <4>2. (a \o b)[(k - 1) + y] = b[y]
        BY <2>1, <2>2, <4>1, Joined
      <4>3. QED
        BY <2>2, <4>1, <4>2
    <3>3. x < k \/ x >= k
      BY <1>1
    <3>4. QED
      BY <3>1, <3>2, <3>3
  <2>5. t = a \o b
    BY DEF RemoveAt, a, b
  <2>6. QED
    BY <2>3, <2>4, <2>5
<1> HIDE DEF t
<1>4. IsInjective(t)
  <2>1. ASSUME NEW x \in 1..(n - 1), NEW y \in 1..(n - 1), t[x] = t[y]
        PROVE  x = y
    <3>1. /\ x \in 1..n /\ x + 1 \in 1..n /\ y \in 1..n /\ y + 1 \in 1..n
          /\ x \in Nat /\ y \in Nat
      BY <1>1
    <3>2. (IF x < k THEN s[x] ELSE s[x + 1]) = (IF y < k THEN s[y] ELSE s[y + 1])
      BY <1>3, <2>1
    <3>3. (IF x < k THEN x ELSE x + 1) = (IF y < k THEN y ELSE y + 1)
      BY <1>2, <3>1, <3>2
    <3>4. QED
      BY <1>1, <3>1, <3>3
  <2>2. DOMAIN t = 1..(n - 1)
    BY <1>3
  <2>3. QED
    BY <2>1, <2>2 DEF IsInjective
<1>5. Range(t) = Range(s) \ {s[k]}
  <2>1. DOMAIN t = 1..(n - 1)
    BY <1>3
  <2>2. ASSUME NEW x \in 1..(n - 1)
        PROVE  t[x] \in Range(s) \ {s[k]}
    <3>2. CASE x < k
      <4>1. x \in 1..n /\ x # k
        BY <1>1, <3>2
      <4>2. QED
        BY <1>2, <1>3, <3>2, <4>1
    <3>3. CASE ~(x < k)
      <4>1. x + 1 \in 1..n /\ x + 1 # k
        BY <1>1, <3>3
      <4>2. QED
        BY <1>2, <1>3, <3>3, <4>1
    <3>4. QED
      BY <3>2, <3>3
  <2>3. ASSUME NEW x \in 1..n, x # k
        PROVE  s[x] \in Range(t)
    <3>1. CASE x < k
      <4>1. x \in 1..(n - 1) /\ t[x] = s[x]
        BY <1>1, <1>3, <3>1
      <4>2. QED
        BY <2>1, <4>1 DEF Range
    <3>2. CASE x > k
      <4>1. x - 1 \in 1..(n - 1) /\ ~(x - 1 < k) /\ (x - 1) + 1 = x
        BY <1>1, <3>2
      <4>2. t[x - 1] = s[x]
        BY <1>3, <4>1
      <4>3. QED
        BY <2>1, <4>1, <4>2 DEF Range
    <3>3. QED
      BY <1>1, <2>3, <3>1, <3>2
  <2>4. QED
    BY <1>2, <2>1, <2>2, <2>3 DEF Range
<1>6. QED
  BY <1>3, <1>4, <1>5 DEF t

Whole(s) == IsWhole(s, child, next, prev, In("listed"))

\* cJSON_DetachItemViaPointer removes.
LEMMA DetachWhole ==
    ASSUME NEW s, Whole(s), NEW k \in 1..Len(s), DetachItemViaPointer(s[k])
    PROVE  IsWhole(RemoveAt(s, k), child', next', prev', In("listed") \ {s[k]})
<1> DEFINE t == RemoveAt(s, k)
           n == Len(s)
           i == s[k]
           Cell == Item \union {NoItem}
<1>1. s \in Seq(Item) /\ IsInjective(s) /\ Range(s) = In("listed")
  BY DEF Whole, IsWhole
<1>2. /\ n \in Nat /\ k \in 1..n /\ n # 0 /\ k \in Nat
      /\ \A x \in 1..n : s[x] \in Item /\ s[x] # NoItem /\ s[x] \in In("listed")
      /\ \A x, y \in 1..n : s[x] = s[y] => x = y
  BY <1>1, Places
<1>3. /\ t \in Seq(Item) /\ IsInjective(t) /\ Len(t) = n - 1
      /\ \A x \in 1..(n - 1) : t[x] = IF x < k THEN s[x] ELSE s[x + 1]
      /\ Range(t) = In("listed") \ {i}
  BY <1>1, RemovedList
<1>4. /\ next \in [Item -> Cell] /\ prev \in [Item -> Cell]
      /\ \A x \in 1..n : next[s[x]] = IF x < n THEN s[x + 1] ELSE NoItem
      /\ \A x \in 2..n : prev[s[x]] = s[x - 1]
      /\ prev[s[1]] \in {NoItem, s[n]}
      /\ child = s[1]
      /\ \A j \in Item \ In("listed") : next[j] = NoItem /\ prev[j] = NoItem
  BY <1>1, <1>2, Places DEF Whole, IsWhole, Chain
<1> HIDE DEF t
<1>5. /\ next[i] = NoItem <=> k = n
      /\ i = child <=> k = 1
      /\ k < n => next[i] = s[k + 1] /\ k + 1 \in 1..n
      /\ k > 1 => prev[i] = s[k - 1] /\ k - 1 \in 1..n
      /\ 1 \in 1..n /\ n \in 1..n /\ i \in Item
  <2>1. 1 \in 1..n /\ n \in 1..n
    BY <1>2
  <2>2. k < n => next[i] = s[k + 1] /\ k + 1 \in 1..n
    BY <1>2, <1>4
  <2>3. k = n => next[i] = NoItem
    BY <1>2, <1>4
  <2>4. next[i] = NoItem <=> k = n
    BY <1>2, <2>2, <2>3
  <2>5. k > 1 => prev[i] = s[k - 1] /\ k - 1 \in 1..n
    BY <1>2, <1>4
  <2>6. i = child <=> k = 1
    BY <1>2, <1>4, <2>1
  <2>7. QED
    BY <1>2, <2>1, <2>2, <2>4, <2>5, <2>6
<1>6. /\ next' \in [Item -> Cell]
      /\ next'[i] = NoItem
      /\ k > 1 => next'[s[k - 1]] = next[i]
      /\ \A j \in Item : (j # i /\ (k > 1 => j # s[k - 1])) => next'[j] = next[j]
  <2>0. next' = IF i = child THEN [next EXCEPT ![i] = NoItem]
                ELSE [next EXCEPT ![prev[i]] = next[i], ![i] = NoItem]
    BY DEF DetachItemViaPointer
  <2>1. CASE k = 1
    <3>1. i = child
      BY <1>5, <2>1
    <3>2. next' = [next EXCEPT ![i] = NoItem]
      BY <2>0, <3>1
    <3>3. QED
      BY <1>4, <1>5, <2>1, <3>2
  <2>2. CASE k > 1
    <3>1. next' = [next EXCEPT ![s[k - 1]] = next[i], ![i] = NoItem]
      <4>1. i # child /\ prev[i] = s[k - 1]
        BY <1>2, <1>5, <2>2
      <4>2. QED
        BY <2>0, <4>1
    <3>2. s[k - 1] # i /\ s[k - 1] \in Item /\ next[i] \in Cell
      BY <1>2, <1>4, <1>5, <2>2
    <3>3. QED
      BY <1>4, <1>5, <2>2, <3>1, <3>2
  <2>3. QED
    BY <1>2, <2>1, <2>2
<1>7. /\ prev' \in [Item -> Cell]
      /\ prev'[i] = NoItem
      /\ k < n => prev'[s[k + 1]] = prev[i]
      /\ (k = n /\ k > 1) => prev'[child] = prev[i]
      /\ \A j \in Item : (/\ j # i
                          /\ (k < n => j # s[k + 1])
                          /\ ((k = n /\ k > 1) => j # child)) => prev'[j] = prev[j]
  <2>1. CASE k < n
    <3>1. prev' = [prev EXCEPT ![s[k + 1]] = prev[i], ![i] = NoItem]
      BY <1>2, <1>5, <2>1 DEF DetachItemViaPointer
    <3>2. s[k + 1] # i /\ s[k + 1] \in Item /\ prev[i] \in Cell
      BY <1>2, <1>4, <1>5, <2>1
    <3>3. QED
      BY <1>4, <1>5, <2>1, <3>1, <3>2
  <2>2. CASE k = n /\ k > 1
    <3>1. prev' = [prev EXCEPT ![child] = prev[i], ![i] = NoItem]
      BY <1>2, <1>5, <2>2 DEF DetachItemViaPointer
    <3>2. child # i /\ child \in Item /\ prev[i] \in Cell
      BY <1>2, <1>4, <1>5, <2>2
    <3>3. QED
      BY <1>4, <1>5, <2>2, <3>1, <3>2
  <2>3. CASE k = n /\ k = 1
    <3>1. prev' = [prev EXCEPT ![i] = NoItem]
      BY <1>2, <1>5, <2>3 DEF DetachItemViaPointer
    <3>2. QED
      BY <1>4, <1>5, <2>3, <3>1
  <2>4. QED
    BY <1>2, <2>1, <2>2, <2>3
<1>8. child' = IF k = 1 THEN next[i] ELSE child
  BY <1>5 DEF DetachItemViaPointer
<1>9. Chain(t, child', next')
  <2>1. child' = IF t = <<>> THEN NoItem ELSE t[1]
    <3>1. CASE n = 1
      <4>1. t = <<>> /\ k = 1
        BY <1>2, <1>3, <3>1
      <4>2. QED
        BY <1>5, <1>8, <3>1, <4>1
    <3>2. CASE n > 1
      <4>1. t # <<>> /\ 1 \in 1..(n - 1)
        BY <1>2, <1>3, <3>2
      <4>2. t[1] = IF 1 < k THEN s[1] ELSE s[2]
        BY <1>3, <4>1
      <4>3. CASE k = 1
        BY <1>5, <1>8, <3>2, <4>1, <4>2, <4>3
      <4>4. CASE k > 1
        BY <1>4, <1>8, <4>1, <4>2, <4>4
      <4>5. QED
        BY <1>2, <4>3, <4>4
    <3>3. n = 1 \/ n > 1
      <4>1. n \in Nat /\ n # 0
        BY <1>2
      <4>2. QED
        BY <4>1
    <3>4. QED
      BY <3>1, <3>2, <3>3
  <2>2. ASSUME NEW x \in 1..(n - 1)
        PROVE  next'[t[x]] = IF x < n - 1 THEN t[x + 1] ELSE NoItem
    <3>1. x \in 1..n /\ x + 1 \in 1..n /\ x \in Nat /\ (x < n - 1 => x + 1 \in 1..(n - 1) /\ x + 2 \in 1..n)
      BY <1>2
    <3>2. CASE x + 1 < k
      <4>1. t[x] = s[x] /\ t[x + 1] = s[x + 1] /\ x < n - 1 /\ x < n /\ x # k /\ x # k - 1
        BY <1>2, <1>3, <3>1, <3>2
      <4>2. s[x] # i /\ (k > 1 => s[x] # s[k - 1]) /\ s[x] \in Item
        BY <1>2, <1>5, <3>1, <4>1
      <4>3. next'[s[x]] = s[x + 1]
        BY <1>4, <1>6, <3>1, <4>1, <4>2
      <4>4. QED
        BY <4>1, <4>3
    <3>3. CASE x + 1 = k
      <4>1. t[x] = s[k - 1] /\ k > 1 /\ next'[t[x]] = next[i]
        BY <1>2, <1>3, <1>6, <3>1, <3>3
      <4>2. CASE k < n
        <5>1. x < n - 1 /\ t[x + 1] = s[k + 1]
          BY <1>2, <1>3, <3>1, <3>3, <4>2
        <5>2. QED
          BY <1>5, <4>1, <4>2, <5>1
      <4>3. CASE k = n
        BY <1>2, <1>5, <3>1, <3>3, <4>1, <4>3
      <4>4. QED
        BY <1>2, <4>2, <4>3
    <3>4. CASE x >= k
      <4>1. t[x] = s[x + 1] /\ x + 1 # k /\ x + 1 # k - 1 /\ (x < n - 1 => t[x + 1] = s[x + 2])
        <5>1. ~(x < k) /\ ~(x + 1 < k) /\ (x + 1) + 1 = x + 2 /\ x + 1 # k /\ x + 1 # k - 1
          BY <1>2, <3>1, <3>4
        <5>2. QED
          BY <1>3, <3>1, <5>1
      <4>2. s[x + 1] # i /\ (k > 1 => s[x + 1] # s[k - 1]) /\ s[x + 1] \in Item
        BY <1>2, <1>5, <3>1, <4>1
      <4>3. next'[s[x + 1]] = IF x + 1 < n THEN s[(x + 1) + 1] ELSE NoItem
        BY <1>4, <1>6, <3>1, <4>2
      <4>4. (x + 1) + 1 = x + 2 /\ (x + 1 < n <=> x < n - 1)
        BY <1>2, <3>1
      <4>5. QED
        BY <4>1, <4>3, <4>4
    <3>5. QED
      BY <1>2, <3>1, <3>2, <3>3, <3>4
  <2>3. QED
    BY <1>3, <2>1, <2>2 DEF Chain
<1>10. ASSUME NEW x \in 2..(n - 1)
       PROVE  prev'[t[x]] = t[x - 1]
  <2>1. /\ x \in 1..n /\ x + 1 \in 2..n /\ x + 1 \in 1..n /\ x - 1 \in 1..n /\ x \in Nat /\ x \in 2..n
        /\ x \in 1..(n - 1) /\ x - 1 \in 1..(n - 1)
    BY <1>2
  <2>2. CASE x < k
    <3>1. t[x] = s[x] /\ t[x - 1] = s[x - 1] /\ x # k /\ x # k + 1 /\ x # 1
      BY <1>2, <1>3, <2>1, <2>2
    <3>2. s[x] # i /\ (k < n => s[x] # s[k + 1]) /\ s[x] # child /\ s[x] \in Item
      BY <1>2, <1>4, <1>5, <2>1, <3>1
    <3>3. prev'[s[x]] = s[x - 1]
      BY <1>4, <1>7, <2>1, <3>2
    <3>4. QED
      BY <3>1, <3>3
  <2>3. CASE x = k
    <3>1. t[x] = s[k + 1] /\ t[x - 1] = s[k - 1] /\ k < n /\ k > 1
      BY <1>2, <1>3, <2>1, <2>3
    <3>2. QED
      BY <1>5, <1>7, <3>1
  <2>4. CASE x > k
    <3>1. /\ t[x] = s[x + 1] /\ t[x - 1] = s[x] /\ x + 1 # k /\ x + 1 # k + 1 /\ x + 1 # 1
      <4>1. ~(x - 1 < k) /\ (x - 1) + 1 = x /\ ~(x < k)
        BY <1>2, <2>1, <2>4
      <4>2. t[x] = s[x + 1] /\ t[x - 1] = s[x]
        BY <1>3, <2>1, <4>1
      <4>3. QED
        BY <1>2, <2>1, <2>4, <4>2
    <3>2. s[x + 1] # i /\ (k < n => s[x + 1] # s[k + 1]) /\ s[x + 1] # child /\ s[x + 1] \in Item
      BY <1>2, <1>4, <1>5, <2>1, <3>1
    <3>3. (x + 1) - 1 = x
      BY <2>1
    <3>4. prev'[s[x + 1]] = s[x]
      BY <1>4, <1>7, <2>1, <3>2, <3>3
    <3>5. QED
      BY <3>1, <3>4
  <2>5. QED
    BY <1>2, <2>1, <2>2, <2>3, <2>4
<1>11. t # <<>> => prev'[t[1]] \in {NoItem, t[n - 1]}
  <2> SUFFICES ASSUME t # <<>>
               PROVE  prev'[t[1]] \in {NoItem, t[n - 1]}
    OBVIOUS
  <2>1. n > 1 /\ 1 \in 1..(n - 1) /\ n - 1 \in 1..(n - 1) /\ n - 1 \in 1..n
    BY <1>2, <1>3
  <2>2. t[1] = (IF 1 < k THEN s[1] ELSE s[2]) /\ t[n - 1] = IF n - 1 < k THEN s[n - 1] ELSE s[n]
    <3>1. (n - 1) + 1 = n /\ 1 + 1 = 2
      BY <1>2
    <3>2. QED
      BY <1>3, <2>1, <3>1
  <2>3. CASE k = 1
    <3>1. t[1] = s[k + 1] /\ k < n /\ t[n - 1] = s[n]
      BY <1>2, <2>1, <2>2, <2>3
    <3>2. QED
      BY <1>4, <1>7, <2>3, <3>1
  <2>4. CASE k > 1 /\ k = n
    <3>1. t[1] = child /\ t[n - 1] = s[k - 1]
      BY <1>2, <1>4, <2>2, <2>4
    <3>2. QED
      BY <1>5, <1>7, <2>4, <3>1
  <2>5. CASE k > 1 /\ k < n
    <3>1. t[1] = s[1] /\ t[n - 1] = s[n] /\ 1 # k /\ 1 # k + 1
      BY <1>2, <2>2, <2>5
    <3>2. s[1] # i /\ s[1] # s[k + 1]
      BY <1>2, <1>5, <2>5, <3>1
    <3>3. prev'[s[1]] = prev[s[1]]
      BY <1>2, <1>5, <1>7, <2>5, <3>2
    <3>4. QED
      BY <1>4, <3>1, <3>3
  <2>6. QED
    BY <1>2, <2>3, <2>4, <2>5
<1>12. \A j \in Item \ (In("listed") \ {i}) : next'[j] = NoItem /\ prev'[j] = NoItem
  <2> TAKE j \in Item \ (In("listed") \ {i})
  <2>1. CASE j = i
    BY <1>6, <1>7, <2>1
  <2>2. CASE j \notin In("listed")
    <3>1. j # i /\ (k > 1 => j # s[k - 1]) /\ (k < n => j # s[k + 1]) /\ j # child
      BY <1>2, <1>4, <1>5, <2>2
    <3>2. QED
      BY <1>4, <1>6, <1>7, <2>2, <3>1
  <2>3. QED
    BY <2>1, <2>2
<1>13. QED
  BY <1>3, <1>6, <1>7, <1>9, <1>10, <1>11, <1>12 DEF IsWhole, t

\* The sequence that InsertAt makes.
LEMMA InsertedList ==
    ASSUME NEW s \in Seq(Item), IsInjective(s), NEW k \in 1..Len(s), NEW i \in Item \ Range(s)
    PROVE  /\ InsertAt(s, k, i) \in Seq(Item) /\ IsInjective(InsertAt(s, k, i))
           /\ Len(InsertAt(s, k, i)) = Len(s) + 1
           /\ \A x \in 1..(Len(s) + 1) :
                  InsertAt(s, k, i)[x] = IF x < k THEN s[x] ELSE IF x = k THEN i ELSE s[x - 1]
           /\ Range(InsertAt(s, k, i)) = Range(s) \union {i}
<1> DEFINE t == InsertAt(s, k, i)
           n == Len(s)
<1>1. n \in Nat /\ k \in Nat /\ 1 <= k /\ k <= n
  OBVIOUS
<1>2. /\ \A x \in 1..n : s[x] \in Item /\ s[x] \in Range(s) /\ s[x] # i
      /\ \A x, y \in 1..n : s[x] = s[y] => x = y
      /\ \A j \in Range(s) : \E x \in 1..n : j = s[x]
  BY Places
<1>3. /\ t \in Seq(Item) /\ Len(t) = n + 1
      /\ \A x \in 1..(n + 1) : t[x] = IF x < k THEN s[x] ELSE IF x = k THEN i ELSE s[x - 1]
  <2> DEFINE a == SubSeq(s, 1, k - 1)
             c == a \o <<i>>
             b == SubSeq(s, k, n)
  <2>1. a \in Seq(Item) /\ Len(a) = k - 1 /\ \A x \in 1..(k - 1) : a[x] = s[x]
    BY <1>1
  <2>2. b \in Seq(Item) /\ Len(b) = n - k + 1 /\ \A x \in 1..(n - k + 1) : b[x] = s[k - 1 + x]
    BY <1>1
  <2>3. t = c \o b
    BY DEF InsertAt
  <2> HIDE DEF a, b
  <2>4. c \in Seq(Item) /\ Len(c) = k /\ \A x \in 1..k : c[x] = IF x < k THEN s[x] ELSE i
    <3>1. <<i>> \in Seq(Item) /\ Len(<<i>>) = 1 /\ <<i>>[1] = i
      OBVIOUS
    <3>2. c \in Seq(Item) /\ Len(c) = Len(a) + 1 /\ \A x \in 1..Len(a) : c[x] = a[x]
      BY <2>1, <3>1, Joined
    <3>3. c[Len(a) + 1] = i
      BY <2>1
    <3>4. Len(c) = k /\ c[k] = i
      <4>1. Len(a) + 1 = k
        BY <1>1, <2>1
      <4>2. QED
        BY <3>2, <3>3, <4>1
    <3>5. ASSUME NEW x \in 1..k
          PROVE  c[x] = IF x < k THEN s[x] ELSE i
      <4>1. x \in 1..(k - 1) \/ x = k
        BY <1>1
      <4>2. CASE x \in 1..(k - 1)
        <5>1. x < k
          BY <1>1, <4>2
        <5>2. QED
          BY <2>1, <3>2, <4>2, <5>1
      <4>3. CASE x = k
        BY <1>1, <3>4, <4>3
      <4>4. QED
        BY <4>1, <4>2, <4>3
    <3>6. QED
      BY <3>2, <3>4, <3>5
  <2> HIDE DEF c
  <2>5. c \o b \in Seq(Item) /\ Len(c \o b) = n + 1
    <3>1. Len(c) + Len(b) = n + 1
      BY <1>1, <2>2, <2>4
    <3>2. c \o b \in Seq(Item) /\ Len(c \o b) = Len(c) + Len(b)
      BY <2>2, <2>4, Joined
    <3>3. QED
      BY <3>1, <3>2
  <2>6. ASSUME NEW x \in 1..(n + 1)
        PROVE  (c \o b)[x] = IF x < k THEN s[x] ELSE IF x = k THEN i ELSE s[x - 1]
    <3>1. CASE x \in 1..k
      <4>1. (c \o b)[x] = c[x]
        BY <2>2, <2>4, <3>1, Joined
      <4>2. (x < k \/ x = k) /\ ~(k < k)
        BY <1>1, <3>1
      <4>3. QED
        BY <2>4, <3>1, <4>1, <4>2
    <3>2. CASE x > k
      <4> DEFINE y == x - k
      <4>1. y \in 1..(n - k + 1) /\ k + y = x /\ k - 1 + y = x - 1 /\ ~(x < k) /\ x # k
        BY <1>1, <3>2
      <4> HIDE DEF y
      <4>2. (c \o b)[k + y] = b[y]
        BY <2>2, <2>4, <4>1, Joined
      <4>3. QED
        BY <2>2, <4>1, <4>2
    <3>3. x \in 1..k \/ x > k
      BY <1>1
    <3>4. QED
      BY <3>1, <3>2, <3>3
  <2>7. QED
    BY <2>3, <2>5, <2>6
<1> HIDE DEF t
<1>4. DOMAIN t = 1..(n + 1)
  BY <1>3
<1>5. IsInjective(t)
  <2>1. ASSUME NEW x \in 1..(n + 1), NEW y \in 1..(n + 1), t[x] = t[y]
        PROVE  x = y
    <3>1. /\ x < k => x \in 1..n
          /\ x > k => x - 1 \in 1..n
          /\ y < k => y \in 1..n
          /\ y > k => y - 1 \in 1..n
          /\ x \in Nat /\ y \in Nat
      BY <1>1
    <3>2. (IF x < k THEN s[x] ELSE IF x = k THEN i ELSE s[x - 1])
            = (IF y < k THEN s[y] ELSE IF y = k THEN i ELSE s[y - 1])
      BY <1>3, <2>1
    <3>3. CASE x = k
      BY <1>1, <1>2, <3>1, <3>2, <3>3
    <3>4. CASE y = k
      BY <1>1, <1>2, <3>1, <3>2, <3>4
    <3>5. CASE x # k /\ y # k
      <4>1. (IF x < k THEN x ELSE x - 1) = (IF y < k THEN y ELSE y - 1)
        BY <1>1, <1>2, <3>1, <3>2, <3>5
      <4>2. QED
        BY <1>1, <3>1, <3>5, <4>1
    <3>6. QED
      BY <3>3, <3>4, <3>5
  <2>2. QED
    BY <1>4, <2>1 DEF IsInjective
<1>6. Range(t) = Range(s) \union {i}
  <2>1. ASSUME NEW x \in 1..(n + 1)
        PROVE  t[x] \in Range(s) \union {i}
    <3>1. /\ x < k => x \in 1..n
          /\ ~(x < k) /\ x # k => x - 1 \in 1..n
      BY <1>1
    <3>2. QED
      BY <1>2, <1>3, <3>1
  <2>2. ASSUME NEW x \in 1..n
        PROVE  s[x] \in Range(t)
    <3>1. CASE x < k
      <4>1. x \in 1..(n + 1)
        BY <1>1
      <4>2. t[x] = s[x]
        BY <1>3, <3>1, <4>1
      <4>3. QED
        BY <1>4, <4>1, <4>2 DEF Range
    <3>2. CASE x >= k
      <4>1. x + 1 \in 1..(n + 1) /\ ~(x + 1 < k) /\ x + 1 # k /\ (x + 1) - 1 = x
        BY <1>1, <3>2
      <4>2. t[x + 1] = s[x]
        BY <1>3, <4>1
      <4>3. QED
        BY <1>4, <4>1, <4>2 DEF Range
    <3>3. x < k \/ x >= k
      BY <1>1
    <3>4. QED
      BY <3>1, <3>2, <3>3
  <2>3. i \in Range(t)
    <3>1. k \in 1..(n + 1) /\ ~(k < k)
      BY <1>1
    <3>2. t[k] = i
      BY <1>3, <3>1
    <3>3. QED
      BY <1>4, <3>1, <3>2 DEF Range
  <2>4. Range(t) \subseteq Range(s) \union {i}
    BY <1>4, <2>1 DEF Range
  <2>5. Range(s) \subseteq Range(t)
    BY <1>2, <2>2
  <2>6. QED
    BY <2>3, <2>4, <2>5
<1>7. QED
  BY <1>3, <1>5, <1>6 DEF t

\* cJSON_InsertItemInArray before an item inserts.
LEMMA InsertWhole ==
    ASSUME NEW s, Whole(s), NEW k \in 1..Len(s), NEW i \in Item \ In("listed"),
           prev' = [prev EXCEPT ![i] = prev[s[k]], ![s[k]] = i],
           IF s[k] = child
           THEN child' = i /\ next' = [next EXCEPT ![i] = s[k]]
           ELSE next' = [next EXCEPT ![i] = s[k], ![prev[s[k]]] = i] /\ child' = child
    PROVE  IsWhole(InsertAt(s, k, i), child', next', prev', In("listed") \union {i})
<1> DEFINE t == InsertAt(s, k, i)
           n == Len(s)
           after == s[k]
           Cell == Item \union {NoItem}
<1>1. s \in Seq(Item) /\ IsInjective(s) /\ Range(s) = In("listed")
  BY DEF Whole, IsWhole
<1>2. /\ n \in Nat /\ k \in 1..n /\ n # 0 /\ k \in Nat
      /\ \A x \in 1..n : s[x] \in Item /\ s[x] # NoItem /\ s[x] \in In("listed") /\ s[x] # i
      /\ \A x, y \in 1..n : s[x] = s[y] => x = y
  BY <1>1, Places
<1>3. /\ t \in Seq(Item) /\ IsInjective(t) /\ Len(t) = n + 1
      /\ \A x \in 1..(n + 1) : t[x] = IF x < k THEN s[x] ELSE IF x = k THEN i ELSE s[x - 1]
      /\ Range(t) = In("listed") \union {i}
  BY <1>1, InsertedList
<1>4. /\ next \in [Item -> Cell] /\ prev \in [Item -> Cell]
      /\ \A x \in 1..n : next[s[x]] = IF x < n THEN s[x + 1] ELSE NoItem
      /\ \A x \in 2..n : prev[s[x]] = s[x - 1]
      /\ prev[s[1]] \in {NoItem, s[n]}
      /\ child = s[1]
      /\ \A j \in Item \ In("listed") : next[j] = NoItem /\ prev[j] = NoItem
  BY <1>1, <1>2, Places DEF Whole, IsWhole, Chain
<1> HIDE DEF t
<1>5. /\ after = child <=> k = 1
      /\ k > 1 => prev[after] = s[k - 1] /\ k - 1 \in 1..n
      /\ 1 \in 1..n /\ n \in 1..n /\ after \in Item /\ i \in Item /\ after # i
  <2>1. 1 \in 1..n /\ n \in 1..n
    BY <1>2
  <2>2. k > 1 => prev[after] = s[k - 1] /\ k - 1 \in 1..n
    BY <1>2, <1>4
  <2>3. after = child <=> k = 1
    BY <1>2, <1>4, <2>1
  <2>4. QED
    BY <1>2, <2>1, <2>2, <2>3
<1>6. /\ next' \in [Item -> Cell]
      /\ next'[i] = after
      /\ k > 1 => next'[s[k - 1]] = i
      /\ \A j \in Item : (j # i /\ (k > 1 => j # s[k - 1])) => next'[j] = next[j]
  <2>1. CASE k = 1
    <3>1. next' = [next EXCEPT ![i] = after]
      BY <1>5, <2>1
    <3>2. QED
      BY <1>4, <1>5, <2>1, <3>1
  <2>2. CASE k > 1
    <3>1. next' = [next EXCEPT ![i] = after, ![s[k - 1]] = i]
      BY <1>2, <1>5, <2>2
    <3>2. s[k - 1] # i /\ s[k - 1] \in Item
      BY <1>2, <1>5, <2>2
    <3>3. QED
      BY <1>4, <1>5, <2>2, <3>1, <3>2
  <2>3. QED
    BY <1>2, <2>1, <2>2
<1>7. /\ prev' \in [Item -> Cell]
      /\ prev'[i] = prev[after] /\ prev'[after] = i
      /\ \A j \in Item : j \notin {i, after} => prev'[j] = prev[j]
  BY <1>4, <1>5
<1>8. child' = IF k = 1 THEN i ELSE child
  BY <1>5
<1>9. child' = t[1] /\ t # <<>>
  <2>1. 1 \in 1..(n + 1) /\ (1 < k \/ k = 1)
    BY <1>2
  <2>2. QED
    BY <1>3, <1>4, <1>8, <2>1
<1>10. ASSUME NEW x \in 1..(n + 1)
       PROVE  next'[t[x]] = IF x < n + 1 THEN t[x + 1] ELSE NoItem
  <2>1. CASE x = k
    <3>1. /\ x < n + 1 /\ x + 1 \in 1..(n + 1) /\ ~(x + 1 < k) /\ x + 1 # k /\ (x + 1) - 1 = k
          /\ ~(x < k)
      BY <1>2, <2>1
    <3>2. t[x] = i /\ t[x + 1] = after
      BY <1>3, <2>1, <3>1
    <3>3. QED
      BY <1>6, <3>1, <3>2
  <2>2. CASE x + 1 = k
    <3>1. x < n + 1 /\ x + 1 \in 1..(n + 1) /\ x < k /\ ~(k < k) /\ k > 1 /\ x = k - 1
      BY <1>2, <2>2
    <3>2. t[x] = s[k - 1] /\ t[x + 1] = i
      BY <1>3, <2>2, <3>1
    <3>3. QED
      BY <1>6, <3>1, <3>2
  <2>3. CASE x + 1 < k
    <3>1. /\ x < n + 1 /\ x + 1 \in 1..(n + 1) /\ x < k /\ x # k /\ x # k - 1
          /\ x \in 1..n /\ x < n /\ k - 1 \in 1..n
      BY <1>2, <2>3
    <3>2. t[x] = s[x] /\ t[x + 1] = s[x + 1]
      BY <1>3, <2>3, <3>1
    <3>3. s[x] # s[k - 1] /\ s[x] # i /\ s[x] \in Item
      BY <1>2, <3>1
    <3>4. next'[s[x]] = s[x + 1]
      BY <1>4, <1>6, <3>1, <3>3
    <3>5. QED
      BY <3>1, <3>2, <3>4
  <2>4. CASE x > k
    <3>1. /\ ~(x < k) /\ x # k /\ x - 1 # k - 1 /\ x - 1 \in 1..n /\ (x < n + 1 <=> x - 1 < n)
          /\ (x - 1) + 1 = x
          /\ x < n + 1 => x + 1 \in 1..(n + 1) /\ ~(x + 1 < k) /\ x + 1 # k /\ (x + 1) - 1 = x
          /\ k > 1 => k - 1 \in 1..n
      BY <1>2, <2>4
    <3>2. t[x] = s[x - 1] /\ (x < n + 1 => t[x + 1] = s[x])
      BY <1>3, <3>1
    <3>3. (k > 1 => s[x - 1] # s[k - 1]) /\ s[x - 1] # i /\ s[x - 1] \in Item
      BY <1>2, <3>1
    <3>4. next'[s[x - 1]] = IF x - 1 < n THEN s[(x - 1) + 1] ELSE NoItem
      BY <1>4, <1>6, <3>1, <3>3
    <3>5. QED
      BY <3>1, <3>2, <3>4
  <2>5. x = k \/ x + 1 = k \/ x + 1 < k \/ x > k
    BY <1>2
  <2>6. QED
    BY <2>1, <2>2, <2>3, <2>4, <2>5
<1>11. ASSUME NEW x \in 2..(n + 1)
       PROVE  prev'[t[x]] = t[x - 1]
  <2>1. x \in 1..(n + 1) /\ x - 1 \in 1..(n + 1) /\ x - 1 \in 1..n
    BY <1>2
  <2>2. CASE x = k
    <3>1. ~(x < k) /\ x - 1 < k /\ k > 1
      BY <1>2, <2>2
    <3>2. t[x] = i /\ t[x - 1] = s[k - 1]
      BY <1>3, <2>1, <2>2, <3>1
    <3>3. QED
      BY <1>5, <1>7, <3>1, <3>2
  <2>3. CASE x - 1 = k
    <3>1. ~(x < k) /\ x # k /\ ~(x - 1 < k)
      BY <1>2, <2>3
    <3>2. t[x] = after /\ t[x - 1] = i
      BY <1>3, <2>1, <2>3, <3>1
    <3>3. QED
      BY <1>7, <3>2
  <2>4. CASE x < k
    <3>1. x \in 2..n /\ x \in 1..n /\ x - 1 < k /\ x # k
      BY <1>2, <2>4
    <3>2. t[x] = s[x] /\ t[x - 1] = s[x - 1]
      BY <1>3, <2>1, <2>4, <3>1
    <3>3. s[x] # i /\ s[x] # after /\ s[x] \in Item
      BY <1>2, <3>1
    <3>4. QED
      BY <1>4, <1>7, <3>1, <3>2, <3>3
  <2>5. CASE x - 1 > k
    <3>1. ~(x < k) /\ x # k /\ ~(x - 1 < k) /\ x - 1 # k /\ x - 1 \in 2..n
      BY <1>2, <2>5
    <3>2. t[x] = s[x - 1] /\ t[x - 1] = s[(x - 1) - 1]
      BY <1>3, <2>1, <3>1
    <3>3. s[x - 1] # i /\ s[x - 1] # after /\ s[x - 1] \in Item
      BY <1>2, <2>1, <3>1
    <3>4. QED
      BY <1>4, <1>7, <3>1, <3>2, <3>3
  <2>6. x = k \/ x - 1 = k \/ x < k \/ x - 1 > k
    BY <1>2
  <2>7. QED
    BY <2>2, <2>3, <2>4, <2>5, <2>6
<1>12. prev'[t[1]] \in {NoItem, t[n + 1]}
  <2>1. 1 \in 1..(n + 1) /\ n + 1 \in 1..(n + 1) /\ ~(n + 1 < k) /\ n + 1 # k /\ (n + 1) - 1 = n
    BY <1>2
  <2>2. t[n + 1] = s[n]
    BY <1>3, <2>1
  <2>3. CASE k = 1
    <3>1. t[1] = i
      BY <1>3, <2>1, <2>3
    <3>2. QED
      BY <1>4, <1>7, <2>2, <2>3, <3>1
  <2>4. CASE k > 1
    <3>1. t[1] = s[1] /\ s[1] # after /\ s[1] # i /\ s[1] \in Item
      BY <1>2, <1>3, <1>5, <2>1, <2>4
    <3>2. QED
      BY <1>4, <1>7, <2>2, <3>1
  <2>5. QED
    BY <1>2, <2>3, <2>4
<1>13. ASSUME NEW j \in Item \ (In("listed") \union {i})
       PROVE  next'[j] = NoItem /\ prev'[j] = NoItem
  <2>1. j \in Item /\ j # i /\ j # after /\ (k > 1 => j # s[k - 1])
    BY <1>2, <1>5
  <2>2. QED
    BY <1>4, <1>6, <1>7, <2>1
<1>14. Chain(t, child', next')
  BY <1>3, <1>9, <1>10 DEF Chain
<1>15. QED
  BY <1>3, <1>6, <1>7, <1>11, <1>12, <1>13, <1>14 DEF IsWhole, t

\* The sequence that ReplaceAt makes.
LEMMA ReplacedList ==
    ASSUME NEW s \in Seq(Item), IsInjective(s), NEW k \in 1..Len(s), NEW r \in Item \ Range(s)
    PROVE  /\ ReplaceAt(s, k, r) \in Seq(Item) /\ IsInjective(ReplaceAt(s, k, r))
           /\ Len(ReplaceAt(s, k, r)) = Len(s)
           /\ \A x \in 1..Len(s) : ReplaceAt(s, k, r)[x] = IF x = k THEN r ELSE s[x]
           /\ Range(ReplaceAt(s, k, r)) = (Range(s) \ {s[k]}) \union {r}
<1> DEFINE t == ReplaceAt(s, k, r)
           n == Len(s)
<1>1. /\ \A x \in 1..n : s[x] \in Item /\ s[x] \in Range(s) /\ s[x] # r
      /\ \A x, y \in 1..n : s[x] = s[y] => x = y
      /\ \A j \in Range(s) : \E x \in 1..n : j = s[x]
      /\ n \in Nat
  BY Places
<1>2. /\ t \in Seq(Item) /\ Len(t) = n /\ DOMAIN t = 1..n
      /\ \A x \in 1..n : t[x] = IF x = k THEN r ELSE s[x]
  <2>1. t = [x \in 1..n |-> IF x = k THEN r ELSE s[x]]
    BY DEF ReplaceAt
  <2>2. \A x \in 1..n : (IF x = k THEN r ELSE s[x]) \in Item
    BY <1>1
  <2> HIDE DEF t
  <2>3. t \in [1..n -> Item]
    BY <2>1, <2>2
  <2>4. QED
    BY <1>1, <2>1, <2>3
<1> HIDE DEF t
<1>3. IsInjective(t)
  <2>1. ASSUME NEW x \in 1..n, NEW y \in 1..n, t[x] = t[y]
        PROVE  x = y
    BY <1>1, <1>2, <2>1
  <2>2. QED
    BY <1>2, <2>1 DEF IsInjective
<1>4. Range(t) \subseteq (Range(s) \ {s[k]}) \union {r}
  BY <1>1, <1>2 DEF Range
<1>5. (Range(s) \ {s[k]}) \union {r} \subseteq Range(t)
  <2>1. ASSUME NEW x \in 1..n
        PROVE  t[x] \in Range(t)
    BY <1>2 DEF Range
  <2>2. r = t[k]
    BY <1>2
  <2>3. ASSUME NEW j \in Range(s), j # s[k]
        PROVE  j \in Range(t)
    BY <1>1, <1>2, <2>1, <2>3
  <2>4. QED
    BY <2>1, <2>2, <2>3
<1>6. QED
  BY <1>2, <1>3, <1>4, <1>5 DEF t

\* cJSON_ReplaceItemViaPointer replaces.
LEMMA ReplaceWhole ==
    ASSUME NEW s, Whole(s), NEW k \in 1..Len(s), NEW r \in Item \ In("listed"),
           ReplaceItemViaPointer(s[k], r)
    PROVE  IsWhole(ReplaceAt(s, k, r), child', next', prev', (In("listed") \ {s[k]}) \union {r})
<1> DEFINE t == ReplaceAt(s, k, r)
           n == Len(s)
           i == s[k]
           Cell == Item \union {NoItem}
           p1 == [prev EXCEPT ![r] = prev[i]]
           p2 == IF next[i] = NoItem THEN p1 ELSE [p1 EXCEPT ![next[i]] = r]
           n1 == [next EXCEPT ![r] = next[i]]
<1>1. s \in Seq(Item) /\ IsInjective(s) /\ Range(s) = In("listed")
  BY DEF Whole, IsWhole
<1>2. /\ n \in Nat /\ k \in 1..n /\ n # 0 /\ k \in Nat
      /\ \A x \in 1..n : s[x] \in Item /\ s[x] # NoItem /\ s[x] \in In("listed") /\ s[x] # r
      /\ \A x, y \in 1..n : s[x] = s[y] => x = y
  BY <1>1, Places
<1>3. /\ t \in Seq(Item) /\ IsInjective(t) /\ Len(t) = n
      /\ \A x \in 1..n : t[x] = IF x = k THEN r ELSE s[x]
      /\ Range(t) = (In("listed") \ {i}) \union {r}
  BY <1>1, ReplacedList
<1>4. /\ next \in [Item -> Cell] /\ prev \in [Item -> Cell]
      /\ \A x \in 1..n : next[s[x]] = IF x < n THEN s[x + 1] ELSE NoItem
      /\ \A x \in 2..n : prev[s[x]] = s[x - 1]
      /\ prev[s[1]] \in {NoItem, s[n]}
      /\ child = s[1]
      /\ \A j \in Item \ In("listed") : next[j] = NoItem /\ prev[j] = NoItem
  BY <1>1, <1>2, Places DEF Whole, IsWhole, Chain
<1> HIDE DEF t
<1>5. /\ next[i] = NoItem <=> k = n
      /\ i = child <=> k = 1
      /\ k < n => next[i] = s[k + 1] /\ k + 1 \in 1..n
      /\ k > 1 => prev[i] = s[k - 1] /\ k - 1 \in 1..n
      /\ 1 \in 1..n /\ n \in 1..n /\ i \in Item /\ r \in Item /\ i # r
  <2>1. 1 \in 1..n /\ n \in 1..n
    BY <1>2
  <2>2. k < n => next[i] = s[k + 1] /\ k + 1 \in 1..n
    BY <1>2, <1>4
  <2>3. k = n => next[i] = NoItem
    BY <1>2, <1>4
  <2>4. next[i] = NoItem <=> k = n
    BY <1>2, <2>2, <2>3
  <2>5. k > 1 => prev[i] = s[k - 1] /\ k - 1 \in 1..n
    BY <1>2, <1>4
  <2>6. i = child <=> k = 1
    BY <1>2, <1>4, <2>1
  <2>7. QED
    BY <1>2, <2>1, <2>2, <2>4, <2>5, <2>6
<1>6. /\ n1 \in [Item -> Cell] /\ n1[r] = next[i] /\ \A j \in Item \ {r} : n1[j] = next[j]
  BY <1>4, <1>5
<1>7. /\ p2 \in [Item -> Cell] /\ p2[r] = prev[i]
      /\ k < n => p2[s[k + 1]] = r
      /\ \A j \in Item \ {r} : (k < n => j # s[k + 1]) => p2[j] = prev[j]
      /\ p2[i] = prev[i]
  <2>1. p1 \in [Item -> Cell] /\ p1[r] = prev[i] /\ \A j \in Item \ {r} : p1[j] = prev[j]
    BY <1>4, <1>5
  <2> HIDE DEF p1
  <2>2. CASE k = n
    <3>1. p2 = p1
      BY <1>5, <2>2
    <3>2. ~(k < n)
      BY <1>2, <2>2
    <3>3. QED
      BY <1>5, <2>1, <3>1, <3>2
  <2>3. CASE k < n
    <3>1. p2 = [p1 EXCEPT ![s[k + 1]] = r]
      BY <1>2, <1>5, <2>3
    <3>2. s[k + 1] \in Item /\ s[k + 1] # r /\ s[k + 1] # i
      BY <1>2, <1>5, <2>3
    <3>3. QED
      BY <1>5, <2>1, <2>3, <3>1, <3>2
  <2>4. k = n \/ k < n
    BY <1>2
  <2>5. QED
    BY <2>2, <2>3, <2>4
<1>8. IF i = child
      THEN /\ child' = r
           /\ prev' = [p2 EXCEPT ![r] = IF p2[i] = i THEN r ELSE @, ![i] = NoItem]
           /\ next' = [n1 EXCEPT ![i] = NoItem]
      ELSE /\ next' = [n1 EXCEPT ![prev[i]] = r, ![i] = NoItem]
           /\ prev' = LET p3 == [p2 EXCEPT ![i] = NoItem]
                      IN  IF next[i] = NoItem THEN [p3 EXCEPT ![child] = r] ELSE p3
           /\ child' = child
  BY DEF ReplaceItemViaPointer
<1> HIDE DEF p1, p2, n1
<1>9. /\ next' \in [Item -> Cell] /\ next'[i] = NoItem /\ next'[r] = next[i]
      /\ k > 1 => next'[s[k - 1]] = r
      /\ \A j \in Item : (j \notin {i, r} /\ (k > 1 => j # s[k - 1])) => next'[j] = next[j]
  <2>1. CASE k = 1
    <3>1. next' = [n1 EXCEPT ![i] = NoItem]
      BY <1>5, <1>8, <2>1
    <3>2. ~(k > 1)
      BY <2>1
    <3>3. QED
      BY <1>5, <1>6, <3>1, <3>2
  <2>2. CASE k > 1
    <3>1. i # child /\ prev[i] = s[k - 1]
      BY <1>2, <1>5, <2>2
    <3>2. next' = [n1 EXCEPT ![s[k - 1]] = r, ![i] = NoItem]
      BY <1>8, <3>1
    <3>3. s[k - 1] \in Item /\ s[k - 1] # r /\ s[k - 1] # i
      BY <1>2, <1>5, <2>2
    <3>4. QED
      BY <1>5, <1>6, <2>2, <3>2, <3>3
  <2>3. k = 1 \/ k > 1
    BY <1>2
  <2>4. QED
    BY <2>1, <2>2, <2>3
<1>10. /\ prev' \in [Item -> Cell] /\ prev'[i] = NoItem
       /\ k > 1 => prev'[r] = s[k - 1]
       /\ k < n => prev'[s[k + 1]] = r
       /\ k = n /\ k > 1 => prev'[child] = r
       /\ k = 1 => prev'[r] = IF prev[i] = i THEN r ELSE prev[i]
       /\ \A j \in Item : (/\ j \notin {i, r}
                           /\ (k < n => j # s[k + 1])
                           /\ (k = n /\ k > 1 => j # child)) => prev'[j] = prev[j]
  <2>1. CASE k = 1
    <3>1. prev' = [p2 EXCEPT ![r] = IF p2[i] = i THEN r ELSE p2[r], ![i] = NoItem]
      BY <1>5, <1>8, <2>1
    <3>2. ~(k > 1) /\ (k < n => s[k + 1] \in Item /\ s[k + 1] # i /\ s[k + 1] # r)
      BY <1>2, <1>5, <2>1
    <3>3. /\ prev' \in [Item -> Cell] /\ prev'[i] = NoItem
          /\ prev'[r] = (IF prev[i] = i THEN r ELSE prev[i])
          /\ \A j \in Item : j \notin {i, r} => prev'[j] = p2[j]
      BY <1>5, <1>7, <3>1
    <3>4. QED
      BY <1>7, <2>1, <3>2, <3>3
  <2>2. CASE k > 1 /\ k = n
    <3>1. i # child /\ next[i] = NoItem
      BY <1>2, <1>5, <2>2
    <3>2. prev' = [[p2 EXCEPT ![i] = NoItem] EXCEPT ![child] = r]
      BY <1>8, <3>1
    <3>3. child \in Item /\ child # r /\ ~(k < n) /\ k # 1
      BY <1>2, <1>4, <1>5, <2>2
    <3>4. /\ prev' \in [Item -> Cell] /\ prev'[i] = NoItem /\ prev'[child] = r
          /\ \A j \in Item : j \notin {i, child} => prev'[j] = p2[j]
      BY <1>5, <1>7, <3>1, <3>2, <3>3
    <3>5. QED
      BY <1>5, <1>7, <2>2, <3>3, <3>4
  <2>3. CASE k > 1 /\ k < n
    <3>1. i # child /\ next[i] # NoItem
      BY <1>2, <1>5, <2>3
    <3>2. prev' = [p2 EXCEPT ![i] = NoItem]
      BY <1>8, <3>1
    <3>3. k # n /\ k # 1 /\ s[k + 1] \in Item /\ s[k + 1] # i /\ s[k + 1] # r
      BY <1>2, <1>5, <2>3
    <3>4. /\ prev' \in [Item -> Cell] /\ prev'[i] = NoItem
          /\ \A j \in Item : j # i => prev'[j] = p2[j]
      BY <1>5, <1>7, <3>2
    <3>5. QED
      BY <1>5, <1>7, <2>3, <3>3, <3>4
  <2>4. k = 1 \/ (k > 1 /\ k = n) \/ (k > 1 /\ k < n)
    BY <1>2
  <2>5. QED
    BY <2>1, <2>2, <2>3, <2>4
<1>11. child' = (IF k = 1 THEN r ELSE child)
  BY <1>5, <1>8
<1>12. child' = t[1] /\ t # <<>>
  BY <1>3, <1>4, <1>5, <1>11
<1>13. ASSUME NEW x \in 1..n
       PROVE  next'[t[x]] = IF x < n THEN t[x + 1] ELSE NoItem
  <2>1. x < n => x + 1 \in 1..n
    BY <1>2
  <2>2. CASE x = k
    <3>1. x < n => x + 1 # k
      BY <1>2, <2>2
    <3>2. t[x] = r /\ (x < n => t[x + 1] = s[x + 1])
      BY <1>3, <2>1, <2>2, <3>1
    <3>3. QED
      BY <1>4, <1>9, <2>2, <3>2
  <2>3. CASE x + 1 = k
    <3>1. x # k /\ x < n /\ k > 1 /\ x = k - 1
      BY <1>2, <2>3
    <3>2. t[x] = s[k - 1] /\ t[x + 1] = r
      BY <1>3, <2>1, <2>3, <3>1
    <3>3. QED
      BY <1>9, <3>1, <3>2
  <2>4. CASE x # k /\ x + 1 # k
    <3>1. x # k - 1
      BY <1>2, <2>4
    <3>2. t[x] = s[x] /\ (x < n => t[x + 1] = s[x + 1])
      BY <1>3, <2>1, <2>4
    <3>3. s[x] # i /\ s[x] # r /\ (k > 1 => s[x] # s[k - 1]) /\ s[x] \in Item
      BY <1>2, <1>5, <2>4, <3>1
    <3>4. QED
      BY <1>4, <1>9, <3>2, <3>3
  <2>5. QED
    BY <2>2, <2>3, <2>4
<1>14. ASSUME NEW x \in 2..n
       PROVE  prev'[t[x]] = t[x - 1]
  <2>1. x \in 1..n /\ x - 1 \in 1..n /\ x # 1
    BY <1>2
  <2>2. CASE x = k
    <3>1. x - 1 # k /\ k > 1
      BY <1>2, <2>2
    <3>2. t[x] = r /\ t[x - 1] = s[x - 1]
      BY <1>3, <2>1, <2>2, <3>1
    <3>3. QED
      BY <1>10, <2>2, <3>1, <3>2
  <2>3. CASE x - 1 = k
    <3>1. x # k /\ k < n /\ x = k + 1
      BY <1>2, <2>3
    <3>2. t[x] = s[k + 1] /\ t[x - 1] = r
      BY <1>3, <2>1, <2>3, <3>1
    <3>3. QED
      BY <1>10, <3>1, <3>2
  <2>4. CASE x # k /\ x - 1 # k
    <3>1. x # k + 1
      BY <1>2, <2>4
    <3>2. t[x] = s[x] /\ t[x - 1] = s[x - 1]
      BY <1>3, <2>1, <2>4
    <3>3. s[x] # i /\ s[x] # r /\ (k < n => s[x] # s[k + 1]) /\ s[x] # child /\ s[x] \in Item
      BY <1>2, <1>4, <1>5, <2>1, <2>4, <3>1
    <3>4. prev'[s[x]] = prev[s[x]]
      BY <1>10, <3>3
    <3>5. QED
      BY <1>4, <3>2, <3>4
  <2>5. QED
    BY <2>2, <2>3, <2>4
<1>15. prev'[t[1]] \in {NoItem, t[n]}
  <2>1. CASE k = 1 /\ n = 1
    <3>1. t[1] = r
      BY <1>3, <1>5, <2>1
    <3>2. prev[i] \in {NoItem, i}
      BY <1>4, <2>1
    <3>3. prev'[r] \in {NoItem, r}
      BY <1>10, <2>1, <3>2
    <3>4. QED
      BY <2>1, <3>1, <3>3
  <2>2. CASE k = 1 /\ n # 1
    <3>1. t[1] = r /\ t[n] = s[n] /\ s[n] # i
      BY <1>2, <1>3, <1>5, <2>2
    <3>2. prev[i] \in {NoItem, s[n]} /\ i # NoItem
      BY <1>2, <1>4, <2>2
    <3>3. QED
      BY <1>10, <2>2, <3>1, <3>2
  <2>3. CASE k > 1 /\ k = n
    <3>1. t[1] = child /\ t[n] = r
      BY <1>3, <1>4, <1>5, <2>3
    <3>2. QED
      BY <1>10, <2>3, <3>1
  <2>4. CASE k > 1 /\ k < n
    <3>1. 1 # k /\ n # k /\ 1 # k + 1 /\ k # n
      BY <1>2, <2>4
    <3>2. t[1] = s[1] /\ t[n] = s[n]
      BY <1>3, <1>5, <3>1
    <3>3. s[1] # i /\ s[1] # r /\ s[1] # s[k + 1] /\ s[1] \in Item
      BY <1>2, <1>5, <2>4, <3>1
    <3>4. prev'[s[1]] = prev[s[1]]
      BY <1>10, <3>1, <3>3
    <3>5. QED
      BY <1>4, <3>2, <3>4
  <2>5. (k = 1 /\ n = 1) \/ (k = 1 /\ n # 1) \/ (k > 1 /\ k = n) \/ (k > 1 /\ k < n)
    BY <1>2
  <2>6. QED
    BY <2>1, <2>2, <2>3, <2>4, <2>5
<1>16. ASSUME NEW j \in Item \ ((In("listed") \ {i}) \union {r})
       PROVE  next'[j] = NoItem /\ prev'[j] = NoItem
  <2>1. CASE j = i
    BY <1>9, <1>10, <2>1
  <2>2. CASE j \notin In("listed")
    <3>1. j \notin {i, r} /\ (k > 1 => j # s[k - 1]) /\ (k < n => j # s[k + 1]) /\ j # child
      BY <1>2, <1>4, <1>5, <2>2
    <3>2. QED
      BY <1>4, <1>9, <1>10, <2>2, <3>1
  <2>3. QED
    BY <2>1, <2>2
<1>17. Chain(t, child', next')
  BY <1>3, <1>12, <1>13 DEF Chain
<1>18. QED
  BY <1>3, <1>9, <1>10, <1>14, <1>15, <1>16, <1>17 DEF IsWhole, t

\* How the definitions of a list that is made at once find their way in it.
LEMMA Positions ==
    ASSUME NEW items \in Seq(Item), IsInjective(items), NEW x \in 1..Len(items)
    PROVE  /\ At(items, items[x]) = x
           /\ Contains(Front(items), items[x]) <=> x < Len(items)
           /\ Contains(Tail(items), items[x]) <=> x > 1
<1> DEFINE n == Len(items)
<1>1. n \in Nat /\ \A y, z \in 1..n : items[y] = items[z] => y = z
  BY Places
<1>2. At(items, items[x]) = x
  <2>1. DOMAIN items = 1..n
    OBVIOUS
  <2>2. QED
    BY <1>1, <2>1 DEF At
<1>3. Contains(Front(items), items[x]) <=> x < n
  <2>1. n - 1 \in Nat /\ 1 <= n /\ 1..(n - 1) \subseteq 1..n
    BY <1>1
  <2>2. Len(Front(items)) = n - 1 /\ \A y \in 1..(n - 1) : Front(items)[y] = items[y]
    <3> DEFINE m == n - 1
    <3>1. m \in Nat /\ 0 <= m /\ m <= n /\ Front(items) = SubSeq(items, 1, m)
      BY <1>1, <2>1 DEF Front
    <3> HIDE DEF m
    <3>2. Len(SubSeq(items, 1, m)) = m /\ \A y \in 1..m : SubSeq(items, 1, m)[y] = items[y]
      BY <3>1
    <3>3. QED
      BY <3>1, <3>2 DEF m
  <2>3. Contains(Front(items), items[x]) <=> \E y \in 1..(n - 1) : items[y] = items[x]
    BY <2>2 DEF Contains
  <2>4. (\E y \in 1..(n - 1) : items[y] = items[x]) <=> x \in 1..(n - 1)
    BY <1>1, <2>1
  <2>5. x \in 1..(n - 1) <=> x < n
    BY <1>1
  <2>6. QED
    BY <2>3, <2>4, <2>5
<1>4. Contains(Tail(items), items[x]) <=> x > 1
  <2>1. items # <<>> /\ n # 0
    BY <1>1
  <2>2. Len(Tail(items)) = n - 1 /\ \A y \in 1..(n - 1) : Tail(items)[y] = items[y + 1]
    BY <1>1, <2>1
  <2>3. ASSUME NEW y \in 1..Len(Tail(items)), Tail(items)[y] = items[x]
        PROVE  x > 1
    <3>1. y + 1 \in 1..n /\ items[y + 1] = items[x] /\ y + 1 > 1
      BY <1>1, <2>2, <2>3
    <3>2. QED
      BY <1>1, <3>1
  <2>4. ASSUME x > 1
        PROVE  \E y \in 1..Len(Tail(items)) : Tail(items)[y] = items[x]
    <3>1. x - 1 \in 1..(n - 1) /\ (x - 1) + 1 = x
      BY <1>1, <2>4
    <3>2. QED
      BY <2>2, <3>1
  <2>5. QED
    BY <2>3, <2>4 DEF Contains
<1>5. QED
  BY <1>2, <1>3, <1>4

\* Contains is membership of the range.
LEMMA Contained ==
    ASSUME NEW items \in Seq(Item), NEW i
    PROVE  /\ Contains(items, i) <=> i \in Range(items)
           /\ items # <<>> /\ i \notin Range(items) =>
                  ~Contains(Front(items), i) /\ ~Contains(Tail(items), i)
<1>1. Contains(items, i) <=> i \in Range(items)
  BY DEF Contains, Range
<1>2. ASSUME items # <<>>, NEW y \in 1..Len(Front(items)), Front(items)[y] = i
      PROVE  i \in Range(items)
  <2>1. Len(items) - 1 \in Nat /\ Len(items) \in Nat /\ 1 <= Len(items)
    BY <1>2
  <2>2. y \in 1..(Len(items) - 1) /\ Front(items)[y] = items[y]
    BY <2>1 DEF Front
  <2>3. y \in DOMAIN items
    BY <2>1, <2>2
  <2>4. QED
    BY <1>2, <2>2, <2>3 DEF Range
<1>3. ASSUME items # <<>>, NEW y \in 1..Len(Tail(items)), Tail(items)[y] = i
      PROVE  i \in Range(items)
  <2>1. y + 1 \in DOMAIN items /\ items[y + 1] = i
    BY <1>3
  <2>2. QED
    BY <2>1 DEF Range
<1>4. QED
  BY <1>1, <1>2, <1>3 DEF Contains

\* A list that is made at once, as cJSON_CreateIntArray and cJSON_Duplicate
\* make it, out of items without links.
LEMMA MadeWhole ==
    ASSUME NEW items \in Seq(Item), IsInjective(items), items # <<>>,
           NEW nx, NEW pv, \A i \in Item : nx[i] = NoItem /\ pv[i] = NoItem,
           NEW nx2, NEW pv2,
           nx2 = [i \in Item |-> IF Contains(Front(items), i)
                                 THEN items[At(items, i) + 1] ELSE nx[i]],
           pv2 = [i \in Item |-> IF Contains(Tail(items), i)
                                 THEN items[At(items, i) - 1] ELSE pv[i]]
    PROVE  IsWhole(items, items[1], nx2, pv2, Range(items))
<1> DEFINE n == Len(items)
           Cell == Item \union {NoItem}
<1>1. /\ n \in Nat /\ n # 0
      /\ \A x \in 1..n : items[x] \in Item
      /\ \A i \in Range(items) : \E x \in 1..n : i = items[x]
  BY Places
<1>2. \A x \in 1..n : nx2[items[x]] = IF x < n THEN items[x + 1] ELSE NoItem
  BY <1>1, Positions
<1>3. \A x \in 1..n : pv2[items[x]] = IF x > 1 THEN items[x - 1] ELSE NoItem
  BY <1>1, Positions
<1>4. \A i \in Item \ Range(items) : nx2[i] = NoItem /\ pv2[i] = NoItem
  BY Contained
<1>5. nx2 \in [Item -> Cell] /\ pv2 \in [Item -> Cell]
  <2>1. ASSUME NEW i \in Item
        PROVE  nx2[i] \in Cell /\ pv2[i] \in Cell
    <3>1. CASE i \in Range(items)
      <4>1. PICK x \in 1..n : i = items[x]
        BY <1>1, <3>1
      <4>2. (x < n => x + 1 \in 1..n) /\ (x > 1 => x - 1 \in 1..n)
        BY <1>1
      <4>3. QED
        BY <1>1, <1>2, <1>3, <4>1, <4>2
    <3>2. CASE i \notin Range(items)
      BY <1>4, <3>2
    <3>3. QED
      BY <3>1, <3>2
  <2>2. QED
    BY <2>1
<1>6. 1 \in 1..n /\ \A x \in 2..n : x \in 1..n /\ x > 1
  BY <1>1
<1>7. pv2[items[1]] = NoItem
  <2>1. ~(1 > 1)
    OBVIOUS
  <2>2. pv2[items[1]] = IF 1 > 1 THEN items[1 - 1] ELSE NoItem
    BY <1>3, <1>6
  <2>3. QED
    BY <2>1, <2>2
<1>8. \A x \in 2..n : pv2[items[x]] = items[x - 1]
  BY <1>3, <1>6
<1>9. Chain(items, items[1], nx2)
  BY <1>2 DEF Chain
<1>10. QED
  BY <1>4, <1>5, <1>7, <1>8, <1>9 DEF IsWhole

-----------------------------------------------------------------------------
(* The list of the state *)

Where == {"free", "held", "listed", "leaked"}

ListTypes ==
    /\ kind \in {"Array", "Object"}
    /\ where \in [Item -> Where]
    /\ string \in [Item -> Key \union {NoItem}]
    /\ nameless \in BOOLEAN

\* A list that is s is read as s.
LEMMA WholeList ==
    ASSUME NEW s, NEW first, NEW nx, NEW pv, NEW listed, IsWhole(s, first, nx, pv, listed)
    PROVE  Follow(first, nx) = s
BY FollowChain DEF IsWhole

\* So is the list of the state.
LEMMA ListIs ==
    ASSUME NEW s, Whole(s)
    PROVE  /\ List = s /\ s \in Seq(Item) /\ IsInjective(s) /\ Range(s) = In("listed")
           /\ child = IF s = <<>> THEN NoItem ELSE s[1]
BY WholeList DEF Whole, IsWhole, List, Chain

\* Who is listed after an item has moved.
LEMMA Moved ==
    ASSUME ListTypes, NEW i \in Item, NEW place \in Where, Move(i, place)
    PROVE  /\ where' \in [Item -> Where]
           /\ In("listed")' = IF place = "listed" THEN In("listed") \union {i}
                              ELSE In("listed") \ {i}
BY DEF ListTypes, Move, In

\* add_item_to_array finds the tail, whether the first knows it or not.
LEMMA AddWhole ==
    ASSUME NEW s, Whole(s), NEW i \in Item \ In("listed"), add_item_to_array(i)
    PROVE  IsWhole(Append(s, i), child', next', prev', In("listed") \union {i})
<1>1. List = s /\ s \in Seq(Item) /\ IsInjective(s) /\ child = IF s = <<>> THEN NoItem ELSE s[1]
  BY ListIs
<1>2. IsWhole(s, child, next, prev, In("listed"))
  BY DEF Whole
<1>3. CASE s = <<>>
  <2>1. child = NoItem
    BY <1>1, <1>3
  <2>2. /\ child' = i
        /\ prev' = [prev EXCEPT ![i] = i]
        /\ next' = [next EXCEPT ![i] = NoItem]
    BY <2>1 DEF add_item_to_array
  <2>3. QED
    BY <1>2, <2>1, <2>2, WholeAppend
<1>4. CASE s # <<>>
  <2>1. child # NoItem
    BY <1>1, <1>4, Places
  <2> DEFINE tail == IF prev[child] # NoItem THEN prev[child] ELSE Last(List)
  <2>2. tail = s[Len(s)]
    BY <1>1, <1>2, <1>4 DEF IsWhole, Last
  <2>3. /\ next' = [next EXCEPT ![tail] = i]
        /\ prev' = [prev EXCEPT ![i] = tail, ![child] = i]
        /\ child' = child
    BY <2>1 DEF add_item_to_array
  <2> HIDE DEF tail
  <2>4. QED
    BY <1>2, <2>1, <2>2, <2>3, WholeAppend
<1>5. QED
  BY <1>3, <1>4

-----------------------------------------------------------------------------
(* Finding a member *)

\* A set of numbers that is not empty has a least one, and Min is that.
LEMMA LeastOf ==
    ASSUME NEW S \in SUBSET Nat, S # {}
    PROVE  Min(S) \in S /\ \A y \in S : Min(S) <= y
<1>1. \E x \in S : \A y \in S : x <= y
  <2> SUFFICES ASSUME \A x \in S : \E y \in S : y < x
               PROVE  FALSE
    OBVIOUS
  <2> DEFINE Above == {n \in Nat : \A m \in 0..n : m \notin S}
  <2>1. 0 \in Above
    OBVIOUS
  <2>2. ASSUME NEW n \in Above \intersect Nat
        PROVE  n + 1 \in Above
    <3>1. n + 1 \notin S
      <4>1. SUFFICES ASSUME n + 1 \in S PROVE FALSE
        OBVIOUS
      <4>2. PICK y \in S : y < n + 1
        BY <4>1
      <4>3. y \in 0..n
        BY <4>2
      <4>4. QED
        BY <4>3
    <3>2. \A m \in 0..(n + 1) : m \in 0..n \/ m = n + 1
      OBVIOUS
    <3>3. QED
      BY <3>1, <3>2
  <2>3. 0 \in Above /\ \A n \in Above \intersect Nat : n + 1 \in Above
    BY <2>1, <2>2
  <2> HIDE DEF Above
  <2>4. Nat \subseteq Above
    BY <2>3, SetInduction
  <2>5. PICK x \in S : TRUE
    OBVIOUS
  <2>6. x \in Above /\ x \in 0..x
    BY <2>4, <2>5
  <2>7. QED
    BY <2>5, <2>6 DEF Above
<1>2. QED
  BY <1>1 DEF Min

\* Whether the search of get_object_item stops at an item.
Stops(i, k, caseSensitive) ==
    IF caseSensitive THEN string[i] \in {k, NoItem}
    ELSE string[i] # NoItem /\ Lower[string[i]] = Lower[k]

\* get_object_item: either no item stops the search, or the first that does.
LEMMA Search ==
    ASSUME NEW s, Whole(s), NEW k, NEW cs
    PROVE  \/ /\ GetItem(k, cs) = NoItem
              /\ \A x \in 1..Len(s) : ~Stops(s[x], k, cs)
           \/ \E found \in 1..Len(s) :
                 /\ Stops(s[found], k, cs)
                 /\ \A y \in 1..(found - 1) : ~Stops(s[y], k, cs)
                 /\ GetItem(k, cs) = IF string[s[found]] = NoItem THEN NoItem ELSE s[found]
<1> DEFINE I == {x \in 1..Len(s) : Stops(s[x], k, cs)}
           found == IF I # {} THEN Min(I) ELSE 0
<1>1. List = s /\ s \in Seq(Item)
  BY ListIs
<1>2. GetItem(k, cs) = IF found = 0 \/ string[s[found]] = NoItem THEN NoItem ELSE s[found]
  BY <1>1 DEF GetItem, SelectInSeq, Stops
<1>3. CASE I = {}
  <2>1. found = 0
    BY <1>3
  <2>2. QED
    BY <1>2, <1>3, <2>1
<1>4. CASE I # {}
  <2>1. I \in SUBSET Nat
    BY <1>1
  <2>2. found \in I /\ \A y \in I : found <= y
    BY <1>4, <2>1, LeastOf
  <2> HIDE DEF found
  <2>3. found \in 1..Len(s) /\ Stops(s[found], k, cs) /\ found # 0
    BY <1>1, <2>2
  <2>4. ASSUME NEW y \in 1..(found - 1)
        PROVE  ~Stops(s[y], k, cs)
    <3>1. y \in 1..Len(s) /\ ~(found <= y)
      BY <1>1, <2>3
    <3>2. QED
      BY <2>2, <3>1
  <2>5. GetItem(k, cs) = IF string[s[found]] = NoItem THEN NoItem ELSE s[found]
    BY <1>2, <2>3
  <2>6. QED
    BY <2>3, <2>4, <2>5
<1>5. QED
  BY <1>3, <1>4

\* A member that is found is in the list.
LEMMA FoundInList ==
    ASSUME NEW s, Whole(s), NEW k, NEW cs, GetItem(k, cs) # NoItem
    PROVE  \E x \in 1..Len(s) : GetItem(k, cs) = s[x]
BY Search

-----------------------------------------------------------------------------
(* Calls *)

\* Who is held or free is not listed.
LEMMA Outside ==
    ASSUME NEW i, i \in In("held") \/ i \in In("free")
    PROVE  i \in Item \ In("listed")
BY DEF In

\* A call that adds appends, and lists what it added.
LEMMA Adds ==
    ASSUME ListTypes, NEW s, Whole(s), NEW i \in Item \ In("listed"),
           add_item_to_array(i), Move(i, "listed")
    PROVE  /\ Whole(Append(s, i))'
           /\ where' \in [Item -> Where] /\ In("listed")' = In("listed") \union {i}
<1>1. where' \in [Item -> Where] /\ In("listed")' = In("listed") \union {i}
  BY Moved DEF Where
<1>2. IsWhole(Append(s, i), child', next', prev', In("listed") \union {i})
  BY AddWhole
<1>3. QED
  BY <1>1, <1>2 DEF Whole

\* cJSON_InsertItemInArray inserts, or appends behind the end.
LEMMA Inserts ==
    ASSUME ListTypes, NEW s, Whole(s), NEW i \in Item, NEW which \in Nat, InsertItemInArray(which, i)
    PROVE  /\ Whole(IF which >= Len(s) THEN Append(s, i) ELSE InsertAt(s, which + 1, i))'
           /\ where' \in [Item -> Where] /\ In("listed")' = In("listed") \union {i}
<1>1. i \in Item \ In("listed") /\ Move(i, "listed")
  BY Outside DEF InsertItemInArray
<1>2. List = s /\ s \in Seq(Item)
  BY ListIs
<1>3. CASE which >= Len(s)
  <2>1. add_item_to_array(i)
    BY <1>2, <1>3 DEF InsertItemInArray
  <2>2. QED
    BY <1>1, <1>3, <2>1, Adds
<1>4. CASE ~(which >= Len(s))
  <2> DEFINE k == which + 1
  <2>1. k \in 1..Len(s)
    BY <1>2, <1>4
  <2>2. /\ prev' = [prev EXCEPT ![i] = prev[s[k]], ![s[k]] = i]
        /\ IF s[k] = child
           THEN child' = i /\ next' = [next EXCEPT ![i] = s[k]]
           ELSE next' = [next EXCEPT ![i] = s[k], ![prev[s[k]]] = i] /\ child' = child
    BY <1>2, <1>4 DEF InsertItemInArray
  <2> HIDE DEF k
  <2>3. IsWhole(InsertAt(s, k, i), child', next', prev', In("listed") \union {i})
    BY <1>1, <2>1, <2>2, InsertWhole
  <2>4. where' \in [Item -> Where] /\ In("listed")' = In("listed") \union {i}
    BY <1>1, Moved DEF Where
  <2>5. QED
    BY <1>4, <2>3, <2>4 DEF Whole, k
<1>5. QED
  BY <1>3, <1>4

\* A replacement takes the place of one item, which is deleted.
LEMMA Replaces ==
    ASSUME ListTypes, NEW s, Whole(s), NEW k \in 1..Len(s), NEW r \in Item \ In("listed"),
           Replace(s[k], r)
    PROVE  /\ Whole(ReplaceAt(s, k, r))'
           /\ where' \in [Item -> Where]
           /\ In("listed")' = (In("listed") \ {s[k]}) \union {r}
<1>1. s[k] \in Item /\ s[k] # r
  BY ListIs, Places
<1>2. where' = [where EXCEPT ![s[k]] = "free", ![r] = "listed"]
  BY DEF Replace
<1>3. where' \in [Item -> Where] /\ In("listed")' = (In("listed") \ {s[k]}) \union {r}
  BY <1>1, <1>2 DEF ListTypes, Where, In
<1>4. IsWhole(ReplaceAt(s, k, r), child', next', prev', (In("listed") \ {s[k]}) \union {r})
  BY ReplaceWhole DEF Replace
<1>5. QED
  BY <1>3, <1>4 DEF Whole

\* What is detached or deleted leaves the list.
LEMMA Takes ==
    ASSUME ListTypes, NEW s, Whole(s), NEW k \in 1..Len(s), NEW place \in {"held", "free"},
           Take(s[k], place)
    PROVE  /\ Whole(RemoveAt(s, k))'
           /\ where' \in [Item -> Where] /\ In("listed")' = In("listed") \ {s[k]}
<1>1. s[k] \in Item
  BY ListIs, Places
<1>2. DetachItemViaPointer(s[k]) /\ Move(s[k], place)
  BY DEF Take
<1>3. where' \in [Item -> Where] /\ In("listed")' = In("listed") \ {s[k]}
  BY <1>1, <1>2, Moved DEF Where
<1>4. IsWhole(RemoveAt(s, k), child', next', prev', In("listed") \ {s[k]})
  BY <1>2, DetachWhole
<1>5. QED
  BY <1>3, <1>4 DEF Whole

\* Calls that leave the list alone.
LEMMA Leaves ==
    ASSUME NEW s, Whole(s), Links, In("listed")' = In("listed")
    PROVE  Whole(s)'
BY DEF Whole, Links

-----------------------------------------------------------------------------
(* The invariant *)

\* As long as no member has lost its name, every member of an object has one.
ListNames == kind = "Object" /\ ~nameless => \A i \in In("listed") : string[i] \in Key

ListInv == ListTypes /\ ListNames /\ \E s : Whole(s)

\* No links are the links of the empty list.
LEMMA EmptyWhole ==
    ASSUME NEW nx \in [Item -> Item \union {NoItem}], NEW pv \in [Item -> Item \union {NoItem}],
           \A i \in Item : nx[i] = NoItem /\ pv[i] = NoItem
    PROVE  IsWhole(<<>>, NoItem, nx, pv, {})
<1>1. <<>> \in Seq(Item) /\ IsInjective(<<>>) /\ Range(<<>>) = {}
  BY DEF IsInjective, Range
<1>2. Len(<<>>) = 0 /\ 1..0 = {} /\ 2..0 = {}
  OBVIOUS
<1>3. Chain(<<>>, NoItem, nx)
  BY <1>2 DEF Chain
<1>4. \A x \in 2..Len(<<>>) : pv[<<>>[x]] = <<>>[x - 1]
  BY <1>2
<1>5. QED
  BY <1>1, <1>3, <1>4 DEF IsWhole

\* It holds at first.
LEMMA InitList == ListInit => ListInv
<1> SUFFICES ASSUME ListInit PROVE ListInv
  OBVIOUS
<1>1. In("listed") = {}
  BY DEF ListInit, In
<1>2. ListTypes /\ ListNames
  BY <1>1 DEF ListInit, ListTypes, ListNames, Where
<1>3. IsWhole(<<>>, child, next, prev, {})
  BY EmptyWhole DEF ListInit
<1>4. Whole(<<>>)
  BY <1>1, <1>3 DEF Whole
<1>5. QED
  BY <1>2, <1>4 DEF ListInv

\* cJSON_CreateIntArray keeps it.
LEMMA CreateArrayKeeps ==
    ASSUME ListInv, NEW items \in Seq(Item), IsInjective(items), items # <<>>, CreateArrayOf(items)
    PROVE  ListInv' /\ Whole(items)'
<1>1. PICK s : Whole(s)
  BY DEF ListInv
<1>2. s = <<>> /\ In("listed") = {}
  <2>1. s \in Seq(Item) /\ Range(s) = In("listed") /\ child = (IF s = <<>> THEN NoItem ELSE s[1])
        /\ IsInjective(s)
    BY <1>1, ListIs
  <2>2. child = NoItem
    BY DEF CreateArrayOf
  <2>3. s = <<>>
    BY <2>1, <2>2, Places
  <2>4. QED
    BY <2>1, <2>3 DEF Range
<1>3. \A i \in Item : next[i] = NoItem /\ prev[i] = NoItem
  BY <1>1, <1>2 DEF Whole, IsWhole
<1>4. IsWhole(items, child', next', prev', Range(items))
  BY <1>3, MadeWhole DEF CreateArrayOf
<1>5. Range(items) \subseteq Item
  BY Places
<1>6. where' = [i \in Item |-> IF i \in Range(items) THEN "listed" ELSE where[i]]
  BY Contained DEF CreateArrayOf
<1>7. where' \in [Item -> Where] /\ In("listed")' = Range(items)
  BY <1>2, <1>5, <1>6 DEF ListInv, ListTypes, Where, In
<1>8. string' \in [Item -> Key \union {NoItem}]
  BY DEF CreateArrayOf, ListInv, ListTypes
<1>9. ListTypes' /\ ListNames'
  BY <1>7, <1>8 DEF CreateArrayOf, ListInv, ListTypes, ListNames
<1>10. Whole(items)'
  BY <1>4, <1>7 DEF Whole
<1>11. QED
  BY <1>9, <1>10 DEF ListInv

\* cJSON_Duplicate keeps it: the copies take the names along.
LEMMA DuplicateKeeps ==
    ASSUME ListInv, NEW items \in Seq(Item), IsInjective(items), items # <<>>, DuplicateArray(items)
    PROVE  /\ ListInv' /\ Whole(items)'
           /\ \A x \in 1..Len(items) : string'[items[x]] = string[List[x]]
<1>1. PICK s : Whole(s)
  BY DEF ListInv
<1>2. List = s /\ s \in Seq(Item) /\ IsInjective(s) /\ Range(s) = In("listed") /\ Len(items) = Len(s)
  BY <1>1, ListIs DEF DuplicateArray
<1>3. IsWhole(items, child', next', prev', Range(items))
  <2> DEFINE none == [i \in Item |-> NoItem]
  <2>1. next' = [i \in Item |-> IF Contains(Front(items), i) THEN items[At(items, i) + 1] ELSE none[i]]
    BY DEF DuplicateArray
  <2>2. prev' = [i \in Item |-> IF Contains(Tail(items), i) THEN items[At(items, i) - 1] ELSE none[i]]
    BY DEF DuplicateArray
  <2>3. child' = items[1]
    BY DEF DuplicateArray
  <2>4. \A i \in Item : none[i] = NoItem /\ none[i] = NoItem
    OBVIOUS
  <2> HIDE DEF none
  <2>5. QED
    BY <2>1, <2>2, <2>3, <2>4, MadeWhole
<1>4. Range(items) \subseteq Item /\ Range(items) \subseteq In("free")
  BY Places DEF DuplicateArray
<1>5. where' = [i \in Item |-> IF i \in Range(items) THEN "listed"
                               ELSE IF i \in In("listed") THEN "free" ELSE where[i]]
  BY <1>2, Contained DEF DuplicateArray
<1>6. where' \in [Item -> Where] /\ In("listed")' = Range(items)
  BY <1>4, <1>5 DEF ListInv, ListTypes, Where, In
<1>7. ASSUME NEW x \in 1..Len(items)
      PROVE  /\ items[x] \in Item /\ items[x] \in Range(items)
             /\ s[x] \in In("listed") /\ s[x] \in Item
             /\ string'[items[x]] = string[s[x]]
  <2>1. /\ items[x] \in Item /\ items[x] \in Range(items)
        /\ s[x] \in In("listed") /\ s[x] \in Item
    BY <1>2, Places
  <2>2. Contains(items, items[x]) /\ At(items, items[x]) = x
    BY <2>1, Contained, Positions
  <2>3. string'[items[x]] = IF Contains(items, items[x]) THEN string[List[At(items, items[x])]]
                            ELSE string[items[x]]
    BY <2>1 DEF DuplicateArray
  <2>4. QED
    BY <1>2, <2>1, <2>2, <2>3
<1>8. \A i \in Range(items) : \E x \in 1..Len(items) : i = items[x]
  BY Places
<1>9. string' \in [Item -> Key \union {NoItem}]
  <2>1. ASSUME NEW i \in Item
        PROVE  string'[i] \in Key \union {NoItem}
    <3>1. CASE i \in Range(items)
      BY <1>7, <1>8, <3>1 DEF ListInv, ListTypes
    <3>2. CASE i \notin Range(items)
      <4>1. ~Contains(items, i)
        BY <3>2, Contained
      <4>2. string'[i] = string[i]
        BY <4>1 DEF DuplicateArray
      <4>3. QED
        BY <4>2 DEF ListInv, ListTypes
    <3>3. QED
      BY <3>1, <3>2
  <2>2. string' = [i \in Item |-> string'[i]]
    BY DEF DuplicateArray
  <2>3. QED
    BY <2>1, <2>2
<1>10. ListTypes'
  BY <1>6, <1>9 DEF DuplicateArray, ListInv, ListTypes
<1>11. ListNames'
  BY <1>6, <1>7, <1>8 DEF DuplicateArray, ListInv, ListNames
<1>12. Whole(items)'
  BY <1>3, <1>6 DEF Whole
<1>13. QED
  BY <1>2, <1>7, <1>10, <1>11, <1>12 DEF ListInv

\* cJSON_Delete of the list keeps it.
LEMMA DeleteKeeps ==
    ASSUME ListInv, DeleteList
    PROVE  ListInv' /\ Whole(<<>>)'
<1>1. PICK s : Whole(s)
  BY DEF ListInv
<1>2. List = s /\ s \in Seq(Item) /\ Range(s) = In("listed")
  BY <1>1, ListIs
<1>3. /\ where' = [i \in Item |-> IF i \in In("listed") THEN "free" ELSE where[i]]
      /\ next' = [i \in Item |-> IF i \in In("listed") THEN NoItem ELSE next[i]]
      /\ prev' = [i \in Item |-> IF i \in In("listed") THEN NoItem ELSE prev[i]]
      /\ child' = NoItem
  BY <1>2, Contained DEF DeleteList
<1>4. where' \in [Item -> Where] /\ In("listed")' = {}
  BY <1>3 DEF ListInv, ListTypes, Where, In
<1>5. \A i \in Item \ In("listed") : next[i] = NoItem /\ prev[i] = NoItem
  BY <1>1 DEF Whole, IsWhole
<1>6. /\ next' \in [Item -> Item \union {NoItem}] /\ prev' \in [Item -> Item \union {NoItem}]
      /\ \A i \in Item : next'[i] = NoItem /\ prev'[i] = NoItem
  BY <1>3, <1>5
<1>7. IsWhole(<<>>, child', next', prev', {})
  BY <1>3, <1>6, EmptyWhole
<1>8. Whole(<<>>)'
  BY <1>4, <1>7 DEF Whole
<1>9. ListTypes' /\ ListNames'
  BY <1>4 DEF DeleteList, ListInv, ListTypes, ListNames
<1>10. QED
  BY <1>8, <1>9 DEF ListInv

\* The calls that add an item at the end keep it, and so does cJSON_Delete of a
\* held one.
LEMMA ItemStep ==
    ASSUME ListInv, NEW i \in Item,
           \/ AddItemToArray(i) \/ AddItemReferenceToArray(i) \/ DeleteHeld(i)
           \/ \E k \in Key :
                  AddItemToObject(k, i) \/ AddNewItemToObject(k, i) \/ AddItemReferenceToObject(k, i)
    PROVE  ListInv'
<1>1. PICK s : Whole(s)
  BY DEF ListInv
<1>2. ListTypes
  BY DEF ListInv
<1>3. CASE AddItemToArray(i)
  <2>1. i \in Item \ In("listed")
    BY <1>3, Outside DEF AddItemToArray
  <2>2. Whole(Append(s, i))' /\ where' \in [Item -> Where] /\ In("listed")' = In("listed") \union {i}
    BY <1>1, <1>2, <1>3, <2>1, Adds DEF AddItemToArray
  <2>3. ListTypes' /\ ListNames'
    BY <1>3, <2>2 DEF AddItemToArray, ListInv, ListTypes, ListNames
  <2>4. QED
    BY <2>2, <2>3 DEF ListInv
<1>4. CASE AddItemReferenceToArray(i)
  <2>1. i \in Item \ In("listed")
    BY <1>4, Outside DEF AddItemReferenceToArray
  <2>2. Whole(Append(s, i))' /\ where' \in [Item -> Where] /\ In("listed")' = In("listed") \union {i}
    BY <1>1, <1>2, <1>4, <2>1, Adds DEF AddItemReferenceToArray
  <2>3. ListTypes' /\ ListNames'
    BY <1>4, <2>2 DEF AddItemReferenceToArray, ListInv, ListTypes, ListNames
  <2>4. QED
    BY <2>2, <2>3 DEF ListInv
<1>5. CASE DeleteHeld(i)
  <2>1. where' \in [Item -> Where] /\ In("listed")' = In("listed")
    BY <1>2, <1>5 DEF DeleteHeld, ListTypes, Where, In
  <2>2. Whole(s)'
    BY <1>1, <1>5, <2>1, Leaves DEF DeleteHeld
  <2>3. ListTypes' /\ ListNames'
    BY <1>5, <2>1 DEF DeleteHeld, ListInv, ListTypes, ListNames
  <2>4. QED
    BY <2>2, <2>3 DEF ListInv
<1>6. ASSUME NEW k \in Key, i \in In("held") \/ i \in In("free"), kind = "Object",
             string' = [string EXCEPT ![i] = k], add_item_to_array(i), Move(i, "listed"),
             UNCHANGED <<kind, nameless>>
      PROVE  ListInv'
  <2>1. i \in Item \ In("listed")
    BY <1>6, Outside
  <2>2. Whole(Append(s, i))' /\ where' \in [Item -> Where] /\ In("listed")' = In("listed") \union {i}
    BY <1>1, <1>2, <1>6, <2>1, Adds
  <2>3. ListTypes'
    BY <1>2, <1>6, <2>2 DEF ListTypes
  <2>4. ListNames'
    <3>1. \A j \in In("listed") : j \in Item
      BY DEF In
    <3>2. QED
      BY <1>2, <1>6, <2>2, <3>1 DEF ListInv, ListTypes, ListNames
  <2>5. QED
    BY <2>2, <2>3, <2>4 DEF ListInv
<1>7. ASSUME i \in In("free"), Move(i, "leaked"), string' = [string EXCEPT ![i] = NoItem], Links,
             UNCHANGED <<kind, nameless>>
      PROVE  ListInv'
  <2>1. i \notin In("listed")
    BY <1>7, Outside
  <2>2. where' \in [Item -> Where] /\ In("listed")' = In("listed")
    BY <1>2, <1>7, <2>1, Moved DEF Where
  <2>3. Whole(s)'
    BY <1>1, <1>7, <2>2, Leaves
  <2>4. ListTypes'
    BY <1>2, <1>7, <2>2 DEF ListTypes
  <2>5. ListNames'
    <3>1. \A j \in In("listed") : j \in Item /\ j # i
      BY <2>1 DEF In
    <3>2. QED
      BY <1>2, <1>7, <2>2, <3>1 DEF ListInv, ListTypes, ListNames
  <2>6. QED
    BY <2>3, <2>4, <2>5 DEF ListInv
<1>8. ASSUME NEW k \in Key,
             AddItemToObject(k, i) \/ AddNewItemToObject(k, i) \/ AddItemReferenceToObject(k, i)
      PROVE  ListInv'
  <2>1. CASE AddItemToObject(k, i)
    BY <1>6, <2>1 DEF AddItemToObject
  <2>2. CASE AddNewItemToObject(k, i)
    BY <1>6, <2>2 DEF AddNewItemToObject
  <2>3. CASE AddItemReferenceToObject(k, i)
    BY <1>6, <1>7, <2>3 DEF AddItemReferenceToObject
  <2>4. QED
    BY <1>8, <2>1, <2>2, <2>3
<1>9. QED
  BY <1>3, <1>4, <1>5, <1>8

\* cJSON_ReplaceItemInObject keeps it, whether or not the name was copied and
\* the member found.
LEMMA ReplaceStep ==
    ASSUME ListInv, NEW r \in Item, NEW k \in Key, NEW cs \in BOOLEAN, ReplaceItemInObject(k, r, cs)
    PROVE  ListInv'
<1>1. PICK s : Whole(s)
  BY DEF ListInv
<1>2. ListTypes /\ r \in Item \ In("listed") /\ kind' = kind
  BY Outside DEF ListInv, ReplaceItemInObject
<1>3. PICK name \in {k, NoItem} :
         /\ string' = [string EXCEPT ![r] = name]
         /\ LET i == GetItem(k, cs)
            IN  IF i = NoItem THEN Links /\ UNCHANGED <<where, nameless>>
                ELSE Replace(i, r) /\ nameless' = (nameless \/ name = NoItem)
  BY DEF ReplaceItemInObject
<1>4. \A j \in In("listed") : j \in Item /\ j # r
  BY <1>2 DEF In
<1>5. string' \in [Item -> Key \union {NoItem}]
  BY <1>2, <1>3 DEF ListTypes
<1>6. CASE GetItem(k, cs) = NoItem
  <2>1. Links /\ UNCHANGED <<where, nameless>>
    BY <1>3, <1>6
  <2>2. In("listed")' = In("listed")
    BY <2>1 DEF In
  <2>3. Whole(s)'
    BY <1>1, <2>1, <2>2, Leaves
  <2>4. ListTypes'
    BY <1>2, <1>5, <2>1 DEF ListTypes
  <2>5. ListNames'
    BY <1>2, <1>3, <1>4, <2>1, <2>2 DEF ListInv, ListTypes, ListNames
  <2>6. QED
    BY <2>3, <2>4, <2>5 DEF ListInv
<1>7. CASE GetItem(k, cs) # NoItem
  <2>1. PICK x \in 1..Len(s) : GetItem(k, cs) = s[x]
    BY <1>1, <1>7, FoundInList
  <2>2. Replace(s[x], r) /\ nameless' = (nameless \/ name = NoItem)
    BY <1>3, <1>7, <2>1
  <2>3. /\ Whole(ReplaceAt(s, x, r))' /\ where' \in [Item -> Where]
        /\ In("listed")' = (In("listed") \ {s[x]}) \union {r}
    BY <1>1, <1>2, <2>2, Replaces
  <2>4. nameless' \in BOOLEAN
    BY <2>2
  <2>5. ListTypes'
    BY <1>2, <1>5, <2>3, <2>4 DEF ListTypes
  <2>6. ListNames'
    <3> SUFFICES ASSUME kind = "Object", ~nameless, name # NoItem
                 PROVE  \A j \in In("listed")' : string'[j] \in Key
      BY <1>2, <2>2 DEF ListNames
    <3>1. \A j \in In("listed") : string[j] \in Key
      BY DEF ListInv, ListNames
    <3>2. name = k
      BY <1>3
    <3>3. QED
      BY <1>2, <1>3, <1>4, <2>3, <3>1, <3>2 DEF ListTypes
  <2>7. QED
    BY <2>3, <2>5, <2>6 DEF ListInv
<1>8. QED
  BY <1>6, <1>7

\* So do insertion and replacement by index,
LEMMA IndexStep ==
    ASSUME ListInv, NEW i \in Item, NEW which \in Nat,
           InsertItemInArray(which, i) \/ ReplaceItemInArray(which, i)
    PROVE  ListInv'
<1>1. PICK s : Whole(s)
  BY DEF ListInv
<1>2. ListTypes /\ List = s /\ s \in Seq(Item)
  BY <1>1, ListIs DEF ListInv
<1>3. kind = "Array" /\ UNCHANGED <<kind, string, nameless>>
  BY DEF InsertItemInArray, ReplaceItemInArray
<1>4. \E t : Whole(t)' /\ where' \in [Item -> Where]
  <2>1. CASE InsertItemInArray(which, i)
    BY <1>1, <1>2, <2>1, Inserts
  <2>2. CASE ReplaceItemInArray(which, i)
    <3>1. which + 1 \in 1..Len(s) /\ i \in Item \ In("listed") /\ Replace(s[which + 1], i)
      BY <1>2, <2>2, Outside DEF ReplaceItemInArray
    <3> DEFINE k == which + 1
    <3> HIDE DEF k
    <3>2. Whole(ReplaceAt(s, k, i))' /\ where' \in [Item -> Where]
      BY <1>1, <1>2, <3>1, Replaces DEF k
    <3>3. QED
      BY <3>2
  <2>3. QED
    BY <2>1, <2>2
<1>5. ListTypes' /\ ListNames'
  BY <1>2, <1>3, <1>4 DEF ListTypes, ListNames
<1>6. QED
  BY <1>4, <1>5 DEF ListInv

\* and detaching and deleting, by index or by name,
LEMMA TakeStep ==
    ASSUME ListInv, NEW place \in {"held", "free"},
           \/ \E which \in Nat : TakeFromArray(which, place)
           \/ \E k \in Key, cs \in BOOLEAN : TakeFromObject(k, cs, place)
    PROVE  ListInv'
<1>1. PICK s : Whole(s)
  BY DEF ListInv
<1>2. ListTypes /\ List = s /\ s \in Seq(Item)
  BY <1>1, ListIs DEF ListInv
<1>3. PICK x \in 1..Len(s) : Take(s[x], place)
  <2>1. ASSUME NEW which \in Nat, TakeFromArray(which, place)
        PROVE  \E x \in 1..Len(s) : Take(s[x], place)
    <3>1. which + 1 \in 1..Len(s) /\ Take(s[which + 1], place)
      BY <1>2, <2>1 DEF TakeFromArray
    <3>2. QED
      BY <3>1
  <2>2. ASSUME NEW k \in Key, NEW cs \in BOOLEAN, TakeFromObject(k, cs, place)
        PROVE  \E x \in 1..Len(s) : Take(s[x], place)
    <3>1. GetItem(k, cs) # NoItem /\ Take(GetItem(k, cs), place)
      BY <2>2 DEF TakeFromObject
    <3>2. PICK x \in 1..Len(s) : GetItem(k, cs) = s[x]
      BY <1>1, <3>1, FoundInList
    <3>3. QED
      BY <3>1, <3>2
  <2>3. QED
    BY <2>1, <2>2
<1>4. Whole(RemoveAt(s, x))' /\ where' \in [Item -> Where] /\ In("listed")' = In("listed") \ {s[x]}
  BY <1>1, <1>2, <1>3, Takes
<1>5. ListTypes' /\ ListNames'
  BY <1>2, <1>3, <1>4 DEF Take, ListInv, ListTypes, ListNames
<1>6. QED
  BY <1>4, <1>5 DEF ListInv

\* and the creation of an item.
LEMMA CreateStep ==
    ASSUME ListInv, Create
    PROVE  ListInv'
<1>1. PICK s : Whole(s)
  BY DEF ListInv
<1>2. PICK i \in In("free") : Move(i, "held") /\ string' = [string EXCEPT ![i] = NoItem]
  BY DEF Create
<1>3. i \in Item /\ i \notin In("listed")
  BY <1>2, Outside
<1>4. where' \in [Item -> Where] /\ In("listed")' = In("listed")
  BY <1>2, <1>3, Moved DEF ListInv, Where
<1>5. Whole(s)'
  BY <1>1, <1>4, Leaves DEF Create
<1>6. \A j \in In("listed") : j \in Item /\ j # i
  BY <1>3 DEF In
<1>7. ListTypes' /\ ListNames'
  BY <1>2, <1>4, <1>6 DEF Create, ListInv, ListTypes, ListNames
<1>8. QED
  BY <1>5, <1>7 DEF ListInv

\* The items of a list that is made at once.
LEMMA MadeOf ==
    ASSUME NEW items \in SeqOf(In("free"), MaxMade)
    PROVE  items \in Seq(Item)
<1>1. PICK m \in Nat : items \in [1..m -> In("free")]
  BY DEF SeqOf
<1>2. In("free") \subseteq Item
  BY DEF In
<1>3. items \in [1..m -> Item]
  BY <1>1, <1>2
<1>4. QED
  BY <1>3

\* Every call keeps it.
LEMMA NextKeeps ==
    ASSUME ListInv, ListNext
    PROVE  ListInv'
<1>1. Index0 \subseteq Nat
  BY DEF Index0
<1>2. CASE Create
  BY <1>2, CreateStep
<1>3. CASE DeleteList
  BY <1>3, DeleteKeeps
<1>4. ASSUME NEW items \in SeqOf(In("free"), MaxMade) \ {<<>>},
             IsInjective(items) /\ (CreateArrayOf(items) \/ DuplicateArray(items))
      PROVE  ListInv'
  BY <1>4, MadeOf, CreateArrayKeeps, DuplicateKeeps
<1>5. ASSUME NEW i \in Item,
             \/ AddItemToArray(i) \/ AddItemReferenceToArray(i) \/ DeleteHeld(i)
             \/ \E k \in Key :
                    AddItemToObject(k, i) \/ AddNewItemToObject(k, i) \/ AddItemReferenceToObject(k, i)
      PROVE  ListInv'
  BY <1>5, ItemStep
<1>6. ASSUME NEW i \in Item, NEW which \in Index0, InsertItemInArray(which, i) \/ ReplaceItemInArray(which, i)
      PROVE  ListInv'
  BY <1>1, <1>6, IndexStep
<1>7. ASSUME NEW i \in Item, NEW k \in Key, NEW cs \in BOOLEAN, ReplaceItemInObject(k, i, cs)
      PROVE  ListInv'
  BY <1>7, ReplaceStep
<1>8. ASSUME NEW place \in {"held", "free"},
             \/ \E which \in Index0 : TakeFromArray(which, place)
             \/ \E k \in Key, cs \in BOOLEAN : TakeFromObject(k, cs, place)
      PROVE  ListInv'
  BY <1>1, <1>8, TakeStep
<1>9. QED
  BY <1>2, <1>3, <1>4, <1>5, <1>6, <1>7, <1>8 DEF ListNext

-----------------------------------------------------------------------------
(* Theorems *)

\* The inductive invariant of the list: types, names, and some sequence of which
\* the links are the links.
THEOREM LibraryListInv == LibrarySpec => []ListInv
<1>1. LibraryInit => ListInv
  BY InitList DEF LibraryInit
<1>2. ListInv /\ [LibraryNext]_<<printVars, listVars>> => ListInv'
  <2> SUFFICES ASSUME ListInv, [LibraryNext]_<<printVars, listVars>>
               PROVE  ListInv'
    OBVIOUS
  <2>1. CASE ListNext
    BY <2>1, NextKeeps
  <2>2. CASE UNCHANGED listVars
    <3>1. In("listed")' = In("listed")
      BY <2>2 DEF listVars, In
    <3>2. QED
      BY <2>2, <3>1 DEF listVars, ListInv, ListTypes, ListNames, Whole
  <2>3. QED
    BY <2>1, <2>2 DEF LibraryNext
<1>3. QED
  BY <1>1, <1>2, PTL DEF LibrarySpec

\* After whatever calls, the list below an array or object is whole: no item twice,
\* none lost, links that lead both ways, and none left in an item outside.
THEOREM ListStaysWhole == LibrarySpec => []ListIsWhole
<1>1. ListInv => ListIsWhole
  <2> SUFFICES ASSUME ListInv PROVE ListIsWhole
    OBVIOUS
  <2>1. PICK s : Whole(s)
    BY DEF ListInv
  <2>2. List = s /\ s \in Seq(Item) /\ IsInjective(s) /\ Range(s) = In("listed")
        /\ child = IF s = <<>> THEN NoItem ELSE s[1]
    BY <2>1, ListIs
  <2>3. /\ \A x \in 2..Len(s) : prev[s[x]] = s[x - 1]
        /\ s # <<>> => prev[s[1]] \in {NoItem, s[Len(s)]}
        /\ \A i \in Item \ In("listed") : next[i] = NoItem /\ prev[i] = NoItem
    BY <2>1 DEF Whole, IsWhole
  <2>4. child # NoItem => prev[child] \in {NoItem, Last(s)}
    BY <2>2, <2>3 DEF Last
  <2>5. QED
    BY <2>2, <2>3, <2>4 DEF ListIsWhole
<1>2. QED
  BY <1>1, LibraryListInv, PTL

\* What the list is after a call, told by its links.
LEMMA ListBecomes ==
    ASSUME NEW t, Whole(t)'
    PROVE  List' = t
BY WholeList DEF Whole, List

LEMMA SameList ==
    ASSUME Links
    PROVE  List' = List
BY DEF Links, List, Follow

\* What is added comes last, whichever call adds it,
LEMMA AddingCalls ==
    ASSUME ListInv
    PROVE  AddingAppends
<1>1. PICK s : Whole(s)
  BY DEF ListInv
<1>2. ListTypes /\ List = s
  BY <1>1, ListIs DEF ListInv
<1>3. ASSUME NEW i \in In("held") \union In("free"), add_item_to_array(i), Move(i, "listed")
      PROVE  List' = Append(List, i)
  <2>1. i \in Item \ In("listed")
    BY Outside
  <2>2. Whole(Append(s, i))'
    BY <1>1, <1>2, <1>3, <2>1, Adds
  <2>3. QED
    BY <1>2, <2>2, ListBecomes
<1>4. SUFFICES ASSUME NEW i \in Item, AddedToList(i)
               PROVE  List' = Append(List, i)
  BY DEF AddingAppends
<1>5. CASE AddItemToArray(i)
  BY <1>3, <1>5 DEF AddItemToArray
<1>6. CASE AddItemReferenceToArray(i)
  BY <1>3, <1>6 DEF AddItemReferenceToArray
<1>7. ASSUME NEW k \in Key, AddItemToObject(k, i)
      PROVE  List' = Append(List, i)
  BY <1>3, <1>7 DEF AddItemToObject
<1>8. ASSUME NEW k \in Key, AddNewItemToObject(k, i)
      PROVE  List' = Append(List, i)
  BY <1>3, <1>8 DEF AddNewItemToObject
<1>9. ASSUME NEW k \in Key, AddItemReferenceToObject(k, i), where'[i] = "listed"
      PROVE  List' = Append(List, i)
  <2>1. ~Move(i, "leaked")
    BY <1>2, <1>9 DEF Move, ListTypes
  <2>2. QED
    BY <1>3, <1>9, <2>1 DEF AddItemReferenceToObject
<1>10. QED
  BY <1>4, <1>5, <1>6, <1>7, <1>8, <1>9 DEF AddedToList

\* what is inserted comes before the item of that index,
LEMMA InsertingCalls ==
    ASSUME ListInv
    PROVE  InsertingInserts
<1>1. PICK s : Whole(s)
  BY DEF ListInv
<1>2. ListTypes /\ List = s
  BY <1>1, ListIs DEF ListInv
<1>3. ASSUME NEW i \in Item, NEW which \in Index0, InsertItemInArray(which, i)
      PROVE  List' = IF which >= Len(List) THEN Append(List, i) ELSE InsertAt(List, which + 1, i)
  <2>1. which \in Nat
    BY DEF Index0
  <2>2. Whole(IF which >= Len(s) THEN Append(s, i) ELSE InsertAt(s, which + 1, i))'
    BY <1>1, <1>2, <1>3, <2>1, Inserts
  <2>3. QED
    BY <1>2, <2>2, ListBecomes
<1>4. QED
  BY <1>3 DEF InsertingInserts

\* The place of a member that was found by its name.
LEMMA FoundAt ==
    ASSUME NEW s, Whole(s), NEW k, NEW cs, GetItem(k, cs) # NoItem
    PROVE  \E x \in 1..Len(s) : GetItem(k, cs) = s[x] /\ At(List, GetItem(k, cs)) = x
<1>1. List = s /\ s \in Seq(Item) /\ IsInjective(s)
  BY ListIs
<1>2. PICK x \in 1..Len(s) : GetItem(k, cs) = s[x]
  BY FoundInList
<1>3. At(s, s[x]) = x
  BY <1>1, Positions
<1>4. QED
  BY <1>1, <1>2, <1>3

\* what is detached or deleted is taken out of its place,
LEMMA TakingCalls ==
    ASSUME ListInv
    PROVE  TakingRemoves
<1>1. PICK s : Whole(s)
  BY DEF ListInv
<1>2. ListTypes /\ List = s /\ s \in Seq(Item)
  BY <1>1, ListIs DEF ListInv
<1>3. SUFFICES ASSUME NEW place \in {"held", "free"}
               PROVE  /\ \A which \in Index0 :
                             TakeFromArray(which, place) => List' = RemoveAt(List, which + 1)
                      /\ \A k \in Key, cs \in BOOLEAN :
                             TakeFromObject(k, cs, place) =>
                                 List' = RemoveAt(List, At(List, GetItem(k, cs)))
  BY DEF TakingRemoves
<1>4. ASSUME NEW x \in 1..Len(s), Take(s[x], place)
      PROVE  List' = RemoveAt(List, x)
  <2>1. Whole(RemoveAt(s, x))'
    BY <1>1, <1>2, <1>4, Takes
  <2>2. QED
    BY <1>2, <2>1, ListBecomes
<1>5. ASSUME NEW which \in Index0, TakeFromArray(which, place)
      PROVE  List' = RemoveAt(List, which + 1)
  <2>1. which + 1 \in 1..Len(s) /\ Take(s[which + 1], place)
    BY <1>2, <1>5 DEF TakeFromArray, Index0
  <2>2. QED
    BY <1>4, <2>1
<1>6. ASSUME NEW k \in Key, NEW cs \in BOOLEAN, TakeFromObject(k, cs, place)
      PROVE  List' = RemoveAt(List, At(List, GetItem(k, cs)))
  <2>1. GetItem(k, cs) # NoItem /\ Take(GetItem(k, cs), place)
    BY <1>6 DEF TakeFromObject
  <2>2. PICK x \in 1..Len(s) : GetItem(k, cs) = s[x] /\ At(List, GetItem(k, cs)) = x
    BY <1>1, <2>1, FoundAt
  <2>3. QED
    BY <1>4, <2>1, <2>2
<1>7. QED
  BY <1>5, <1>6

\* and what replaces takes the place of what it replaces.
LEMMA ReplacingCalls ==
    ASSUME ListInv
    PROVE  ReplacingReplaces
<1>1. PICK s : Whole(s)
  BY DEF ListInv
<1>2. ListTypes /\ List = s /\ s \in Seq(Item)
  BY <1>1, ListIs DEF ListInv
<1>3. SUFFICES ASSUME NEW i \in Item
               PROVE  /\ \A which \in Index0 :
                             ReplaceItemInArray(which, i) => List' = ReplaceAt(List, which + 1, i)
                      /\ \A k \in Key, cs \in BOOLEAN :
                             ReplaceItemInObject(k, i, cs) =>
                                 List' = IF GetItem(k, cs) = NoItem THEN List
                                         ELSE ReplaceAt(List, At(List, GetItem(k, cs)), i)
  BY DEF ReplacingReplaces
<1>4. ASSUME NEW x \in 1..Len(s), i \in In("held"), Replace(s[x], i)
      PROVE  List' = ReplaceAt(List, x, i)
  <2>1. Whole(ReplaceAt(s, x, i))'
    BY <1>1, <1>2, <1>4, Outside, Replaces
  <2>2. QED
    BY <1>2, <2>1, ListBecomes
<1>5. ASSUME NEW which \in Index0, ReplaceItemInArray(which, i)
      PROVE  List' = ReplaceAt(List, which + 1, i)
  <2>1. which + 1 \in 1..Len(s) /\ i \in In("held") /\ Replace(s[which + 1], i)
    BY <1>2, <1>5 DEF ReplaceItemInArray, Index0
  <2>2. QED
    BY <1>4, <2>1
<1>6. ASSUME NEW k \in Key, NEW cs \in BOOLEAN, ReplaceItemInObject(k, i, cs), GetItem(k, cs) = NoItem
      PROVE  List' = List
  BY <1>6, SameList DEF ReplaceItemInObject
<1>7. ASSUME NEW k \in Key, NEW cs \in BOOLEAN, ReplaceItemInObject(k, i, cs), GetItem(k, cs) # NoItem
      PROVE  List' = ReplaceAt(List, At(List, GetItem(k, cs)), i)
  <2>1. i \in In("held") /\ Replace(GetItem(k, cs), i)
    BY <1>7 DEF ReplaceItemInObject
  <2>2. PICK x \in 1..Len(s) : GetItem(k, cs) = s[x] /\ At(List, GetItem(k, cs)) = x
    BY <1>1, <1>7, FoundAt
  <2>3. QED
    BY <1>4, <2>1, <2>2
<1>8. QED
  BY <1>5, <1>6, <1>7

\* Lists that are made at once are the lists that were asked for, a copy with
\* the names of its original,
LEMMA MakingCalls ==
    ASSUME ListInv
    PROVE  MakingLists
<1> SUFFICES ASSUME NEW items \in SeqOf(In("free"), MaxMade) \ {<<>>}, IsInjective(items)
             PROVE  /\ CreateArrayOf(items) => List' = items
                    /\ DuplicateArray(items) =>
                           /\ List' = items
                           /\ \A x \in 1..Len(items) : string'[items[x]] = string[List[x]]
  BY DEF MakingLists
<1>1. items \in Seq(Item) /\ items # <<>>
  BY MadeOf
<1>2. ASSUME CreateArrayOf(items)
      PROVE  List' = items
  BY <1>1, <1>2, CreateArrayKeeps, ListBecomes
<1>3. ASSUME DuplicateArray(items)
      PROVE  List' = items /\ \A x \in 1..Len(items) : string'[items[x]] = string[List[x]]
  BY <1>1, <1>3, DuplicateKeeps, ListBecomes
<1>4. QED
  BY <1>2, <1>3

\* and the other calls leave the list alone, or nothing of it.
LEMMA OtherCalls ==
    ASSUME ListInv
    PROVE  OthersLeaveIt
<1>1. ASSUME Create \/ \E i \in Item : DeleteHeld(i)
      PROVE  List' = List
  BY <1>1, SameList DEF Create, DeleteHeld
<1>2. ASSUME NEW i \in Item, NEW k \in Key, AddItemReferenceToObject(k, i), where'[i] # "listed"
      PROVE  List' = List
  <2>1. ~Move(i, "listed")
    BY <1>2 DEF Move, ListInv, ListTypes
  <2>2. QED
    BY <1>2, <2>1, SameList DEF AddItemReferenceToObject
<1>3. ASSUME DeleteList
      PROVE  List' = <<>>
  BY <1>3, DeleteKeeps, ListBecomes
<1>4. QED
  BY <1>1, <1>2, <1>3 DEF OthersLeaveIt

\* Every call does to the links what its name says to a sequence, for lists of
\* every length: what is added, by itself or by reference, comes last; what is
\* inserted, detached, deleted or replaced, by index or by name, is so in its
\* place; a copy has the items and the names of its original in their order.
THEOREM CallsAreTheirSequences == LibrarySpec => CallsMeanWhatTheySay
<1> DEFINE Says == /\ AddingAppends /\ InsertingInserts /\ TakingRemoves
                   /\ ReplacingReplaces /\ MakingLists /\ OthersLeaveIt
<1>1. ListInv => [Says]_listVars
  BY AddingCalls, InsertingCalls, TakingCalls, ReplacingCalls, MakingCalls, OtherCalls
<1>2. CallsMeanWhatTheySay <=> [][Says]_listVars
  BY DEF CallsMeanWhatTheySay
<1> HIDE DEF Says
<1>3. QED
  BY <1>1, <1>2, LibraryListInv, PTL

\* As long as no copy of a name has failed, a name finds the first member of that
\* name, and what it does not find is not there.
THEOREM NamesFindMembers == LibrarySpec => []MembersAreFound
<1>1. ListInv => MembersAreFound
  <2> SUFFICES ASSUME ListInv, kind = "Object", ~nameless
               PROVE  /\ \A i \in Range(List) : string[i] \in Key
                      /\ \A k \in Key, cs \in BOOLEAN :
                             LET Fits(i) == string[i] = k \/ (~cs /\ Lower[string[i]] = Lower[k])
                                 found == GetItem(k, cs)
                             IN  IF found = NoItem THEN \A i \in Range(List) : ~Fits(i)
                                 ELSE \E x \in 1..Len(List) :
                                          /\ List[x] = found /\ Fits(found)
                                          /\ \A y \in 1..(x - 1) : ~Fits(List[y])
    BY DEF MembersAreFound
  <2>1. PICK s : Whole(s)
    BY DEF ListInv
  <2>2. List = s /\ s \in Seq(Item) /\ IsInjective(s) /\ Range(s) = In("listed")
    BY <2>1, ListIs
  <2>3. \A i \in Range(s) : string[i] \in Key
    BY <2>2 DEF ListInv, ListNames
  <2>4. ASSUME NEW k \in Key, NEW cs \in BOOLEAN
        PROVE  LET Fits(i) == string[i] = k \/ (~cs /\ Lower[string[i]] = Lower[k])
                   found == GetItem(k, cs)
               IN  IF found = NoItem THEN \A i \in Range(List) : ~Fits(i)
                   ELSE \E x \in 1..Len(List) :
                            /\ List[x] = found /\ Fits(found)
                            /\ \A y \in 1..(x - 1) : ~Fits(List[y])
    <3> DEFINE Fits(i) == string[i] = k \/ (~cs /\ Lower[string[i]] = Lower[k])
    <3>1. \A x \in 1..Len(s) : /\ s[x] \in Range(s) /\ s[x] # NoItem
                               /\ string[s[x]] \in Key /\ string[s[x]] # NoItem
                               /\ Stops(s[x], k, cs) <=> Fits(s[x])
      BY <2>2, <2>3, Places, NamesAssumption DEF Stops
    <3>2. \A i \in Range(s) : \E x \in 1..Len(s) : i = s[x]
      BY <2>2, Places
    <3> HIDE DEF Fits
    <3>3. CASE GetItem(k, cs) = NoItem /\ \A x \in 1..Len(s) : ~Stops(s[x], k, cs)
      <4>1. \A i \in Range(s) : ~Fits(i)
        BY <3>1, <3>2, <3>3
      <4>2. QED
        BY <2>2, <3>3, <4>1 DEF Fits
    <3>4. CASE \E found \in 1..Len(s) :
                  /\ Stops(s[found], k, cs)
                  /\ \A y \in 1..(found - 1) : ~Stops(s[y], k, cs)
                  /\ GetItem(k, cs) = IF string[s[found]] = NoItem THEN NoItem ELSE s[found]
      <4>1. PICK x \in 1..Len(s) :
                  /\ Stops(s[x], k, cs)
                  /\ \A y \in 1..(x - 1) : ~Stops(s[y], k, cs)
                  /\ GetItem(k, cs) = IF string[s[x]] = NoItem THEN NoItem ELSE s[x]
        BY <3>4
      <4>2. GetItem(k, cs) = s[x] /\ GetItem(k, cs) # NoItem /\ Fits(s[x])
        BY <3>1, <4>1
      <4>3. ASSUME NEW y \in 1..(x - 1)
            PROVE  ~Fits(s[y])
        <5>1. y \in 1..Len(s)
          BY <2>2
        <5>2. QED
          BY <3>1, <4>1, <5>1
      <4>4. QED
        BY <2>2, <4>2, <4>3 DEF Fits
    <3>5. QED
      BY <2>1, <3>3, <3>4, Search
  <2>5. QED
    BY <2>2, <2>3, <2>4
<1>2. QED
  BY <1>1, LibraryListInv, PTL

-----------------------------------------------------------------------------
(* The memory of the parser *)

\* A node and its links.
Kinds == {"Invalid", "Value", "String", "Array", "Object", Freed}
Node == [type : Kinds, valuestring : BOOLEAN, string : BOOLEAN, child : Nat, next : Nat, prev : Nat]

\* A heap whose links lead to younger nodes.
Upward(h) ==
    /\ h \in Seq(Node)
    /\ \A m \in 1..Len(h) : /\ h[m].child = NULL \/ h[m].child \in (m + 1)..Len(h)
                            /\ h[m].next = NULL \/ h[m].next \in (m + 1)..Len(h)

\* Walk follows its recursion: the definition CHOOSEs a function on numbers, and
\* one exists because the links only lead to younger nodes.
LEMMA WalkSteps ==
    ASSUME NEW h, Upward(h)
    PROVE  /\ Walk(h, NULL) = <<>>
           /\ \A m \in 1..Len(h) : Walk(h, m) = Walk(h, h[m].child) \o <<m>> \o Walk(h, h[m].next)
<1> DEFINE N == Len(h)
           Step(f, m) == IF m = NULL THEN <<>> ELSE f[h[m].child] \o <<m>> \o f[h[m].next]
           Walks(f) == f = [m \in 0..N |-> Step(f, m)]
           walk == CHOOSE f : Walks(f)
           Late(k) == {m \in 0..N : m = 0 \/ m > N - k}
           Partly(f, k) == /\ f = [m \in 0..N |-> f[m]]
                           /\ \A m \in Late(k) : f[m] = Step(f, m)
           S == {k \in Nat : k <= N => \E f : Partly(f, k)}
<1>1. N \in Nat
  BY DEF Upward
<1>2. \A m \in 1..N : /\ h[m].child = 0 \/ h[m].child \in (m + 1)..N
                      /\ h[m].next = 0 \/ h[m].next \in (m + 1)..N
  BY DEF Upward, NULL
<1>3. 0 \in S
  <2> DEFINE f == [m \in 0..N |-> <<>>]
  <2>1. Late(0) = {0}
    BY <1>1
  <2>2. Partly(f, 0)
    BY <2>1, <1>1 DEF NULL
  <2>3. QED
    BY <2>2
<1>4. ASSUME NEW k \in S
      PROVE  k + 1 \in S
  <2> SUFFICES ASSUME k + 1 <= N
               PROVE  \E f : Partly(f, k + 1)
    OBVIOUS
  <2>1. k \in Nat /\ k <= N
    BY <1>1
  <2>2. PICK f : Partly(f, k)
    BY <2>1
  <2> DEFINE x == N - k
             v == Step(f, x)
             g == [m \in 0..N |-> IF m = x THEN v ELSE f[m]]
  <2>3. x \in 1..N /\ x # 0
    BY <1>1, <2>1
  <2>4. ASSUME NEW m \in Late(k + 1)
        PROVE  g[m] = Step(g, m)
    <3>1. m \in 0..N /\ (m = x \/ m \in Late(k))
      BY <1>1, <2>1
    <3>2. CASE m = 0
      <4>1. g[m] = f[m] /\ m \in Late(k)
        BY <2>3, <3>1, <3>2
      <4>2. f[m] = Step(f, m)
        BY <2>2, <4>1
      <4>3. QED
        BY <3>2, <4>1, <4>2 DEF NULL
    <3>3. CASE m # 0
      <4>1. m \in 1..N /\ m >= x
        BY <1>1, <2>1, <3>1, <3>3
      <4> DEFINE c == h[m].child
                 n == h[m].next
      <4>2. (c = 0 \/ c \in (m + 1)..N) /\ (n = 0 \/ n \in (m + 1)..N)
        BY <1>2, <4>1
      <4>3. c \in 0..N /\ c # x /\ n \in 0..N /\ n # x
        BY <1>1, <2>3, <4>1, <4>2
      <4>4. g[c] = f[c] /\ g[n] = f[n]
        BY <4>3
      <4>5. Step(g, m) = Step(f, m)
        BY <4>4
      <4>6. g[m] = Step(f, m)
        <5>1. CASE m = x
          BY <3>1, <5>1
        <5>2. CASE m # x
          <6>1. g[m] = f[m] /\ m \in Late(k)
            BY <3>1, <5>2
          <6>2. QED
            BY <2>2, <6>1
        <5>3. QED
          BY <5>1, <5>2
      <4>7. QED
        BY <4>5, <4>6
    <3>4. QED
      BY <3>2, <3>3
  <2>5. Partly(g, k + 1)
    <3>1. \A m \in Late(k + 1) : g[m] = Step(g, m)
      BY <2>4
    <3>2. g = [m \in 0..N |-> g[m]]
      OBVIOUS
    <3> HIDE DEF g, Step, Late
    <3>3. QED
      BY <3>1, <3>2
  <2>6. QED
    BY <2>5
<1> HIDE DEF Partly, Step
<1>5. N \in S
  <2> HIDE DEF S
  <2>1. \A k \in S \intersect Nat : k + 1 \in S
    BY <1>4
  <2>2. QED
    BY <1>1, <1>3, <2>1, SetInduction
<1>6. \E f : Walks(f)
  <2>1. PICK f : Partly(f, N)
    BY <1>1, <1>5
  <2>2. Late(N) = 0..N
    BY <1>1
  <2>3. Walks(f)
    BY <2>1, <2>2 DEF Partly
  <2>4. QED
    BY <2>3
<1>7. Walks(walk)
  BY <1>6
<1>8. \A n : Walk(h, n) = walk[n]
  BY DEF Walk, Step
<1> HIDE DEF walk
<1>9. \A m \in 0..N : walk[m] = Step(walk, m)
  BY <1>7
<1>10. walk[0] = <<>>
  <2>1. 0 \in 0..N
    BY <1>1
  <2>2. walk[0] = Step(walk, 0)
    BY <1>9, <2>1
  <2>3. Step(walk, 0) = <<>>
    BY DEF Step, NULL
  <2>4. QED
    BY <2>2, <2>3
<1>11. ASSUME NEW m \in 1..N
       PROVE  walk[m] = walk[h[m].child] \o <<m>> \o walk[h[m].next]
  <2>1. m \in 0..N /\ m # 0
    BY <1>1
  <2>2. QED
    BY <1>9, <2>1 DEF Step, NULL
<1>12. QED
  BY <1>8, <1>10, <1>11 DEF NULL

-----------------------------------------------------------------------------
(* The invariant of the parser *)

\* The last node of what hangs below m, or m; e[n] is the last node that
\* cJSON_Delete(n) walks over.
Below(h, e, m) == IF h[m].child = NULL THEN m ELSE e[h[m].child]

\* The nodes are in the order of the text: first the item, then what hangs
\* below it, then what follows it.
InTextOrder(h, e, m) ==
    /\ h[m].child # NULL => h[m].child = m + 1 /\ m + 1 <= Len(h)
    /\ h[m].next = NULL => e[m] = Below(h, e, m)
    /\ h[m].next # NULL => /\ h[m].next = Below(h, e, m) + 1
                           /\ h[m].next <= Len(h)
                           /\ e[h[m].next] = e[m]

TextOrder(h, e) ==
    /\ h \in Seq(Node)
    /\ e \in [1..Len(h) -> Nat]
    /\ \A m \in 1..Len(h) : e[m] \in m..Len(h) /\ InTextOrder(h, e, m)

\* A list that still grows, from f to t: with what hangs below t it ends at x.
Growing(h, e, f, t, x) ==
    /\ t \in f..x
    /\ h[t].next = NULL
    /\ e[f] = x /\ e[t] = x
    /\ \A m \in f..(t - 1) : Below(h, e, m) < t

\* The lists of the recursion; the root is a list of its own.
FirstIn(fr, i) == IF i = 0 THEN Root ELSE fr[i].head
LastIn(fr, i) == IF i = 0 THEN Root ELSE fr[i].last

\* A call of parse_array or parse_object; head and last are NULL before its
\* first item.
Frame == [item : Nat, kind : {"Array", "Object"}, head : Nat, last : Nat]

\* Each list but the innermost ends where it last grew, the innermost at end.
\* The item of a call is the last of the list around it, has nothing below it
\* yet, and nothing older reaches beyond it.  Its own list begins behind it.
Nested(h, e, fr, end) ==
    /\ fr \in Seq(Frame)
    /\ \A i \in 0..Len(fr) : FirstIn(fr, i) # NULL =>
           /\ LastIn(fr, i) <= end
           /\ Growing(h, e, FirstIn(fr, i), LastIn(fr, i), IF i = Len(fr) THEN end ELSE LastIn(fr, i))
    /\ \A i \in 1..Len(fr) :
           /\ fr[i].item = LastIn(fr, i - 1)
           /\ \A j \in 0..(i - 1) : LastIn(fr, j) <= fr[i].item
           /\ h[fr[i].item].child = NULL
           /\ \A m \in 1..fr[i].item : e[m] <= fr[i].item
           /\ fr[i].head = NULL => i = Len(fr) /\ fr[i].last = NULL /\ fr[i].item = end
           /\ fr[i].head # NULL => fr[i].head = fr[i].item + 1

\* Freed are the nodes behind end.
FreedBeyond(h, end) == \A m \in 1..Len(h) : h[m].type = Freed <=> m > end

\* The tree up to the node end is there, the rest is freed.
Tree(h, e, fr, end) ==
    /\ TextOrder(h, e)
    /\ Nested(h, e, fr, end)
    /\ end \in 1..Len(h)
    /\ FreedBeyond(h, end)

\* The state: a tree up to end, and the strings that its nodes own.
Standing(end) == (\E e : Tree(heap, e, frames, end)) /\ strings = Owned(heap, 1..end)

Reading == {"value", "first", "element", "name", "colon", "after", "accepted"}

\* While the text is read the tree is all that was ever allocated, on the way
\* out it is a part of it, and at the end nothing.  An item gets its string and
\* its name only while it is the youngest and has none.
ParseInv ==
    /\ ~wild
    /\ pc \in Reading \union {"start", "fail", "refused", "deleted"}
    /\ pc = "start" => heap = <<>> /\ strings = 0 /\ frames = <<>>
    /\ pc \in Reading => Standing(Len(heap))
    /\ pc = "fail" => \E end \in 1..Len(heap) : Standing(end)
    /\ pc \in {"refused", "deleted"} => strings = 0 /\ \A m \in DOMAIN heap : IsFreed(m)
    /\ pc \in {"value", "name", "colon"} => Current = Len(heap) /\ ~heap[Len(heap)].valuestring
    /\ pc = "name" => ~heap[Len(heap)].string
    /\ pc \in {"first", "element", "name", "colon", "after"} => frames # <<>>
    /\ pc = "first" => Top.head = NULL
    /\ pc = "after" => Top.head # NULL
    /\ pc = "accepted" => frames = <<>>
-----------------------------------------------------------------------------
(* The nodes that cJSON_Delete walks over *)

\* A sequence that lists a set, each element once.
Lists(w, S) ==
    /\ w \in Seq(Nat)
    /\ Range(w) = S
    /\ \A x, y \in DOMAIN w : w[x] = w[y] => x = y

\* The empty sequence, a single node, and two sequences of different nodes.
LEMMA ListsNone == Lists(<<>>, {})
  BY DEF Lists, Range

LEMMA ListsOne ==
    ASSUME NEW m \in Nat
    PROVE  Lists(<<m>>, {m})
  BY DEF Lists, Range

LEMMA ListsJoined ==
    ASSUME NEW u, NEW w, NEW A, NEW B, Lists(u, A), Lists(w, B), A \intersect B = {}
    PROVE  Lists(u \o w, A \union B)
<1> DEFINE z == u \o w
<1>1. u \in Seq(Nat) /\ w \in Seq(Nat)
  BY DEF Lists
<1>2. /\ z \in Seq(Nat)
      /\ Len(z) = Len(u) + Len(w)
      /\ DOMAIN z = 1..(Len(u) + Len(w))
      /\ \A i \in 1..(Len(u) + Len(w)) : z[i] = IF i <= Len(u) THEN u[i] ELSE w[i - Len(u)]
  BY <1>1
<1>3. /\ A = {u[i] : i \in 1..Len(u)} /\ B = {w[i] : i \in 1..Len(w)}
      /\ Len(u) \in Nat /\ Len(w) \in Nat
      /\ \A x, y \in 1..Len(u) : u[x] = u[y] => x = y
      /\ \A x, y \in 1..Len(w) : w[x] = w[y] => x = y
  BY <1>1 DEF Lists, Range
<1> HIDE DEF z
<1>4. Range(z) \subseteq A \union B
  <2> SUFFICES ASSUME NEW i \in 1..(Len(u) + Len(w))
               PROVE  z[i] \in A \union B
    BY <1>2 DEF Range
  <2>1. CASE i <= Len(u)
    <3>1. i \in 1..Len(u) /\ z[i] = u[i]
      BY <1>2, <1>3, <2>1
    <3>2. QED
      BY <1>3, <3>1
  <2>2. CASE i > Len(u)
    <3>1. i - Len(u) \in 1..Len(w) /\ z[i] = w[i - Len(u)]
      BY <1>2, <1>3, <2>2
    <3>2. QED
      BY <1>3, <3>1
  <2>3. QED
    BY <1>3, <2>1, <2>2
<1>5. A \union B \subseteq Range(z)
  <2>1. ASSUME NEW i \in 1..Len(u)
        PROVE  u[i] \in Range(z)
    <3>1. i \in DOMAIN z /\ z[i] = u[i]
      BY <1>2, <1>3
    <3>2. QED
      BY <3>1 DEF Range
  <2>2. ASSUME NEW i \in 1..Len(w)
        PROVE  w[i] \in Range(z)
    <3> DEFINE j == i + Len(u)
    <3>1. j \in 1..(Len(u) + Len(w)) /\ ~(j <= Len(u)) /\ j - Len(u) = i
      BY <1>3
    <3> HIDE DEF j
    <3>2. j \in DOMAIN z /\ z[j] = w[i]
      BY <1>2, <3>1
    <3>3. QED
      BY <3>2 DEF Range
  <2>3. QED
    BY <1>3, <2>1, <2>2
<1>6. ASSUME NEW x \in DOMAIN z, NEW y \in DOMAIN z, z[x] = z[y]
      PROVE  x = y
  <2> DEFINE p == Len(u)
             q == Len(w)
             v(i) == IF i <= p THEN u[i] ELSE w[i - p]
  <2>1. x \in 1..(p + q) /\ y \in 1..(p + q) /\ v(x) = v(y) /\ p \in Nat /\ q \in Nat
    BY <1>2, <1>3, <1>6
  <2>2. ASSUME NEW i \in 1..(p + q)
        PROVE  \/ i \in 1..p /\ i <= p /\ v(i) = u[i] /\ u[i] \in A
               \/ ~(i <= p) /\ i - p \in 1..q /\ v(i) = w[i - p] /\ w[i - p] \in B
    <3>1. CASE i <= p
      <4>1. i \in 1..p
        BY <2>1, <3>1
      <4>2. QED
        BY <1>3, <3>1, <4>1
    <3>2. CASE ~(i <= p)
      <4>1. i - p \in 1..q
        BY <2>1, <3>2
      <4>2. QED
        BY <1>3, <3>2, <4>1
    <3>3. QED
      BY <3>1, <3>2
  <2> HIDE DEF v
  <2>3. \/ x \in 1..p /\ y \in 1..p /\ u[x] = u[y]
        \/ x - p \in 1..q /\ y - p \in 1..q /\ w[x - p] = w[y - p]
    BY <2>1, <2>2
  <2>4. CASE x \in 1..p /\ y \in 1..p /\ u[x] = u[y]
    BY <1>3, <2>4
  <2>5. CASE x - p \in 1..q /\ y - p \in 1..q /\ w[x - p] = w[y - p]
    <3>1. x - p = y - p
      BY <1>3, <2>5
    <3>2. QED
      BY <2>1, <3>1
  <2>6. QED
    BY <2>3, <2>4, <2>5
<1>7. QED
  BY <1>2, <1>4, <1>5, <1>6 DEF Lists, z

\* In the order of the text links lead to younger nodes.
LEMMA OrderIsUpward ==
    ASSUME NEW h, NEW e, TextOrder(h, e)
    PROVE  Upward(h)
<1>1. h \in Seq(Node) /\ Len(h) \in Nat
  BY DEF TextOrder
<1>2. ASSUME NEW m \in 1..Len(h)
      PROVE  /\ h[m].child = NULL \/ h[m].child \in (m + 1)..Len(h)
             /\ h[m].next = NULL \/ h[m].next \in (m + 1)..Len(h)
  <2>1. InTextOrder(h, e, m) /\ e[m] \in m..Len(h)
    BY DEF TextOrder
  <2>2. h[m].child # NULL => h[m].child = m + 1 /\ m + 1 <= Len(h)
    BY <2>1 DEF InTextOrder
  <2>3. Below(h, e, m) \in Nat /\ Below(h, e, m) >= m
    <3>1. CASE h[m].child = NULL
      BY <3>1, <1>1 DEF Below
    <3>2. CASE h[m].child # NULL
      <4>1. m + 1 \in 1..Len(h) /\ Below(h, e, m) = e[m + 1]
        BY <1>1, <2>2, <3>2 DEF Below
      <4>2. e[m + 1] \in (m + 1)..Len(h)
        BY <4>1 DEF TextOrder
      <4>3. QED
        BY <1>1, <4>1, <4>2
    <3>3. QED
      BY <3>1, <3>2
  <2>4. h[m].next # NULL => h[m].next = Below(h, e, m) + 1 /\ h[m].next <= Len(h)
    BY <2>1 DEF InTextOrder
  <2>5. QED
    BY <1>1, <2>2, <2>3, <2>4
<1>3. QED
  BY <1>1, <1>2 DEF Upward

\* What cJSON_Delete walks over are the nodes from n to e[n], each once.
LEMMA WalkListsAll ==
    ASSUME NEW h, NEW e, TextOrder(h, e)
    PROVE  \A m \in 1..Len(h) : Lists(Walk(h, m), m..e[m])
<1> DEFINE N == Len(h)
           S == {k \in Nat : \A m \in 1..N : m > N - k => Lists(Walk(h, m), m..e[m])}
<1>1. h \in Seq(Node) /\ N \in Nat
  BY DEF TextOrder
<1>2. /\ Walk(h, NULL) = <<>>
      /\ \A m \in 1..N : Walk(h, m) = Walk(h, h[m].child) \o <<m>> \o Walk(h, h[m].next)
  BY OrderIsUpward, WalkSteps
<1>3. 0 \in S
  BY <1>1
<1>4. ASSUME NEW k \in S, k \in Nat
      PROVE  k + 1 \in S
  <2> SUFFICES ASSUME NEW m \in 1..N, m = N - k
               PROVE  Lists(Walk(h, m), m..e[m])
    BY <1>1, <1>4
  <2>1. \A j \in 1..N : j > m => Lists(Walk(h, j), j..e[j])
    <3> SUFFICES ASSUME NEW j \in 1..N, j > m
                 PROVE  Lists(Walk(h, j), j..e[j])
      OBVIOUS
    <3>1. j > N - k
      OBVIOUS
    <3>2. QED
      BY <3>1
  <2> DEFINE c == h[m].child
             n == h[m].next
             b == Below(h, e, m)
  <2>2. InTextOrder(h, e, m) /\ e[m] \in m..N
    BY DEF TextOrder
  <2>3. Walk(h, m) = Walk(h, c) \o <<m>> \o Walk(h, n)
    BY <1>2
  <2>4. b \in m..N /\ Lists(Walk(h, c), (m + 1)..b)
    <3>1. CASE c = NULL
      <4>1. b = m /\ Walk(h, c) = <<>> /\ (m + 1)..b = {}
        BY <1>1, <1>2, <3>1 DEF Below
      <4>2. QED
        BY <4>1, ListsNone
    <3>2. CASE c # NULL
      <4>1. c = m + 1 /\ c \in 1..N /\ c > m /\ b = e[c]
        BY <1>1, <2>2, <3>2 DEF InTextOrder, Below
      <4>2. e[c] \in c..N
        BY <4>1 DEF TextOrder
      <4>3. Lists(Walk(h, c), c..e[c])
        BY <2>1, <4>1
      <4>4. QED
        BY <1>1, <4>1, <4>2, <4>3
    <3>3. QED
      BY <3>1, <3>2
  <2>5. Lists(Walk(h, n), (b + 1)..e[m]) /\ e[m] >= b
    <3>1. CASE n = NULL
      <4>1. e[m] = b /\ Walk(h, n) = <<>>
        BY <1>2, <2>2, <3>1 DEF InTextOrder
      <4>2. (b + 1)..e[m] = {}
        BY <1>1, <2>4, <4>1
      <4>3. QED
        <5>1. Lists(Walk(h, n), (b + 1)..e[m])
          BY <4>1, <4>2, ListsNone
        <5>2. QED
          BY <1>1, <2>2, <2>4, <4>1, <5>1
    <3>2. CASE n # NULL
      <4>1. n = b + 1 /\ n <= N /\ e[n] = e[m]
        BY <2>2, <3>2 DEF InTextOrder
      <4>2. n \in 1..N /\ n > m
        BY <1>1, <2>4, <4>1
      <4>3. e[n] \in n..N
        BY <4>2 DEF TextOrder
      <4>4. Lists(Walk(h, n), n..e[n])
        BY <2>1, <4>2
      <4>5. QED
        BY <1>1, <2>4, <4>1, <4>3, <4>4
    <3>3. QED
      BY <3>1, <3>2
  <2> HIDE DEF c, n, b
  <2>6. Lists(Walk(h, c) \o <<m>>, m..b)
    <3>1. ((m + 1)..b) \union {m} = m..b /\ ((m + 1)..b) \intersect {m} = {}
      BY <1>1, <2>4
    <3>2. Lists(<<m>>, {m})
      BY <1>1, ListsOne
    <3>3. QED
      BY <2>4, <3>1, <3>2, ListsJoined
  <2>7. (m..b) \union ((b + 1)..e[m]) = m..e[m] /\ (m..b) \intersect ((b + 1)..e[m]) = {}
    BY <1>1, <2>2, <2>4, <2>5
  <2>8. Lists((Walk(h, c) \o <<m>>) \o Walk(h, n), (m..b) \union ((b + 1)..e[m]))
    BY <2>5, <2>6, <2>7, ListsJoined
  <2>9. QED
    BY <2>3, <2>7, <2>8
<1>5. N \in S
  <2> HIDE DEF S
  <2>1. \A k \in S \intersect Nat : k + 1 \in S
    BY <1>4
  <2>2. QED
    BY <1>1, <1>3, <2>1, SetInduction
<1>6. QED
  <2>1. \A m \in 1..N : m > N - N
    BY <1>1
  <2>2. QED
    BY <1>5, <2>1

-----------------------------------------------------------------------------
(* Strings *)

\* What nodes own is what is written in them.
LEMMA OwnedSame ==
    ASSUME NEW h, NEW g, NEW S,
           \A m \in S : g[m].valuestring = h[m].valuestring /\ g[m].string = h[m].string
    PROVE  Owned(g, S) = Owned(h, S)
<1>1. {m \in S : g[m].valuestring} = {m \in S : h[m].valuestring}
  OBVIOUS
<1>2. {m \in S : g[m].string} = {m \in S : h[m].string}
  OBVIOUS
<1>3. QED
  BY <1>1, <1>2 DEF Owned

\* The parts of an interval own what the whole owns.
LEMMA OwnedParts ==
    ASSUME NEW h, NEW a \in Nat, NEW b \in Nat, a <= b
    PROVE  /\ Owned(h, 1..b) = Owned(h, 1..a) + Owned(h, (a + 1)..b)
           /\ Owned(h, 1..a) \in Nat /\ Owned(h, (a + 1)..b) \in Nat
<1>1. ASSUME NEW V
      PROVE  /\ Cardinality((1..b) \intersect V) =
                    Cardinality((1..a) \intersect V) + Cardinality(((a + 1)..b) \intersect V)
             /\ Cardinality((1..a) \intersect V) \in Nat
             /\ Cardinality(((a + 1)..b) \intersect V) \in Nat
  <2> DEFINE S == (1..a) \intersect V
             T == ((a + 1)..b) \intersect V
  <2>1. IsFiniteSet(1..a) /\ IsFiniteSet((a + 1)..b)
    BY FS_Interval
  <2>2. IsFiniteSet(S) /\ IsFiniteSet(T)
    BY <2>1, FS_Subset
  <2>3. (1..b) \intersect V = S \union T
    <3>1. \A m : m \in 1..b <=> m \in 1..a \/ m \in (a + 1)..b
      OBVIOUS
    <3>2. QED
      BY <3>1
  <2>4. S \intersect T = {}
    OBVIOUS
  <2> HIDE DEF S, T
  <2>5. Cardinality(S) \in Nat /\ Cardinality(T) \in Nat
    BY <2>2, FS_CardinalityType
  <2>6. Cardinality(S \union T) = Cardinality(S) + Cardinality(T)
    <3>1. Cardinality(S \union T) = Cardinality(S) + Cardinality(T) - Cardinality(S \intersect T)
      BY <2>2, FS_Union
    <3>2. Cardinality(S \intersect T) = 0
      BY <2>4, FS_EmptySet
    <3>3. QED
      BY <2>5, <3>1, <3>2
  <2>7. QED
    BY <2>3, <2>5, <2>6 DEF S, T
<1> DEFINE V == {m \in 1..b : h[m].valuestring}
           W == {m \in 1..b : h[m].string}
<1>2. ASSUME NEW S, S \subseteq 1..b
      PROVE  Owned(h, S) = Cardinality(S \intersect V) + Cardinality(S \intersect W)
  <2>1. {m \in S : h[m].valuestring} = S \intersect V /\ {m \in S : h[m].string} = S \intersect W
    BY <1>2
  <2>2. QED
    BY <2>1 DEF Owned
<1>3. 1..a \subseteq 1..b /\ (a + 1)..b \subseteq 1..b
  OBVIOUS
<1> HIDE DEF V, W
<1>4. /\ Owned(h, 1..b) = Cardinality((1..b) \intersect V) + Cardinality((1..b) \intersect W)
      /\ Owned(h, 1..a) = Cardinality((1..a) \intersect V) + Cardinality((1..a) \intersect W)
      /\ Owned(h, (a + 1)..b) = Cardinality(((a + 1)..b) \intersect V)
                                + Cardinality(((a + 1)..b) \intersect W)
  BY <1>2, <1>3
<1>5. /\ Cardinality((1..b) \intersect V) =
                Cardinality((1..a) \intersect V) + Cardinality(((a + 1)..b) \intersect V)
      /\ Cardinality((1..a) \intersect V) \in Nat
      /\ Cardinality(((a + 1)..b) \intersect V) \in Nat
  BY <1>1
<1>6. /\ Cardinality((1..b) \intersect W) =
                Cardinality((1..a) \intersect W) + Cardinality(((a + 1)..b) \intersect W)
      /\ Cardinality((1..a) \intersect W) \in Nat
      /\ Cardinality(((a + 1)..b) \intersect W) \in Nat
  BY <1>1
<1>7. QED
  BY <1>4, <1>5, <1>6

\* The nodes before n, and those from n on.
LEMMA OwnedBefore ==
    ASSUME NEW h, NEW n, NEW end, n - 1 \in Nat, end \in Nat, n - 1 <= end, (n - 1) + 1 = n
    PROVE  /\ Owned(h, 1..end) = Owned(h, 1..(n - 1)) + Owned(h, n..end)
           /\ Owned(h, 1..(n - 1)) \in Nat /\ Owned(h, n..end) \in Nat
<1> DEFINE k == n - 1
<1>1. k \in Nat /\ k <= end /\ k + 1 = n
  OBVIOUS
<1> HIDE DEF k
<1>2. /\ Owned(h, 1..end) = Owned(h, 1..k) + Owned(h, (k + 1)..end)
      /\ Owned(h, 1..k) \in Nat /\ Owned(h, (k + 1)..end) \in Nat
  BY <1>1, OwnedParts
<1>3. QED
  BY <1>1, <1>2 DEF k

-----------------------------------------------------------------------------
(* Lists that grow *)

\* Every item and every end of a list is a node that is there.
LEMMA ListBounds ==
    ASSUME NEW h, NEW e, NEW fr, NEW end \in 1..Len(h), h \in Seq(Node), Nested(h, e, fr, end)
    PROVE  /\ fr \in Seq(Frame) /\ Len(fr) \in Nat
           /\ \A i \in 1..Len(fr) : fr[i] \in Frame
           /\ \A i \in 0..Len(fr) : FirstIn(fr, i) # NULL =>
                  FirstIn(fr, i) \in 1..end /\ LastIn(fr, i) \in FirstIn(fr, i)..end
           /\ \A i \in 1..Len(fr) : fr[i].item \in 1..end /\ FirstIn(fr, i - 1) # NULL
<1>1. fr \in Seq(Frame) /\ Len(fr) \in Nat /\ Len(h) \in Nat
  BY DEF Nested
<1>2. \A i \in 1..Len(fr) : fr[i] \in Frame
  BY <1>1
<1>3. ASSUME NEW i \in 0..Len(fr), FirstIn(fr, i) # NULL
      PROVE  FirstIn(fr, i) \in 1..end /\ LastIn(fr, i) \in FirstIn(fr, i)..end
  <2>1. FirstIn(fr, i) \in Nat /\ FirstIn(fr, i) # 0
    <3>1. i = 0 \/ i \in 1..Len(fr)
      BY <1>1
    <3>2. CASE i = 0
      BY <3>2 DEF FirstIn, Root
    <3>3. CASE i # 0 /\ i \in 1..Len(fr)
      <4>1. FirstIn(fr, i) = fr[i].head
        BY <3>3 DEF FirstIn
      <4>2. fr[i].head \in Nat
        BY <1>2, <3>3 DEF Frame
      <4>3. QED
        BY <1>3, <4>1, <4>2 DEF NULL
    <3>4. QED
      BY <3>1, <3>2, <3>3
  <2> DEFINE x == IF i = Len(fr) THEN end ELSE LastIn(fr, i)
  <2>2. LastIn(fr, i) <= end /\ Growing(h, e, FirstIn(fr, i), LastIn(fr, i), x)
    BY <1>3 DEF Nested
  <2>3. LastIn(fr, i) \in FirstIn(fr, i)..x
    BY <2>2 DEF Growing
  <2> HIDE DEF x
  <2>4. QED
    BY <1>1, <2>1, <2>2, <2>3
<1>4. ASSUME NEW i \in 1..Len(fr)
      PROVE  fr[i].item \in 1..end /\ FirstIn(fr, i - 1) # NULL
  <2>1. fr[i].item = LastIn(fr, i - 1)
    BY DEF Nested
  <2>2. FirstIn(fr, i - 1) # NULL
    <3>1. CASE i = 1
      BY <3>1 DEF FirstIn, Root, NULL
    <3>2. CASE i # 1
      <4>1. i - 1 \in 1..Len(fr) /\ i - 1 # Len(fr) /\ i - 1 # 0
        BY <1>1, <3>2
      <4>2. fr[i - 1].head # NULL
        BY <4>1 DEF Nested
      <4>3. QED
        BY <4>1, <4>2 DEF FirstIn
    <3>3. QED
      BY <3>1, <3>2
  <2>3. i - 1 \in 0..Len(fr)
    BY <1>1
  <2>4. FirstIn(fr, i - 1) \in 1..end /\ LastIn(fr, i - 1) \in FirstIn(fr, i - 1)..end
    BY <1>3, <2>2, <2>3
  <2>5. QED
    BY <2>1, <2>2, <2>4
<1>5. QED
  BY <1>1, <1>2, <1>3, <1>4

\* Nothing but links decides about the order and the lists that grow.
LEMMA SameLinks ==
    ASSUME NEW h, NEW g, NEW e, TextOrder(h, e),
           g \in Seq(Node), Len(g) = Len(h),
           \A m \in 1..Len(h) : g[m].child = h[m].child /\ g[m].next = h[m].next
    PROVE  /\ TextOrder(g, e)
           /\ \A fr, end : Nested(h, e, fr, end) /\ end \in 1..Len(h) => Nested(g, e, fr, end)
<1> DEFINE N == Len(h)
<1>1. /\ N \in Nat /\ e \in [1..N -> Nat]
      /\ \A m \in 1..N : e[m] \in m..N /\ InTextOrder(h, e, m)
  BY DEF TextOrder
<1>2. \A m \in 1..N : Below(g, e, m) = Below(h, e, m)
  BY DEF Below
<1>3. \A m \in 1..N : InTextOrder(g, e, m)
  BY <1>1, <1>2 DEF InTextOrder
<1>4. TextOrder(g, e)
  BY <1>1, <1>3 DEF TextOrder
<1>5. ASSUME NEW f \in 1..N, NEW t, NEW x \in 1..N, Growing(h, e, f, t, x)
      PROVE  Growing(g, e, f, t, x)
  <2>1. t \in 1..N /\ t <= x
    BY <1>1, <1>5 DEF Growing
  <2>2. \A m \in f..(t - 1) : m \in 1..N
    BY <1>1, <2>1
  <2>3. QED
    BY <1>2, <1>5, <2>1, <2>2 DEF Growing
<1>6. ASSUME NEW fr, NEW end \in 1..N, Nested(h, e, fr, end)
      PROVE  Nested(g, e, fr, end)
  <2>1. /\ fr \in Seq(Frame) /\ Len(fr) \in Nat /\ h \in Seq(Node)
        /\ \A i \in 0..Len(fr) : FirstIn(fr, i) # NULL =>
               FirstIn(fr, i) \in 1..end /\ LastIn(fr, i) \in FirstIn(fr, i)..end
        /\ \A i \in 1..Len(fr) : fr[i].item \in 1..end
    BY <1>6, ListBounds DEF TextOrder
  <2>2. ASSUME NEW i \in 0..Len(fr), FirstIn(fr, i) # NULL
        PROVE  /\ LastIn(fr, i) <= end
               /\ Growing(g, e, FirstIn(fr, i), LastIn(fr, i), IF i = Len(fr) THEN end ELSE LastIn(fr, i))
    <3> DEFINE x == IF i = Len(fr) THEN end ELSE LastIn(fr, i)
    <3>1. LastIn(fr, i) <= end /\ Growing(h, e, FirstIn(fr, i), LastIn(fr, i), x)
      BY <1>6, <2>2 DEF Nested
    <3>2. FirstIn(fr, i) \in 1..N /\ x \in 1..N
      BY <1>1, <2>1, <2>2
    <3> HIDE DEF x
    <3>3. Growing(g, e, FirstIn(fr, i), LastIn(fr, i), x)
      BY <1>5, <3>1, <3>2
    <3>4. QED
      BY <3>1, <3>3 DEF x
  <2>3. \A i \in 1..Len(fr) : g[fr[i].item].child = h[fr[i].item].child
    BY <1>1, <2>1
  <2>4. QED
    BY <1>6, <2>1, <2>2, <2>3 DEF Nested
<1>7. QED
  BY <1>4, <1>6

\* Deleting the youngest part of the tree.
LEMMA DeleteYoungest ==
    ASSUME NEW e, NEW end \in 1..Len(heap), NEW n \in 1..end,
           TextOrder(heap, e), e[n] = end,
           FreedBeyond(heap, end),
           strings = Owned(heap, 1..end), ~wild, Delete(n)
    PROVE  /\ heap' \in Seq(Node) /\ Len(heap') = Len(heap)
           /\ \A m \in 1..Len(heap) : heap'[m].child = heap[m].child /\ heap'[m].next = heap[m].next
           /\ FreedBeyond(heap', n - 1)
           /\ strings' = Owned(heap', 1..(n - 1))
           /\ ~wild'
<1> DEFINE N == Len(heap)
           nodes == Walk(heap, n)
<1>1. heap \in Seq(Node) /\ N \in Nat /\ n \in 1..N /\ DOMAIN heap = 1..N
  BY DEF TextOrder
<1>2. Lists(nodes, n..end)
  BY <1>1, WalkListsAll
<1> HIDE DEF nodes
<1>3. \A m : Contains(nodes, m) <=> m \in n..end
  <2>1. nodes \in Seq(Nat) /\ DOMAIN nodes = 1..Len(nodes) /\ n..end = {nodes[i] : i \in 1..Len(nodes)}
    BY <1>2 DEF Lists, Range
  <2>2. QED
    BY <2>1 DEF Contains
<1>4. /\ heap' = [m \in 1..N |-> IF Contains(nodes, m) THEN [heap[m] EXCEPT !.type = Freed] ELSE heap[m]]
      /\ strings' = strings - Owned(heap, Range(nodes))
      /\ wild' = (wild \/ \E m \in Range(nodes) : IsFreed(m) \/ \E x, y \in DOMAIN nodes :
                               x # y /\ nodes[x] = nodes[y])
  BY <1>1 DEF Delete, nodes
<1>5. ASSUME NEW m \in 1..N
      PROVE  /\ heap'[m] = IF m \in n..end THEN [heap[m] EXCEPT !.type = Freed] ELSE heap[m]
             /\ heap[m] \in Node
  BY <1>1, <1>3, <1>4
<1>6. ASSUME NEW m \in 1..N
      PROVE  /\ heap'[m] \in Node
             /\ heap'[m].child = heap[m].child /\ heap'[m].next = heap[m].next
             /\ heap'[m].valuestring = heap[m].valuestring /\ heap'[m].string = heap[m].string
             /\ heap'[m].type = IF m \in n..end THEN Freed ELSE heap[m].type
  <2>1. CASE m \in n..end
    <3>1. heap'[m] = [heap[m] EXCEPT !.type = Freed] /\ heap[m] \in Node
      BY <1>5, <2>1
    <3>2. QED
      BY <2>1, <3>1 DEF Node, Kinds
  <2>2. CASE m \notin n..end
    <3>1. heap'[m] = heap[m] /\ heap[m] \in Node
      BY <1>5, <2>2
    <3>2. QED
      BY <2>2, <3>1
  <2>3. QED
    BY <2>1, <2>2
<1>7. heap' \in Seq(Node) /\ Len(heap') = N
  <2>1. heap' = [m \in 1..N |-> heap'[m]]
    BY <1>4
  <2>2. QED
    BY <1>1, <1>6, <2>1
<1>8. FreedBeyond(heap', n - 1)
  <2>1. \A m \in 1..N : heap'[m].type = Freed <=> m > n - 1
    BY <1>1, <1>6 DEF FreedBeyond
  <2>2. QED
    BY <1>7, <2>1 DEF FreedBeyond
<1>9. strings' = Owned(heap', 1..(n - 1))
  <2>1. n - 1 \in Nat /\ end \in Nat /\ n - 1 <= end /\ (n - 1) + 1 = n
    BY <1>1
  <2>2. /\ Owned(heap, 1..end) = Owned(heap, 1..(n - 1)) + Owned(heap, n..end)
        /\ Owned(heap, 1..(n - 1)) \in Nat /\ Owned(heap, n..end) \in Nat
    BY <2>1, OwnedBefore
  <2>3. Range(nodes) = n..end
    BY <1>2 DEF Lists
  <2>4. strings' = Owned(heap, 1..(n - 1))
    BY <1>4, <2>2, <2>3
  <2>5. \A m \in 1..(n - 1) : m \in 1..N
    BY <1>1
  <2>6. Owned(heap', 1..(n - 1)) = Owned(heap, 1..(n - 1))
    BY <1>6, <2>5, OwnedSame
  <2>7. QED
    BY <2>4, <2>6
<1>10. ~wild'
  <2>1. \A m \in Range(nodes) : ~IsFreed(m)
    BY <1>1, <1>2 DEF Lists, IsFreed, FreedBeyond
  <2>2. \A x, y \in DOMAIN nodes : nodes[x] = nodes[y] => x = y
    BY <1>2 DEF Lists
  <2>3. QED
    BY <1>4, <2>1, <2>2
<1>11. QED
  BY <1>6, <1>7, <1>8, <1>9, <1>10

\* The ends, after the list from f to t, which ended where t did, has come to end at y.
Stretch(e, f, t, y) == [m \in DOMAIN e |-> IF m \in f..t /\ e[m] = e[t] THEN y ELSE e[m]]

\* This leaves everything in the text's order but t itself.
LEMMA Stretched ==
    ASSUME NEW h, NEW e, TextOrder(h, e), NEW f \in Nat, NEW t \in 1..Len(h), NEW x \in 1..Len(h),
           Growing(h, e, f, t, x), NEW y,
           \A m \in 1..Len(h) : m < f => e[m] < f,
           \A m \in 1..Len(h) : h[m].child # f
    PROVE  \A m \in 1..Len(h) :
               /\ Below(h, Stretch(e, f, t, y), m) = Below(h, e, m)
               /\ m # t => InTextOrder(h, Stretch(e, f, t, y), m)
<1> DEFINE N == Len(h)
           w == Stretch(e, f, t, y)
           Follows(m) == m \in f..t /\ e[m] = x
<1>1. /\ h \in Seq(Node) /\ N \in Nat /\ e \in [1..N -> Nat]
      /\ \A m \in 1..N : e[m] \in m..N /\ InTextOrder(h, e, m)
  BY DEF TextOrder
<1>2. t \in f..x /\ e[t] = x /\ \A m \in f..(t - 1) : Below(h, e, m) < t
  BY DEF Growing
<1>3. \A m \in 1..N : w[m] = IF Follows(m) THEN y ELSE e[m]
  BY <1>1, <1>2 DEF Stretch
<1> HIDE DEF w
<1> SUFFICES ASSUME NEW m \in 1..N
             PROVE  /\ Below(h, w, m) = Below(h, e, m)
                    /\ m # t => InTextOrder(h, w, m)
  BY DEF w
<1>4. InTextOrder(h, e, m) /\ e[m] \in m..N
  BY <1>1
<1>5. Below(h, e, m) \in m..N
  <2>1. CASE h[m].child = NULL
    BY <1>1, <2>1 DEF Below
  <2>2. CASE h[m].child # NULL
    <3>1. h[m].child = m + 1 /\ m + 1 \in 1..N
      BY <1>1, <1>4, <2>2 DEF InTextOrder
    <3>2. e[m + 1] \in (m + 1)..N
      BY <1>1, <3>1
    <3>3. QED
      BY <1>1, <2>2, <3>1, <3>2 DEF Below
  <2>3. QED
    BY <2>1, <2>2
<1>6. Below(h, w, m) = Below(h, e, m)
  <2>1. CASE h[m].child = NULL
    BY <2>1 DEF Below
  <2>2. CASE h[m].child # NULL
    <3>1. h[m].child = m + 1 /\ m + 1 \in 1..N
      BY <1>1, <1>4, <2>2 DEF InTextOrder
    <3>2. Below(h, e, m) = e[m + 1]
      BY <2>2, <3>1 DEF Below
    <3>3. ~Follows(m + 1)
      <4> SUFFICES ASSUME Follows(m + 1)
                   PROVE  FALSE
        OBVIOUS
      <4>1. m + 1 # f
        BY <3>1
      <4>2. m \in f..(t - 1)
        BY <1>1, <4>1
      <4>3. e[m + 1] < t
        BY <1>2, <3>2, <4>2
      <4>4. QED
        BY <1>1, <1>2, <4>3
    <3>4. w[m + 1] = e[m + 1]
      BY <1>3, <3>1, <3>3
    <3>5. QED
      BY <2>2, <3>1, <3>4 DEF Below
  <2>3. QED
    BY <2>1, <2>2
<1>7. ASSUME m # t
      PROVE  InTextOrder(h, w, m)
  <2> DEFINE b == Below(h, e, m)
             n == h[m].next
  <2>1. CASE n = NULL
    <3>1. e[m] = b
      BY <1>4, <2>1 DEF InTextOrder
    <3>2. ~Follows(m)
      <4> SUFFICES ASSUME Follows(m)
                   PROVE  FALSE
        OBVIOUS
      <4>1. m \in f..(t - 1)
        BY <1>1, <1>7
      <4>2. b < t
        BY <1>2, <4>1
      <4>3. QED
        BY <1>1, <1>2, <3>1, <4>2
    <3>3. w[m] = b
      BY <1>3, <3>1, <3>2
    <3>4. QED
      BY <1>4, <1>6, <2>1, <3>3 DEF InTextOrder
  <2>2. CASE n # NULL
    <3>1. n = b + 1 /\ n <= N /\ e[n] = e[m]
      BY <1>4, <2>2 DEF InTextOrder
    <3>2. b \in Nat /\ m \in Nat /\ m <= b
      BY <1>1, <1>5
    <3> HIDE DEF b, n
    <3>6. n \in 1..N /\ n > m
      BY <1>1, <3>1, <3>2
    <3>7. e[n] \in n..N
      BY <1>1, <3>6
    <3>3. Follows(n) <=> Follows(m)
      <4>0. n \in Nat /\ m \in Nat /\ t \in Nat /\ e[m] \in Nat /\ e[n] >= n
        BY <1>1, <3>1, <3>6, <3>7
      <4>1. CASE m < f
        <5>1. e[m] < f
          BY <4>1
        <5>2. n < f
          BY <3>1, <4>0, <5>1
        <5>3. QED
          BY <4>0, <4>1, <5>2
      <4>2. CASE m > t
        <5>1. n > t
          BY <3>6, <4>0, <4>2
        <5>2. QED
          BY <4>0, <4>2, <5>1
      <4>3. CASE m \in f..(t - 1)
        <5>1. b < t
          BY <1>2, <4>3 DEF b
        <5>2. n \in f..t /\ m \in f..t
          BY <3>1, <3>2, <3>6, <4>0, <4>3, <5>1
        <5>3. QED
          BY <3>1, <5>2
      <4>4. QED
        BY <1>1, <1>7, <4>0, <4>1, <4>2, <4>3
    <3>4. w[n] = w[m]
      BY <1>3, <3>1, <3>6, <3>3
    <3>5. QED
      BY <1>4, <1>6, <2>2, <3>1, <3>4 DEF InTextOrder, n, b
  <2>3. QED
    BY <2>1, <2>2
<1>8. QED
  BY <1>6, <1>7

\* All elements but the last.
LEMMA FrontIs ==
    ASSUME NEW T, NEW s \in Seq(T), s # <<>>
    PROVE  /\ Front(s) \in Seq(T) /\ Len(Front(s)) = Len(s) - 1
           /\ \A i \in 1..(Len(s) - 1) : Front(s)[i] = s[i]
           /\ Len(s) \in 1..Len(s)
<1>1. Len(s) \in Nat /\ Len(s) # 0
  OBVIOUS
<1>2. Len(s) - 1 \in Nat /\ Len(s) \in 1..Len(s)
  BY <1>1
<1>3. Front(s) = SubSeq(s, 1, Len(s) - 1)
  BY DEF Front
<1> DEFINE n == Len(s) - 1
           q == SubSeq(s, 1, n)
<1>4. n \in Nat /\ n <= Len(s)
  BY <1>1
<1> HIDE DEF n
<1>5. q \in Seq(T) /\ Len(q) = n /\ \A i \in 1..n : q[i] = s[i]
  BY <1>1, <1>4
<1>6. QED
  BY <1>2, <1>3, <1>5 DEF n

\* What has been read before a list is apart from it.
LEMMA ListApart ==
    ASSUME NEW h, NEW e, TextOrder(h, e), NEW fr, NEW end \in 1..Len(h), Nested(h, e, fr, end),
           FirstIn(fr, Len(fr)) # NULL
    PROVE  /\ \A m \in 1..Len(h) : m < FirstIn(fr, Len(fr)) => e[m] < FirstIn(fr, Len(fr))
           /\ \A m \in 1..Len(h) : h[m].child # FirstIn(fr, Len(fr))
           /\ \A i \in 0..Len(fr) : i # Len(fr) => LastIn(fr, i) < FirstIn(fr, Len(fr))
           /\ \A i \in 1..Len(fr) : fr[i].item < FirstIn(fr, Len(fr))
<1> DEFINE N == Len(h)
           K == Len(fr)
           f == FirstIn(fr, K)
<1>1. /\ N \in Nat /\ h \in Seq(Node) /\ e \in [1..N -> Nat]
      /\ \A m \in 1..N : h[m].child # NULL => h[m].child = m + 1
  <2>1. N \in Nat /\ h \in Seq(Node) /\ e \in [1..N -> Nat] /\ \A m \in 1..N : InTextOrder(h, e, m)
    BY DEF TextOrder
  <2>2. \A m \in 1..N : h[m].child # NULL => h[m].child = m + 1
    BY <2>1 DEF InTextOrder
  <2>3. QED
    BY <2>1, <2>2
<1>2. /\ fr \in Seq(Frame) /\ K \in Nat /\ f \in 1..end
      /\ \A i \in 0..K : FirstIn(fr, i) # NULL => LastIn(fr, i) \in 1..end
      /\ \A i \in 1..K : fr[i].item \in 1..end /\ FirstIn(fr, i - 1) # NULL
  BY <1>1, ListBounds
<1>3. CASE K = 0
  <2>1. f = 1
    BY <1>3 DEF FirstIn, Root
  <2>2. \A m \in 1..N : h[m].child # 1
    BY <1>1 DEF NULL
  <2>3. QED
    BY <1>1, <1>2, <1>3, <2>1, <2>2
<1>4. CASE K # 0
  <2>1. K \in 1..K
    BY <1>2, <1>4
  <2>2. f = fr[K].head
    BY <1>4 DEF FirstIn
  <2> DEFINE p == fr[K].item
  <2>3. /\ h[p].child = NULL
        /\ \A m \in 1..p : e[m] <= p
        /\ \A j \in 0..(K - 1) : LastIn(fr, j) <= p
        /\ f = p + 1
    BY <2>1, <2>2 DEF Nested
  <2>4. p \in 1..end
    BY <1>2, <2>1
  <2> HIDE DEF p
  <2>5. \A m \in 1..N : m < f => e[m] < f
    <3> SUFFICES ASSUME NEW m \in 1..N, m < f
                 PROVE  e[m] < f
      OBVIOUS
    <3>1. m \in 1..p
      BY <1>1, <2>3, <2>4
    <3>2. e[m] <= p /\ e[m] \in Nat
      BY <1>1, <2>3, <3>1
    <3>3. QED
      BY <1>1, <2>3, <2>4, <3>2
  <2>6. \A m \in 1..N : h[m].child # f
    <3> SUFFICES ASSUME NEW m \in 1..N, h[m].child = f
                 PROVE  FALSE
      OBVIOUS
    <3>1. f = m + 1
      BY <1>1, <2>3, <2>4 DEF NULL
    <3>2. m = p
      BY <1>1, <2>3, <2>4, <3>1
    <3>3. QED
      BY <2>3, <2>4, <3>2 DEF NULL
  <2>7. ASSUME NEW i \in 0..K, i # K
        PROVE  LastIn(fr, i) < f
    <3>1. LastIn(fr, i) <= p
      BY <1>2, <2>3, <2>7
    <3>2. i + 1 \in 1..K /\ (i + 1) - 1 = i
      BY <1>2, <2>7
    <3>3. FirstIn(fr, i) # NULL
      BY <1>2, <3>2
    <3>4. LastIn(fr, i) \in 1..end
      BY <1>2, <3>3
    <3>5. QED
      BY <2>3, <2>4, <3>1, <3>4
  <2>8. ASSUME NEW i \in 1..K
        PROVE  fr[i].item < f
    <3>1. fr[i].item = LastIn(fr, i - 1)
      BY DEF Nested
    <3>2. i - 1 \in 0..K /\ i - 1 # K
      BY <1>2
    <3>3. QED
      BY <2>7, <3>1, <3>2
  <2>9. QED
    BY <2>5, <2>6, <2>7, <2>8
<1>5. QED
  BY <1>3, <1>4

\* Without the innermost list, the tree ends at the item that it belongs to.
LEMMA ListPopped ==
    ASSUME NEW h, NEW e, NEW fr, NEW end \in 1..Len(h), h \in Seq(Node), Nested(h, e, fr, end),
           fr # <<>>
    PROVE  /\ Nested(h, e, Front(fr), fr[Len(fr)].item)
           /\ fr[Len(fr)].item \in 1..end
           /\ FirstIn(Front(fr), Len(Front(fr))) # NULL
           /\ LastIn(Front(fr), Len(Front(fr))) = fr[Len(fr)].item
           /\ Len(Front(fr)) = Len(fr) - 1
<1> DEFINE K == Len(fr)
           ft == Front(fr)
           p == fr[K].item
<1>1. /\ fr \in Seq(Frame) /\ K \in Nat
      /\ \A i \in 0..K : FirstIn(fr, i) # NULL => LastIn(fr, i) \in 1..end
      /\ \A i \in 1..K : fr[i].item \in 1..end /\ FirstIn(fr, i - 1) # NULL
  BY ListBounds
<1>2. K \in 1..K /\ K # 0
  BY <1>1, FrontIs
<1>3. /\ ft \in Seq(Frame) /\ Len(ft) = K - 1
      /\ \A i \in 1..(K - 1) : ft[i] = fr[i]
  BY <1>1, FrontIs
<1> HIDE DEF ft
<1>4. \A i \in 0..(K - 1) : FirstIn(ft, i) = FirstIn(fr, i) /\ LastIn(ft, i) = LastIn(fr, i)
  <2> TAKE i \in 0..(K - 1)
  <2>1. i = 0 \/ i \in 1..(K - 1)
    BY <1>1
  <2>2. QED
    BY <1>3, <2>1 DEF FirstIn, LastIn
<1>5. /\ p = LastIn(fr, K - 1)
      /\ \A j \in 0..(K - 1) : LastIn(fr, j) <= p
      /\ p \in 1..end /\ FirstIn(fr, K - 1) # NULL
  BY <1>1, <1>2 DEF Nested
<1>6. ASSUME NEW i \in 0..Len(ft), FirstIn(ft, i) # NULL
      PROVE  /\ LastIn(ft, i) <= p
             /\ Growing(h, e, FirstIn(ft, i), LastIn(ft, i), IF i = Len(ft) THEN p ELSE LastIn(ft, i))
  <2>1. i \in 0..(K - 1) /\ i \in 0..K /\ i # K
    BY <1>1, <1>2, <1>3
  <2>2. FirstIn(ft, i) = FirstIn(fr, i) /\ LastIn(ft, i) = LastIn(fr, i)
    BY <1>4, <2>1
  <2>3. Growing(h, e, FirstIn(fr, i), LastIn(fr, i), LastIn(fr, i))
    BY <1>6, <2>1, <2>2 DEF Nested
  <2>4. (IF i = Len(ft) THEN p ELSE LastIn(ft, i)) = LastIn(fr, i)
    BY <1>3, <1>5, <2>2
  <2>5. QED
    BY <1>5, <2>1, <2>2, <2>3, <2>4
<1>7. ASSUME NEW i \in 1..Len(ft)
      PROVE  /\ ft[i].item = LastIn(ft, i - 1)
             /\ \A j \in 0..(i - 1) : LastIn(ft, j) <= ft[i].item
             /\ h[ft[i].item].child = NULL
             /\ \A m \in 1..ft[i].item : e[m] <= ft[i].item
             /\ ft[i].head # NULL /\ ft[i].head = ft[i].item + 1
  <2>0. i \in 1..(K - 1)
    BY <1>3
  <2>1. i \in 1..K /\ i # K /\ i - 1 \in 0..(K - 1) /\ ft[i] = fr[i] /\ 0..(i - 1) \subseteq 0..(K - 1)
    <3>1. K \in Nat
      BY <1>1
    <3>2. ft[i] = fr[i]
      BY <1>3, <2>0
    <3> HIDE DEF K
    <3>3. i \in 1..K /\ i # K /\ i - 1 \in 0..(K - 1) /\ 0..(i - 1) \subseteq 0..(K - 1)
      BY <2>0, <3>1
    <3>4. QED
      BY <3>2, <3>3
  <2>2. /\ fr[i].item = LastIn(fr, i - 1)
        /\ \A j \in 0..(i - 1) : LastIn(fr, j) <= fr[i].item
        /\ h[fr[i].item].child = NULL
        /\ \A m \in 1..fr[i].item : e[m] <= fr[i].item
        /\ fr[i].head # NULL /\ fr[i].head = fr[i].item + 1
    BY <2>1 DEF Nested
  <2>3. QED
    BY <1>4, <2>1, <2>2
<1>8. Nested(h, e, ft, p)
  BY <1>3, <1>6, <1>7 DEF Nested
<1>9. QED
  <2>1. K - 1 \in 0..(K - 1)
    BY <1>1, <1>2
  <2>2. QED
    BY <1>3, <1>4, <1>5, <1>8, <2>1 DEF ft

\* The same for the innermost list of the recursion.
LEMMA ListStretched ==
    ASSUME NEW h, NEW e, TextOrder(h, e), NEW fr, NEW end \in 1..Len(h), Nested(h, e, fr, end),
           FirstIn(fr, Len(fr)) # NULL, NEW y
    PROVE  \A m \in 1..Len(h) :
               /\ Below(h, Stretch(e, FirstIn(fr, Len(fr)), LastIn(fr, Len(fr)), y), m) = Below(h, e, m)
               /\ m # LastIn(fr, Len(fr)) =>
                      InTextOrder(h, Stretch(e, FirstIn(fr, Len(fr)), LastIn(fr, Len(fr)), y), m)
<1> DEFINE f == FirstIn(fr, Len(fr))
           t == LastIn(fr, Len(fr))
<1>1. h \in Seq(Node) /\ Len(h) \in Nat
  BY DEF TextOrder
<1>2. /\ Len(fr) \in Nat
      /\ \A i \in 0..Len(fr) : FirstIn(fr, i) # NULL =>
             FirstIn(fr, i) \in 1..end /\ LastIn(fr, i) \in FirstIn(fr, i)..end
  BY <1>1, ListBounds
<1>3. f \in 1..end /\ t \in f..end
  BY <1>2
<1>4. Growing(h, e, f, t, end)
  <2>1. Len(fr) \in 0..Len(fr)
    BY <1>2
  <2>2. QED
    BY <2>1 DEF Nested
<1>5. /\ \A m \in 1..Len(h) : m < f => e[m] < f
      /\ \A m \in 1..Len(h) : h[m].child # f
  BY ListApart
<1> HIDE DEF f, t
<1>6. f \in Nat /\ t \in 1..Len(h)
  BY <1>1, <1>3
<1>7. \A m \in 1..Len(h) : /\ Below(h, Stretch(e, f, t, y), m) = Below(h, e, m)
                           /\ m # t => InTextOrder(h, Stretch(e, f, t, y), m)
  BY <1>4, <1>5, <1>6, Stretched
<1>8. QED
  BY <1>7 DEF f, t

\* The youngest node is given a value.
LEMMA ValueGiven ==
    ASSUME NEW h, NEW e, NEW fr, NEW g, Tree(h, e, fr, Len(h)), g \in Seq(Node), Len(g) = Len(h),
           \A m \in 1..Len(h) : g[m].child = h[m].child /\ g[m].next = h[m].next,
           \A m \in 1..Len(h) : g[m].type # Freed
    PROVE  Tree(g, e, fr, Len(g))
<1>1. TextOrder(g, e) /\ Nested(g, e, fr, Len(h)) /\ Len(h) \in 1..Len(h)
  BY SameLinks DEF Tree
<1>2. FreedBeyond(g, Len(g))
  BY <1>1 DEF FreedBeyond
<1>3. QED
  BY <1>1, <1>2 DEF Tree

\* A list is opened below the youngest node.
LEMMA ListOpened ==
    ASSUME NEW h, NEW e, NEW fr, Tree(h, e, fr, Len(h)), NEW k \in {"Array", "Object"},
           LastIn(fr, Len(fr)) = Len(h), FirstIn(fr, Len(fr)) # NULL
    PROVE  Tree(h, e, Append(fr, [item |-> Len(h), kind |-> k, head |-> NULL, last |-> NULL]), Len(h))
<1> DEFINE N == Len(h)
           K == Len(fr)
           top == [item |-> N, kind |-> k, head |-> NULL, last |-> NULL]
           fn == Append(fr, top)
<1>1. /\ TextOrder(h, e) /\ Nested(h, e, fr, N) /\ N \in 1..N /\ FreedBeyond(h, N)
      /\ N \in Nat /\ h \in Seq(Node)
  BY DEF Tree, TextOrder
<1>2. /\ fr \in Seq(Frame) /\ K \in Nat
      /\ \A i \in 0..K : FirstIn(fr, i) # NULL => LastIn(fr, i) \in 1..N
      /\ \A i \in 1..K : fr[i].item \in 1..N /\ FirstIn(fr, i - 1) # NULL
  <2>1. /\ fr \in Seq(Frame) /\ K \in Nat
        /\ \A i \in 0..K : FirstIn(fr, i) # NULL =>
               FirstIn(fr, i) \in 1..N /\ LastIn(fr, i) \in FirstIn(fr, i)..N
        /\ \A i \in 1..K : fr[i].item \in 1..N /\ FirstIn(fr, i - 1) # NULL
    BY <1>1, ListBounds
  <2>2. \A a \in 1..N : a..N \subseteq 1..N
    BY <1>1
  <2>3. QED
    BY <2>1, <2>2
<1>3. top \in Frame
  BY <1>1 DEF Frame, NULL
<1>4. /\ fn \in Seq(Frame) /\ Len(fn) = K + 1 /\ fn[K + 1] = top
      /\ \A i \in 1..K : fn[i] = fr[i]
  BY <1>2, <1>3
<1>5. top.item = N /\ top.head = NULL /\ top.last = NULL
  OBVIOUS
<1> HIDE DEF fn, top
<1>6. \A i \in 0..K : FirstIn(fn, i) = FirstIn(fr, i) /\ LastIn(fn, i) = LastIn(fr, i)
  <2> TAKE i \in 0..K
  <2>1. i = 0 \/ i \in 1..K
    BY <1>2
  <2>2. QED
    BY <1>4, <2>1 DEF FirstIn, LastIn
<1>7. \A i \in 0..K : FirstIn(fr, i) # NULL
  <2> TAKE i \in 0..K
  <2>1. i = K \/ (i + 1 \in 1..K /\ (i + 1) - 1 = i)
    BY <1>2
  <2>2. QED
    BY <1>2, <2>1
<1>8. ASSUME NEW i \in 0..Len(fn), FirstIn(fn, i) # NULL
      PROVE  /\ LastIn(fn, i) <= N
             /\ Growing(h, e, FirstIn(fn, i), LastIn(fn, i), IF i = Len(fn) THEN N ELSE LastIn(fn, i))
  <2>1. i # K + 1
    <3> SUFFICES ASSUME i = K + 1
                 PROVE  FALSE
      OBVIOUS
    <3>1. FirstIn(fn, K + 1) = fn[K + 1].head
      BY <1>2 DEF FirstIn
    <3>2. QED
      BY <1>4, <1>5, <1>8, <3>1
  <2>2. i \in 0..K /\ i # Len(fn)
    BY <1>2, <1>4, <2>1
  <2>3. /\ FirstIn(fn, i) = FirstIn(fr, i) /\ LastIn(fn, i) = LastIn(fr, i)
        /\ LastIn(fr, i) <= N
        /\ Growing(h, e, FirstIn(fr, i), LastIn(fr, i), IF i = K THEN N ELSE LastIn(fr, i))
    BY <1>1, <1>6, <1>7, <2>2 DEF Nested
  <2>4. (IF i = K THEN N ELSE LastIn(fr, i)) = LastIn(fr, i)
    OBVIOUS
  <2>5. QED
    BY <2>2, <2>3, <2>4
<1>9. ASSUME NEW i \in 1..Len(fn)
      PROVE  /\ fn[i].item = LastIn(fn, i - 1)
             /\ \A j \in 0..(i - 1) : LastIn(fn, j) <= fn[i].item
             /\ h[fn[i].item].child = NULL
             /\ \A m \in 1..fn[i].item : e[m] <= fn[i].item
             /\ fn[i].head = NULL => i = Len(fn) /\ fn[i].last = NULL /\ fn[i].item = N
             /\ fn[i].head # NULL => fn[i].head = fn[i].item + 1
  <2>1. i = K + 1 \/ i \in 1..K
    BY <1>2, <1>4
  <2>2. CASE i = K + 1
    <3>1. K \in 0..K /\ (K + 1) - 1 = K
      BY <1>2
    <3>2. h[N].child = NULL
      <4>1. InTextOrder(h, e, N)
        BY <1>1 DEF TextOrder
      <4>2. ~(N + 1 <= N)
        BY <1>1
      <4>3. QED
        BY <4>1, <4>2 DEF InTextOrder
    <3>3. \A m \in 1..N : e[m] <= N
      BY <1>1 DEF TextOrder
    <3>4. \A j \in 0..K : LastIn(fn, j) <= N
      BY <1>1, <1>2, <1>6, <1>7
    <3>5. fn[i] = top
      BY <1>4, <2>2
    <3>6. LastIn(fn, K) = N
      BY <1>6, <3>1
    <3>7. QED
      BY <1>4, <1>5, <2>2, <3>1, <3>2, <3>3, <3>4, <3>5, <3>6
  <2>3. CASE i \in 1..K
    <3>1. fn[i] = fr[i] /\ i - 1 \in 0..K /\ 0..(i - 1) \subseteq 0..K
      BY <1>2, <1>4, <2>3
    <3>2. FirstIn(fr, i) = fr[i].head /\ i \in 0..K
      BY <1>2, <2>3 DEF FirstIn
    <3>3. /\ fr[i].item = LastIn(fr, i - 1)
          /\ \A j \in 0..(i - 1) : LastIn(fr, j) <= fr[i].item
          /\ h[fr[i].item].child = NULL
          /\ \A m \in 1..fr[i].item : e[m] <= fr[i].item
          /\ fr[i].head # NULL => fr[i].head = fr[i].item + 1
      BY <1>1, <2>3 DEF Nested
    <3>4. fr[i].head # NULL
      BY <1>7, <3>2
    <3>5. QED
      BY <1>6, <3>1, <3>3, <3>4
  <2>4. QED
    BY <2>1, <2>2, <2>3
<1>10. Nested(h, e, fn, N)
  BY <1>4, <1>8, <1>9 DEF Nested
<1>11. QED
  BY <1>1, <1>10 DEF Tree, fn, top

-----------------------------------------------------------------------------
(* A list is complete *)

\* g is h with what follows the node t hung below it.
HungBelow(h, g, t) ==
    /\ g \in Seq(Node) /\ Len(g) = Len(h)
    /\ \A m \in 1..Len(h) : g[m].next = h[m].next
    /\ \A m \in 1..Len(h) : m # t => g[m].child = h[m].child
    /\ g[t].child = t + 1

\* A list that is complete is hung below the youngest item of the list around it.
LEMMA ListHung ==
    ASSUME NEW h, NEW e, NEW fr, NEW t \in 1..Len(h), TextOrder(h, e), Nested(h, e, fr, t),
           FirstIn(fr, Len(fr)) # NULL, LastIn(fr, Len(fr)) = t,
           \A m \in 1..t : e[m] <= t,
           t + 1 \in 1..Len(h), e[t + 1] = Len(h),
           NEW g, HungBelow(h, g, t)
    PROVE  \E w : TextOrder(g, w) /\ Nested(g, w, fr, Len(h))
<1> /\ g \in Seq(Node) /\ Len(g) = Len(h)
    /\ \A m \in 1..Len(h) : g[m].next = h[m].next
    /\ \A m \in 1..Len(h) : m # t => g[m].child = h[m].child
    /\ g[t].child = t + 1
  BY DEF HungBelow
<1> DEFINE N == Len(h)
           K == Len(fr)
           f == FirstIn(fr, K)
           w == Stretch(e, f, t, N)
<1>1. /\ N \in Nat /\ h \in Seq(Node) /\ e \in [1..N -> Nat]
      /\ \A m \in 1..N : e[m] \in m..N /\ InTextOrder(h, e, m)
  BY DEF TextOrder
<1>2. /\ fr \in Seq(Frame) /\ K \in Nat /\ f \in 1..t
      /\ \A i \in 0..K : FirstIn(fr, i) # NULL =>
             FirstIn(fr, i) \in 1..t /\ LastIn(fr, i) \in FirstIn(fr, i)..t
      /\ \A i \in 1..K : fr[i].item \in 1..t /\ FirstIn(fr, i - 1) # NULL
  BY <1>1, ListBounds
<1>3. /\ \A m \in 1..N : m < f => e[m] < f
      /\ \A m \in 1..N : h[m].child # f
      /\ \A i \in 0..K : i # K => LastIn(fr, i) < f
      /\ \A i \in 1..K : fr[i].item < f
  BY ListApart
<1>4. Growing(h, e, f, t, t)
  <2>1. K \in 0..K
    BY <1>2
  <2>2. QED
    BY <2>1 DEF Nested
<1>5. /\ h[t].next = NULL /\ e[f] = t /\ e[t] = t
      /\ \A m \in f..(t - 1) : Below(h, e, m) < t
  BY <1>4 DEF Growing
<1>6. \A m \in 1..N : /\ Below(h, w, m) = Below(h, e, m)
                      /\ m # t => InTextOrder(h, w, m)
  BY ListStretched
<1>7. /\ w \in [1..N -> Nat]
      /\ \A m \in 1..N : w[m] = IF m \in f..t /\ e[m] = t THEN N ELSE e[m]
  BY <1>1, <1>5 DEF Stretch
<1> HIDE DEF w, f
<1>8. ASSUME NEW m \in 1..N
      PROVE  w[m] \in m..N /\ InTextOrder(g, w, m) /\ (m # t => Below(g, w, m) = Below(h, e, m))
  <2>1. w[m] \in m..N
    <3>1. e[m] \in m..N /\ N \in m..N
      BY <1>1
    <3>2. w[m] = N \/ w[m] = e[m]
      BY <1>7
    <3>3. QED
      BY <3>1, <3>2
  <2>2. CASE m # t
    <3>1. InTextOrder(h, w, m) /\ g[m].child = h[m].child /\ g[m].next = h[m].next
      BY <1>6, <2>2
    <3>2. Below(g, w, m) = Below(h, w, m)
      BY <3>1 DEF Below
    <3>3. InTextOrder(g, w, m)
      BY <3>1, <3>2 DEF InTextOrder
    <3>4. QED
      BY <1>6, <2>1, <3>2, <3>3
  <2>3. CASE m = t
    <3>1. g[t].next = NULL /\ t + 1 # NULL /\ t \in Nat /\ ~(t + 1 <= t)
      BY <1>1, <1>5 DEF NULL
    <3>2. t + 1 \notin f..t
      BY <1>2, <3>1
    <3>3. w[t + 1] = N
      BY <1>7, <3>2
    <3>4. Below(g, w, t) = N
      BY <3>1, <3>3 DEF Below
    <3>5. w[t] = N
      BY <1>2, <1>5, <1>7
    <3>6. t + 1 <= Len(g)
      BY <1>1
    <3>7. InTextOrder(g, w, t)
      BY <3>1, <3>4, <3>5, <3>6 DEF InTextOrder
    <3>8. QED
      BY <2>1, <2>3, <3>7
  <2>4. QED
    BY <2>2, <2>3
<1>9. TextOrder(g, w)
  BY <1>7, <1>8 DEF TextOrder
<1>10. \A m \in 1..N : m < f => w[m] = e[m]
  BY <1>2, <1>7
<1>11. ASSUME NEW i \in 0..K, FirstIn(fr, i) # NULL
       PROVE  /\ LastIn(fr, i) <= N
              /\ Growing(g, w, FirstIn(fr, i), LastIn(fr, i), IF i = K THEN N ELSE LastIn(fr, i))
  <2>1. /\ FirstIn(fr, i) \in 1..t /\ LastIn(fr, i) \in FirstIn(fr, i)..t
        /\ Growing(h, e, FirstIn(fr, i), LastIn(fr, i), IF i = K THEN t ELSE LastIn(fr, i))
    BY <1>2, <1>11 DEF Nested
  <2>2. LastIn(fr, i) <= N
    BY <1>1, <2>1
  <2>3. CASE i = K
    <3>1. t \in f..N /\ \A m \in f..(t - 1) : m \in 1..N /\ m # t
      BY <1>1, <1>2
    <3>2. w[f] = N /\ w[t] = N
      BY <1>1, <1>2, <1>5, <1>7
    <3>3. g[t].next = NULL
      BY <1>5
    <3>4. \A m \in f..(t - 1) : Below(g, w, m) < t
      BY <1>5, <1>8, <3>1
    <3>5. Growing(g, w, f, t, N)
      BY <3>1, <3>2, <3>3, <3>4 DEF Growing
    <3>6. QED
      BY <2>2, <2>3, <3>5 DEF f
  <2>4. CASE i # K
    <3> DEFINE a == FirstIn(fr, i)
               b == LastIn(fr, i)
    <3>1. a \in 1..t /\ b \in a..t /\ b < f /\ Growing(h, e, a, b, b)
      BY <1>3, <2>1, <2>4
    <3> HIDE DEF a, b
    <3>2. a \in 1..N /\ b \in 1..N /\ a < f
      BY <1>1, <1>2, <3>1
    <3>3. w[a] = e[a] /\ w[b] = e[b] /\ g[b].next = h[b].next
      BY <1>10, <3>1, <3>2
    <3>4. \A m \in a..(b - 1) : m \in 1..N /\ m # t
      <4>1. N \in Nat /\ a \in Nat /\ 1 <= a /\ b \in Nat /\ b <= N /\ t \in Nat /\ b <= t
        BY <1>1, <3>1, <3>2
      <4>2. QED
        BY <4>1
    <3>5. Growing(g, w, a, b, b)
      BY <1>8, <3>1, <3>3, <3>4 DEF Growing
    <3>6. QED
      BY <2>2, <2>4, <3>5 DEF a, b
  <2>5. QED
    BY <2>3, <2>4
<1>12. ASSUME NEW i \in 1..K
       PROVE  /\ g[fr[i].item].child = NULL
              /\ \A m \in 1..fr[i].item : w[m] <= fr[i].item
              /\ fr[i].head # NULL
  <2>1. fr[i].item \in 1..t /\ fr[i].item < f /\ fr[i].item # t /\ fr[i].item \in 1..N
    <3> DEFINE p == fr[i].item
    <3>1. p \in 1..t /\ p < f
      BY <1>2, <1>3
    <3>2. N \in Nat /\ f \in 1..t /\ t \in 1..N
      BY <1>1, <1>2
    <3> HIDE DEF p
    <3>3. p # t /\ p \in 1..N
      BY <3>1, <3>2
    <3>4. QED
      BY <3>1, <3>3 DEF p
  <2>2. /\ h[fr[i].item].child = NULL
        /\ \A m \in 1..fr[i].item : e[m] <= fr[i].item
        /\ fr[i].head = NULL => i = K
    BY DEF Nested
  <2>3. \A m \in 1..fr[i].item : m \in 1..N /\ m < f
    <3> DEFINE p == fr[i].item
    <3>0. f \in Nat /\ N \in Nat
      BY <1>1, <1>2
    <3>4. p \in 1..N /\ p < f
      BY <2>1
    <3> HIDE DEF p
    <3>1. p \in Nat /\ N \in Nat /\ f \in Nat /\ p <= N /\ p < f
      BY <3>0, <3>4
    <3>2. \A m \in 1..p : m \in 1..N /\ m < f
      BY <3>1
    <3>3. QED
      BY <3>2 DEF p
  <2>4. fr[i].head # NULL
    BY <1>2, <2>2 DEF FirstIn
  <2>5. QED
    BY <1>10, <2>1, <2>2, <2>3, <2>4
<1>13. Nested(g, w, fr, N)
  BY <1>2, <1>11, <1>12 DEF Nested
<1>14. QED
  BY <1>9, <1>13

-----------------------------------------------------------------------------
(* A list has one more item *)

\* g is h with one more node, to which the node l leads if there is one.
Lengthened(h, g, l) ==
    /\ g \in Seq(Node) /\ Len(g) = Len(h) + 1
    /\ \A m \in 1..Len(h) : g[m].child = h[m].child /\ (m # l => g[m].next = h[m].next)
    /\ l # NULL => g[l].next = Len(h) + 1
    /\ g[Len(h) + 1].child = NULL /\ g[Len(h) + 1].next = NULL

\* There is no last item, or it is l and everything behind it hangs below it.
EndsBelow(h, e, l) == l = NULL \/ (l \in 1..Len(h) /\ e[l] = Len(h) /\ h[l].next = NULL)

\* What hangs below a node is younger and there.
LEMMA BelowBounds ==
    ASSUME NEW h, NEW e, TextOrder(h, e)
    PROVE  \A m \in 1..Len(h) : Below(h, e, m) \in m..Len(h)
<1>1. Len(h) \in Nat
  BY DEF TextOrder
<1> TAKE m \in 1..Len(h)
<1>2. CASE h[m].child = NULL
  BY <1>1, <1>2 DEF Below
<1>3. CASE h[m].child # NULL
  <2>1. InTextOrder(h, e, m)
    BY DEF TextOrder
  <2>2. h[m].child = m + 1 /\ m + 1 <= Len(h)
    BY <1>3, <2>1 DEF InTextOrder
  <2>3. m + 1 \in 1..Len(h)
    BY <1>1, <2>2
  <2>4. e[m + 1] \in (m + 1)..Len(h)
    BY <2>3 DEF TextOrder
  <2>5. Below(h, e, m) = e[m + 1]
    BY <1>3, <2>2 DEF Below
  <2>6. QED
    BY <1>1, <2>4, <2>5
<1>4. QED
  BY <1>2, <1>3

\* The ends with one more node, after the list from f to l has been stretched to it.
LEMMA OrderLengthened ==
    ASSUME NEW h, NEW e, TextOrder(h, e), Len(h) # 0, NEW l, NEW g, Lengthened(h, g, l),
           EndsBelow(h, e, l),
           NEW v, v \in [1..Len(h) -> Nat],
           \A m \in 1..Len(h) : v[m] = e[m] \/ v[m] = Len(h) + 1,
           l # NULL => v[l] = Len(h) + 1,
           \A m \in 1..Len(h) : Below(h, v, m) = Below(h, e, m) /\ (m # l => InTextOrder(h, v, m)),
           NEW w, w = [m \in 1..(Len(h) + 1) |-> IF m = Len(h) + 1 THEN Len(h) + 1 ELSE v[m]]
    PROVE  /\ TextOrder(g, w)
           /\ \A m \in 1..Len(h) : Below(g, w, m) = Below(h, e, m)
<1> DEFINE N == Len(h)
<1>1. /\ N \in Nat /\ h \in Seq(Node) /\ e \in [1..N -> Nat]
      /\ \A m \in 1..N : e[m] \in m..N /\ InTextOrder(h, e, m)
  BY DEF TextOrder
<1>2. \A m \in 1..N : Below(h, e, m) \in m..N
  BY BelowBounds
<1>3. /\ w \in [1..(N + 1) -> Nat] /\ w[N + 1] = N + 1
      /\ \A m \in 1..N : w[m] = v[m]
  BY <1>1
<1>4. /\ g \in Seq(Node) /\ Len(g) = N + 1
      /\ \A m \in 1..N : g[m].child = h[m].child /\ (m # l => g[m].next = h[m].next)
      /\ l # NULL => g[l].next = N + 1
      /\ g[N + 1].child = NULL /\ g[N + 1].next = NULL
  BY DEF Lengthened
<1>5. ASSUME NEW m \in 1..N
      PROVE  Below(g, w, m) = Below(h, e, m) /\ Below(h, v, m) = Below(h, e, m)
  <2>1. h[m].child # NULL => h[m].child \in 1..N
    <3>1. InTextOrder(h, e, m)
      BY <1>1
    <3>2. h[m].child # NULL => h[m].child = m + 1 /\ m + 1 <= N
      BY <3>1 DEF InTextOrder
    <3>3. QED
      BY <1>1, <3>2
  <2>2. Below(g, w, m) = Below(h, v, m)
    BY <1>3, <1>4, <2>1 DEF Below
  <2>3. QED
    BY <2>2
<1>6. ASSUME NEW m \in 1..N
      PROVE  w[m] \in m..(N + 1) /\ InTextOrder(g, w, m)
  <2>1. w[m] \in m..(N + 1)
    <3>1. e[m] \in m..(N + 1) /\ N + 1 \in m..(N + 1)
      <4>1. e[m] \in m..N
        BY <1>1
      <4>2. QED
        BY <1>1, <4>1
    <3>2. w[m] = e[m] \/ w[m] = N + 1
      BY <1>3
    <3>3. QED
      BY <3>1, <3>2
  <2> DEFINE b == Below(h, e, m)
  <2>2. b \in m..N /\ Below(g, w, m) = b /\ Below(h, v, m) = b
    BY <1>2, <1>5
  <2>3. g[m].child # NULL => g[m].child = m + 1 /\ m + 1 <= Len(g)
    <3>1. InTextOrder(h, e, m) /\ g[m].child = h[m].child
      BY <1>1, <1>4
    <3>2. h[m].child # NULL => h[m].child = m + 1 /\ m + 1 <= N
      BY <3>1 DEF InTextOrder
    <3>3. QED
      BY <1>1, <1>4, <3>1, <3>2
  <2>4. CASE m # l
    <3>1. InTextOrder(h, v, m) /\ g[m].next = h[m].next
      BY <1>4, <2>4
    <3>2. h[m].next = NULL => v[m] = b
      BY <2>2, <3>1 DEF InTextOrder
    <3>3. h[m].next # NULL => h[m].next = b + 1 /\ h[m].next <= N /\ v[h[m].next] = v[m]
      BY <2>2, <3>1 DEF InTextOrder
    <3>4. h[m].next # NULL => h[m].next \in 1..N /\ h[m].next <= Len(g)
      <4> DEFINE n == h[m].next
      <4> SUFFICES ASSUME n # NULL
                   PROVE  n \in 1..N /\ n <= Len(g)
        OBVIOUS
      <4>1. n = b + 1 /\ n <= N /\ b \in m..N
        BY <2>2, <3>3
      <4> HIDE DEF n, b
      <4>0. m \in Nat /\ N \in Nat
        BY <1>1
      <4>2. b \in Nat /\ n \in Nat /\ n >= 1
        BY <4>0, <4>1
      <4>3. n \in 1..N
        BY <1>1, <4>1, <4>2
      <4>4. QED
        BY <1>1, <1>4, <4>1, <4>2, <4>3
    <3>5. QED
      BY <1>3, <2>1, <2>2, <2>3, <3>1, <3>2, <3>3, <3>4 DEF InTextOrder
  <2>5. CASE m = l
    <3>1. /\ l # NULL /\ e[l] = N /\ h[l].next = NULL /\ v[l] = N + 1
          /\ InTextOrder(h, e, l) /\ g[l].next = N + 1 /\ N + 1 # NULL
      BY <1>1, <1>4, <2>5 DEF NULL, EndsBelow
    <3>2. b = N
      BY <2>5, <3>1 DEF InTextOrder
    <3>3. w[l] = N + 1 /\ w[N + 1] = N + 1 /\ N + 1 <= Len(g)
      BY <1>1, <1>3, <1>4, <2>5, <3>1
    <3>4. QED
      BY <2>1, <2>2, <2>3, <2>5, <3>1, <3>2, <3>3 DEF InTextOrder
  <2>6. QED
    BY <2>4, <2>5
<1>7. w[N + 1] \in (N + 1)..(N + 1) /\ InTextOrder(g, w, N + 1)
  BY <1>1, <1>3, <1>4 DEF InTextOrder, Below
<1>8. ASSUME NEW m \in 1..(N + 1)
      PROVE  w[m] \in m..(N + 1) /\ InTextOrder(g, w, m)
  <2>1. m \in 1..N \/ m = N + 1
    BY <1>1
  <2>2. QED
    BY <1>6, <1>7, <2>1
<1>9. QED
  BY <1>3, <1>4, <1>5, <1>8 DEF TextOrder

\* The innermost list has a new last item.
NextItem(fr, n) ==
    Front(fr) \o <<[fr[Len(fr)] EXCEPT !.last = n, !.head = IF @ = NULL THEN n ELSE @]>>

\* What this changes of the frames.
LEMMA NextItemIs ==
    ASSUME NEW fr \in Seq(Frame), fr # <<>>, NEW n \in Nat
    PROVE  /\ NextItem(fr, n) \in Seq(Frame) /\ Len(NextItem(fr, n)) = Len(fr)
           /\ \A i \in 1..Len(fr) : i # Len(fr) => NextItem(fr, n)[i] = fr[i]
           /\ NextItem(fr, n)[Len(fr)].item = fr[Len(fr)].item
           /\ NextItem(fr, n)[Len(fr)].kind = fr[Len(fr)].kind
           /\ NextItem(fr, n)[Len(fr)].last = n
           /\ NextItem(fr, n)[Len(fr)].head = IF fr[Len(fr)].head = NULL THEN n ELSE fr[Len(fr)].head
<1> DEFINE K == Len(fr)
           ft == Front(fr)
           old == fr[K]
           top == [old EXCEPT !.last = n, !.head = IF @ = NULL THEN n ELSE @]
           fn == NextItem(fr, n)
<1>1. /\ K \in Nat /\ K \in 1..K
      /\ ft \in Seq(Frame) /\ Len(ft) = K - 1
      /\ \A i \in 1..(K - 1) : ft[i] = fr[i]
  BY FrontIs
<1>2. fn = ft \o <<top>>
  BY DEF NextItem
<1>3. old \in Frame
  BY <1>1
<1> HIDE DEF ft, old, fn
<1>4. top \in Frame /\ top.item = old.item /\ top.kind = old.kind /\ top.last = n
      /\ top.head = IF old.head = NULL THEN n ELSE old.head
  BY <1>3 DEF Frame
<1> HIDE DEF top
<1>5. fn \in Seq(Frame) /\ Len(fn) = K /\ fn[K] = top /\ \A i \in 1..(K - 1) : fn[i] = ft[i]
  BY <1>1, <1>2, <1>4
<1>6. \A i \in 1..K : i # K => i \in 1..(K - 1)
  BY <1>1
<1>7. QED
  BY <1>1, <1>4, <1>5, <1>6 DEF fn, old

\* A new item at the end of the innermost list.
LEMMA ListLengthened ==
    ASSUME NEW h, NEW e, NEW fr, Tree(h, e, fr, Len(h)), fr # <<>>,
           NEW g, Lengthened(h, g, LastIn(fr, Len(fr))), FreedBeyond(g, Len(h) + 1)
    PROVE  \E w : Tree(g, w, NextItem(fr, Len(h) + 1), Len(h) + 1)
<1> DEFINE N == Len(h)
           K == Len(fr)
           l == LastIn(fr, K)
           hd == FirstIn(fr, K)
           p == fr[K].item
           f == p + 1
           fn == NextItem(fr, N + 1)
<1>1. /\ TextOrder(h, e) /\ Nested(h, e, fr, N) /\ N \in 1..N
      /\ N \in Nat /\ h \in Seq(Node) /\ e \in [1..N -> Nat]
      /\ \A m \in 1..N : e[m] \in m..N /\ InTextOrder(h, e, m)
  BY DEF Tree, TextOrder
<1>2. /\ fr \in Seq(Frame) /\ K \in Nat
      /\ \A i \in 1..K : fr[i] \in Frame
      /\ \A i \in 0..K : FirstIn(fr, i) # NULL =>
             FirstIn(fr, i) \in 1..N /\ LastIn(fr, i) \in FirstIn(fr, i)..N
      /\ \A i \in 1..K : fr[i].item \in 1..N /\ FirstIn(fr, i - 1) # NULL
  BY <1>1, ListBounds
<1>3. /\ K \in 1..K /\ K # 0
  BY <1>2, FrontIs
<1>4. l = fr[K].last /\ hd = fr[K].head
  BY <1>3 DEF LastIn, FirstIn
<1>5. /\ p = LastIn(fr, K - 1) /\ h[p].child = NULL
      /\ \A j \in 0..(K - 1) : LastIn(fr, j) <= p
      /\ \A m \in 1..p : e[m] <= p
      /\ hd = NULL => l = NULL /\ p = N
      /\ hd # NULL => hd = f
      /\ p \in 1..N
      /\ f = p + 1
  <2>1. /\ p = LastIn(fr, K - 1) /\ h[p].child = NULL
        /\ \A j \in 0..(K - 1) : LastIn(fr, j) <= p
        /\ \A m \in 1..p : e[m] <= p
        /\ fr[K].head = NULL => fr[K].last = NULL /\ p = N
        /\ fr[K].head # NULL => fr[K].head = p + 1
    BY <1>1, <1>3 DEF Nested
  <2>2. p \in 1..N
    BY <1>2, <1>3
  <2> HIDE DEF p
  <2>3. QED
    BY <1>4, <2>1, <2>2
<1> HIDE DEF l, hd, f, fn
<1>23. N \in Nat /\ p \in Nat /\ f \in Nat /\ 1 <= p /\ p <= N /\ f = p + 1
  <2>1. N \in Nat
    BY <1>1
  <2>2. p \in 1..N /\ f = p + 1
    BY <1>5
  <2> HIDE DEF p
  <2>3. QED
    BY <2>1, <2>2
<1>6. \A i \in 1..K : fr[i].item < f /\ fr[i].item <= p
  <2> TAKE i \in 1..K
  <2>1. fr[i].item = LastIn(fr, i - 1)
    BY <1>1 DEF Nested
  <2>2. i - 1 \in 0..(K - 1)
    BY <1>2
  <2>3. fr[i].item \in 1..N
    BY <1>2
  <2>4. fr[i].item <= p
    BY <1>5, <2>1, <2>2
  <2> DEFINE q == fr[i].item
  <2>5. q \in 1..N /\ q <= p
    BY <2>3, <2>4
  <2> HIDE DEF q, p
  <2>6. q < f /\ q <= p
    BY <1>23, <2>5
  <2>7. QED
    BY <2>6 DEF q
<1>7. hd # NULL => Growing(h, e, f, l, N) /\ l \in f..N
  <2>1. K \in 0..K
    BY <1>3
  <2>2. QED
    BY <1>1, <1>2, <1>4, <1>5, <2>1 DEF Nested, l, hd
<1>8. hd # NULL => l # NULL
  BY <1>5, <1>7 DEF NULL
<1> DEFINE v == IF hd = NULL THEN e ELSE Stretch(e, hd, l, N + 1)
           w == [m \in 1..(N + 1) |-> IF m = N + 1 THEN N + 1 ELSE v[m]]
<1>9. /\ v \in [1..N -> Nat]
      /\ \A m \in 1..N : v[m] = e[m] \/ v[m] = N + 1
      /\ l # NULL => v[l] = N + 1
      /\ l = NULL \/ (l \in 1..N /\ e[l] = N /\ h[l].next = NULL)
      /\ \A m \in 1..N : m < f => v[m] = e[m]
      /\ hd # NULL => v[f] = N + 1
  <2>1. CASE hd = NULL
    BY <1>1, <1>5, <2>1
  <2>2. CASE hd # NULL
    <3>1. hd = f /\ l \in f..N /\ e[f] = N /\ e[l] = N /\ h[l].next = NULL
      BY <1>5, <1>7, <2>2 DEF Growing
    <3>2. l \in 1..N /\ f \in 1..N /\ l \in f..l /\ f \in f..l
      BY <1>23, <3>1
    <3>3. v = [m \in 1..N |-> IF m \in f..l /\ e[m] = N THEN N + 1 ELSE e[m]]
      BY <1>1, <2>2, <3>1 DEF Stretch
    <3> HIDE DEF v
    <3>4. \A m \in 1..N : m < f => m \notin f..l
      BY <1>1, <1>5
    <3>5. QED
      BY <1>1, <3>1, <3>2, <3>3, <3>4
  <2>3. QED
    BY <2>1, <2>2
<1>10. \A m \in 1..N : Below(h, v, m) = Below(h, e, m) /\ (m # l => InTextOrder(h, v, m))
  <2>1. CASE hd = NULL
    BY <1>1, <2>1
  <2>2. CASE hd # NULL
    <3>1. \A m \in 1..N :
              /\ Below(h, Stretch(e, hd, l, N + 1), m) = Below(h, e, m)
              /\ m # l => InTextOrder(h, Stretch(e, hd, l, N + 1), m)
      BY <1>1, <2>2, ListStretched DEF l, hd
    <3>2. QED
      BY <2>2, <3>1
  <2>3. QED
    BY <2>1, <2>2
<1>11. Lengthened(h, g, l) /\ N # 0
  BY <1>1 DEF l
<1> HIDE DEF v, p
<1>12. /\ TextOrder(g, w)
       /\ \A m \in 1..N : Below(g, w, m) = Below(h, e, m)
  <2>1. w = [m \in 1..(N + 1) |-> IF m = N + 1 THEN N + 1 ELSE v[m]]
    OBVIOUS
  <2>2. EndsBelow(h, e, l)
    BY <1>9 DEF EndsBelow
  <2>3. /\ v \in [1..N -> Nat]
        /\ l # NULL => v[l] = N + 1
        /\ \A m \in 1..N : v[m] = e[m] \/ v[m] = N + 1
    BY <1>9
  <2>4. TextOrder(h, e)
    BY <1>1
  <2> HIDE DEF w
  <2>5. QED
    BY <1>10, <1>11, <2>1, <2>2, <2>3, <2>4, OrderLengthened
<1>13. /\ w[N + 1] = N + 1
       /\ \A m \in 1..N : m < f => w[m] = e[m]
       /\ w[f] = N + 1
  <2>1. \A m \in 1..N : w[m] = v[m] /\ m # N + 1
    BY <1>1
  <2>2. w[N + 1] = N + 1
    BY <1>1
  <2>3. CASE hd = NULL
    <3>1. f = N + 1
      BY <1>5, <2>3
    <3>2. QED
      BY <1>9, <2>1, <2>2, <3>1
  <2>4. CASE hd # NULL
    <3>1. f \in 1..N
      BY <1>23, <1>7, <2>4
    <3>2. QED
      BY <1>9, <2>1, <2>2, <2>4, <3>1
  <2>5. QED
    BY <2>3, <2>4
<1> HIDE DEF w
<1>14. /\ g \in Seq(Node) /\ Len(g) = N + 1
       /\ \A m \in 1..N : g[m].child = h[m].child /\ (m # l => g[m].next = h[m].next)
       /\ g[N + 1].next = NULL
  BY <1>11 DEF Lengthened
<1>15. /\ fn \in Seq(Frame) /\ Len(fn) = K
       /\ \A i \in 1..K : i # K => fn[i] = fr[i]
       /\ fn[K].item = p /\ fn[K].last = N + 1 /\ fn[K].head = f
  <2>1. N + 1 \in Nat
    BY <1>23
  <2>2. /\ fn \in Seq(Frame) /\ Len(fn) = K
        /\ \A i \in 1..K : i # K => fn[i] = fr[i]
        /\ fn[K].item = fr[K].item /\ fn[K].last = N + 1
        /\ fn[K].head = IF fr[K].head = NULL THEN N + 1 ELSE fr[K].head
    BY <1>2, <2>1, NextItemIs DEF fn
  <2>3. (IF hd = NULL THEN N + 1 ELSE hd) = f
    <3> HIDE DEF p
    <3>1. QED
      BY <1>5, <1>23
  <2>4. QED
    BY <1>4, <2>2, <2>3 DEF p
<1>16. /\ \A i \in 0..(K - 1) : FirstIn(fn, i) = FirstIn(fr, i) /\ LastIn(fn, i) = LastIn(fr, i)
       /\ FirstIn(fn, K) = f /\ LastIn(fn, K) = N + 1
  <2>1. \A i \in 0..(K - 1) : i = 0 \/ (i \in 1..K /\ i # K)
    BY <1>2
  <2>2. QED
    BY <1>3, <1>15, <2>1 DEF FirstIn, LastIn
<1>17. \A i \in 0..(K - 1) : /\ FirstIn(fr, i) \in 1..N /\ FirstIn(fr, i) < f
                             /\ LastIn(fr, i) \in FirstIn(fr, i)..N /\ LastIn(fr, i) < f
                             /\ Growing(h, e, FirstIn(fr, i), LastIn(fr, i), LastIn(fr, i))
  <2> TAKE i \in 0..(K - 1)
  <2>1. i + 1 \in 1..K /\ (i + 1) - 1 = i /\ i \in 0..K /\ i # K
    BY <1>2
  <2>2. FirstIn(fr, i) # NULL
    BY <1>2, <2>1
  <2> DEFINE a == FirstIn(fr, i)
             b == LastIn(fr, i)
  <2>3. a \in 1..N /\ b \in a..N /\ b <= p
    BY <1>2, <1>5, <2>1, <2>2
  <2>4. Growing(h, e, a, b, b)
    BY <1>1, <2>1, <2>2 DEF Nested
  <2> HIDE DEF a, b
  <2>5. a < f /\ b < f
    BY <1>23, <2>3
  <2>6. QED
    BY <2>3, <2>4, <2>5 DEF a, b
<1>18. ASSUME NEW i \in 0..K
       PROVE  /\ LastIn(fn, i) <= N + 1
              /\ Growing(g, w, FirstIn(fn, i), LastIn(fn, i), IF i = K THEN N + 1 ELSE LastIn(fn, i))
  <2>1. i = K \/ (i \in 0..(K - 1) /\ i # K)
    BY <1>2
  <2>2. CASE i = K
    <3>1. N + 1 \in f..(N + 1) /\ f \in Nat
      BY <1>23
    <3>2. \A m \in f..N : Below(g, w, m) < N + 1
      <4> TAKE m \in f..N
      <4>1. m \in 1..N
        BY <1>1, <1>5
      <4>2. Below(h, e, m) \in m..N
        BY <1>1, <4>1, BelowBounds
      <4>3. QED
        BY <1>1, <1>12, <4>1, <4>2
    <3>3. (N + 1) - 1 = N
      BY <1>1
    <3>4. Growing(g, w, f, N + 1, N + 1)
      BY <1>13, <1>14, <3>1, <3>2, <3>3 DEF Growing
    <3>5. QED
      BY <1>1, <1>16, <2>2, <3>4
  <2>3. CASE i \in 0..(K - 1) /\ i # K
    <3> DEFINE a == FirstIn(fr, i)
               b == LastIn(fr, i)
    <3>1. a \in 1..N /\ a < f /\ b \in a..N /\ b < f /\ Growing(h, e, a, b, b)
      BY <1>17, <2>3
    <3> HIDE DEF a, b
    <3>2. b \in 1..N /\ b # l
      <4>1. b \in 1..N
        BY <1>1, <3>1
      <4>2. b # l
        <5>1. hd = NULL \/ l \in f..N
          BY <1>7
        <5>2. b \in Nat /\ b # 0 /\ b < f /\ f \in Nat
          BY <1>23, <3>1, <4>1
        <5>3. QED
          BY <1>5, <5>1, <5>2 DEF NULL
      <4>3. QED
        BY <4>1, <4>2
    <3>3. w[a] = e[a] /\ w[b] = e[b] /\ g[b].next = h[b].next
      BY <1>13, <1>14, <3>1, <3>2
    <3>4. \A m \in a..(b - 1) : m \in 1..N
      BY <1>1, <3>1, <3>2
    <3>5. Growing(g, w, a, b, b)
      BY <1>12, <3>1, <3>3, <3>4 DEF Growing
    <3>6. b <= N + 1
      BY <1>1, <3>2
    <3>7. QED
      BY <1>16, <2>3, <3>5, <3>6 DEF a, b
  <2>4. QED
    BY <2>1, <2>2, <2>3
<1>19. ASSUME NEW i \in 1..K
       PROVE  /\ fn[i].item = LastIn(fn, i - 1)
              /\ \A j \in 0..(i - 1) : LastIn(fn, j) <= fn[i].item
              /\ g[fn[i].item].child = NULL
              /\ \A m \in 1..fn[i].item : w[m] <= fn[i].item
              /\ fn[i].head # NULL /\ fn[i].head = fn[i].item + 1
  <2>1. fn[i].item = fr[i].item /\ fr[i].item \in 1..N /\ fr[i].item < f
    BY <1>2, <1>6, <1>15 DEF p
  <2>2. i - 1 \in 0..(K - 1) /\ 0..(i - 1) \subseteq 0..(K - 1)
    BY <1>2
  <2>3. /\ fr[i].item = LastIn(fr, i - 1)
        /\ \A j \in 0..(i - 1) : LastIn(fr, j) <= fr[i].item
        /\ h[fr[i].item].child = NULL
        /\ \A m \in 1..fr[i].item : e[m] <= fr[i].item
        /\ fr[i].head = NULL => i = K
        /\ fr[i].head # NULL => fr[i].head = fr[i].item + 1
    BY <1>1 DEF Nested
  <2>4. \A m \in 1..fr[i].item : m \in 1..N /\ m < f
    <3> DEFINE q == fr[i].item
    <3>1. f \in Nat /\ N \in Nat /\ q \in 1..N /\ q < f
      BY <1>23, <2>1
    <3> HIDE DEF q
    <3>2. \A m \in 1..q : m \in 1..N /\ m < f
      BY <3>1
    <3>3. QED
      BY <3>2 DEF q
  <2>5. \A m \in 1..fr[i].item : w[m] <= fr[i].item
    BY <1>13, <2>3, <2>4
  <2>6. fn[i].head # NULL /\ fn[i].head = fn[i].item + 1
    <3>1. CASE i = K
      <4>1. f # NULL
        BY <1>1, <1>5 DEF NULL
      <4>2. QED
        BY <1>5, <1>15, <3>1, <4>1
    <3>2. CASE i # K
      BY <1>15, <2>3, <3>2
    <3>3. QED
      BY <3>1, <3>2
  <2>7. QED
    BY <1>14, <1>16, <2>1, <2>2, <2>3, <2>5, <2>6
<1>20. Nested(g, w, fn, N + 1)
  BY <1>15, <1>18, <1>19 DEF Nested
<1>21. N + 1 \in 1..Len(g)
  BY <1>1, <1>14
<1>22. QED
  BY <1>12, <1>20, <1>21 DEF Tree, fn

\* One more string in the node n is one more string.
LEMMA OwnedGrows ==
    ASSUME NEW h, NEW g, NEW n \in Nat, n # 0,
           \A m \in 1..n : m # n => g[m].valuestring = h[m].valuestring /\ g[m].string = h[m].string
    PROVE  /\ (g[n].valuestring /\ ~h[n].valuestring /\ g[n].string = h[n].string)
                  => Owned(g, 1..n) = Owned(h, 1..n) + 1
           /\ (g[n].string /\ ~h[n].string /\ g[n].valuestring = h[n].valuestring)
                  => Owned(g, 1..n) = Owned(h, 1..n) + 1
<1>0. IsFiniteSet(1..n)
  <2>1. 1 \in Int /\ n \in Int
    OBVIOUS
  <2>2. QED
    BY <2>1, FS_Interval
<1>1. ASSUME NEW A, NEW B, A \subseteq 1..n, B = A \union {n}, n \notin A
      PROVE  Cardinality(B) = Cardinality(A) + 1 /\ Cardinality(A) \in Nat
  <2>1. IsFiniteSet(A)
    BY <1>0, <1>1, FS_Subset
  <2>2. QED
    BY <1>1, <2>1, FS_AddElement, FS_CardinalityType
<1> DEFINE V(q) == {m \in 1..n : q[m].valuestring}
           S(q) == {m \in 1..n : q[m].string}
<1>2. n \in 1..n
  OBVIOUS
<1>3. \A q : Owned(q, 1..n) = Cardinality(V(q)) + Cardinality(S(q))
  BY DEF Owned
<1>4. \A q : Cardinality(V(q)) \in Nat /\ Cardinality(S(q)) \in Nat
  <2> TAKE q
  <2>1. V(q) \subseteq 1..n /\ S(q) \subseteq 1..n
    OBVIOUS
  <2> HIDE DEF V, S
  <2>2. QED
    BY <1>0, <2>1, FS_Subset, FS_CardinalityType
<1>5. CASE g[n].valuestring /\ ~h[n].valuestring /\ g[n].string = h[n].string
  <2>1. V(g) = V(h) \union {n} /\ n \notin V(h) /\ V(h) \subseteq 1..n
    BY <1>2, <1>5
  <2>2. S(g) = S(h)
    BY <1>5
  <2> HIDE DEF V, S
  <2>3. Cardinality(V(g)) = Cardinality(V(h)) + 1
    BY <1>1, <2>1
  <2>4. Owned(g, 1..n) = Owned(h, 1..n) + 1
    BY <1>3, <1>4, <2>2, <2>3
  <2>5. QED
    BY <1>5, <2>4
<1>6. CASE g[n].string /\ ~h[n].string /\ g[n].valuestring = h[n].valuestring
  <2>1. S(g) = S(h) \union {n} /\ n \notin S(h) /\ S(h) \subseteq 1..n
    BY <1>2, <1>6
  <2>2. V(g) = V(h)
    BY <1>6
  <2> HIDE DEF V, S
  <2>3. Cardinality(S(g)) = Cardinality(S(h)) + 1
    BY <1>1, <2>1
  <2>4. Owned(g, 1..n) = Owned(h, 1..n) + 1
    BY <1>3, <1>4, <2>2, <2>3
  <2>5. QED
    BY <1>6, <2>4
<1>7. QED
  BY <1>5, <1>6

\* What the invariant says while the text is read.
LEMMA WhileReading ==
    ASSUME ParseInv, pc \in Reading
    PROVE  /\ heap \in Seq(Node) /\ Len(heap) \in Nat /\ Len(heap) # 0 /\ Len(heap) \in 1..Len(heap)
           /\ frames \in Seq(Frame) /\ Len(frames) \in Nat
           /\ \E e : Tree(heap, e, frames, Len(heap))
           /\ strings = Owned(heap, 1..Len(heap))
           /\ ~wild
           /\ Current = LastIn(frames, Len(frames))
           /\ frames # <<>> => /\ Top = frames[Len(frames)] /\ Top \in Frame
                               /\ Top.head = NULL => Top.last = NULL
                               /\ FirstIn(frames, Len(frames)) = Top.head
           /\ Current # NULL => FirstIn(frames, Len(frames)) # NULL
<1>1. Standing(Len(heap)) /\ ~wild
  BY DEF ParseInv
<1>2. PICK e : Tree(heap, e, frames, Len(heap))
  BY <1>1 DEF Standing
<1>3. /\ heap \in Seq(Node) /\ Len(heap) \in Nat /\ Len(heap) \in 1..Len(heap)
      /\ Nested(heap, e, frames, Len(heap)) /\ frames \in Seq(Frame) /\ Len(frames) \in Nat
  BY <1>2 DEF Tree, TextOrder, Nested
<1>4. Len(heap) # 0
  BY <1>3
<1>5. CASE frames = <<>>
  <2>1. Len(frames) = 0
    BY <1>5
  <2>2. QED
    BY <1>1, <1>2, <1>3, <1>4, <1>5, <2>1 DEF Standing, Current, LastIn, FirstIn, Root, NULL
<1>6. CASE frames # <<>>
  <2>1. Len(frames) \in 1..Len(frames) /\ Len(frames) # 0
    BY <1>3, <1>6, FrontIs
  <2>2. Top = frames[Len(frames)] /\ Top \in Frame
    BY <1>3, <2>1 DEF Top, Last
  <2>3. Top.head = NULL => Top.last = NULL
    BY <1>3, <2>1, <2>2 DEF Nested
  <2>4. Current = LastIn(frames, Len(frames)) /\ FirstIn(frames, Len(frames)) = Top.head
        /\ Current = Top.last
    BY <1>6, <2>1, <2>2 DEF Current, LastIn, FirstIn
  <2>5. QED
    BY <1>1, <1>2, <1>3, <1>4, <2>2, <2>3, <2>4 DEF Standing
<1>7. QED
  BY <1>5, <1>6

-----------------------------------------------------------------------------
(* The steps of the parser *)

\* A failure before anything was changed.
LEMMA GivesUp ==
    ASSUME ParseInv, pc \in Reading, pc' = "fail", UNCHANGED <<heap, frames, strings, wild>>
    PROVE  ParseInv'
<1>1. Standing(Len(heap)) /\ ~wild /\ Len(heap) \in 1..Len(heap)
  BY WhileReading DEF ParseInv
<1>2. \E end \in 1..Len(heap') : Standing(end)'
  BY <1>1 DEF Standing
<1>3. ~wild'
  BY <1>1
<1>4. QED
  BY <1>2, <1>3 DEF ParseInv, Reading

\* A step that only looks at a token.
LEMMA ReadsOn ==
    ASSUME ParseInv, pc \in Reading, UNCHANGED <<heap, frames, strings, wild>>,
           \/ pc = "first" /\ pc' = "element"
           \/ pc = "colon" /\ pc' = "value"
           \/ pc = "after" /\ pc' = "element"
    PROVE  ParseInv'
<1>1. Standing(Len(heap)) /\ ~wild
  BY DEF ParseInv
<1>2. Standing(Len(heap))'
  BY <1>1 DEF Standing
<1>3. ~wild' /\ Current' = Current /\ Top' = Top
  BY <1>1 DEF Current, Top
<1>4. QED
  BY <1>2, <1>3 DEF ParseInv, Reading

\* The root is the whole tree.
LEMMA StartKeeps ==
    ASSUME ParseInv, Start
    PROVE  ParseInv'
<1>1. pc = "start" /\ heap = <<>> /\ strings = 0 /\ frames = <<>> /\ ~wild
      /\ UNCHANGED <<frames, strings, wild>>
  BY DEF ParseInv, Start
<1>2. CASE pc' = "refused" /\ UNCHANGED heap
  BY <1>1, <1>2 DEF ParseInv, Reading
<1>3. CASE heap' = <<Blank>> /\ pc' = "value"
  <2> DEFINE h == <<Blank>>
             e == [m \in 1..1 |-> 1]
  <2>1. Blank \in Node /\ Blank.child = NULL /\ Blank.next = NULL /\ Blank.type = "Invalid"
        /\ ~Blank.valuestring /\ ~Blank.string
    BY DEF Blank, Node, Kinds, NULL
  <2>2. h \in Seq(Node) /\ Len(h) = 1 /\ h[1] = Blank /\ 1..1 = {1}
    BY <2>1
  <2>3. TextOrder(h, e)
    BY <2>1, <2>2 DEF TextOrder, InTextOrder, Below
  <2>4. Nested(h, e, <<>>, 1)
    <3>1. Len(<<>>) = 0 /\ <<>> \in Seq(Frame) /\ 0..0 = {0} /\ 1..0 = {}
      OBVIOUS
    <3>2. FirstIn(<<>>, 0) = 1 /\ LastIn(<<>>, 0) = 1
      BY DEF FirstIn, LastIn, Root
    <3>3. Growing(h, e, 1, 1, 1)
      BY <2>1, <2>2 DEF Growing
    <3>4. QED
      BY <3>1, <3>2, <3>3 DEF Nested
  <2>5. FreedBeyond(h, 1)
    BY <2>1, <2>2 DEF FreedBeyond, Freed
  <2>6. Tree(h, e, <<>>, 1)
    BY <2>2, <2>3, <2>4, <2>5 DEF Tree
  <2>7. Owned(h, 1..1) = 0
    <3>1. {m \in 1..1 : h[m].valuestring} = {} /\ {m \in 1..1 : h[m].string} = {}
      BY <2>1, <2>2
    <3>2. QED
      BY <3>1, FS_EmptySet DEF Owned
  <2> HIDE DEF h, e
  <2>8. heap' = h /\ frames' = <<>> /\ strings' = 0
    BY <1>1, <1>3 DEF h
  <2>9. Standing(Len(heap))'
    BY <2>2, <2>6, <2>7, <2>8 DEF Standing
  <2>10. Current' = 1
    BY <2>8 DEF Current, Root
  <2>11. QED
    BY <1>1, <1>3, <2>1, <2>2, <2>8, <2>9, <2>10 DEF ParseInv, Reading
<1>4. QED
  BY <1>2, <1>3 DEF Start

\* The youngest node becomes x, which has the same links.
LEMMA NodeBecomes ==
    ASSUME ParseInv, pc \in Reading, NEW x \in Node, UNCHANGED <<frames, wild>>,
           heap' = [heap EXCEPT ![Len(heap)] = x],
           x.child = heap[Len(heap)].child, x.next = heap[Len(heap)].next, x.type # Freed,
           strings' = Owned(heap', 1..Len(heap))
    PROVE  /\ Standing(Len(heap))' /\ ~wild' /\ Current' = Current /\ Top' = Top
           /\ Len(heap') = Len(heap) /\ heap'[Len(heap)] = x
<1> DEFINE N == Len(heap)
           g == [heap EXCEPT ![N] = x]
<1>1. /\ heap \in Seq(Node) /\ N \in Nat /\ N \in 1..N /\ ~wild
      /\ \E e : Tree(heap, e, frames, N)
  BY WhileReading
<1>2. g \in Seq(Node) /\ Len(g) = N /\ g[N] = x /\ \A m \in 1..N : m # N => g[m] = heap[m]
  BY <1>1
<1>3. \A m \in 1..N : heap[m].type # Freed
  BY <1>1 DEF Tree, FreedBeyond
<1>4. heap' = g
  OBVIOUS
<1> HIDE DEF g
<1>5. \A m \in 1..N : g[m].child = heap[m].child /\ g[m].next = heap[m].next
  BY <1>2
<1>6. \A m \in 1..N : g[m].type # Freed
  BY <1>2, <1>3
<1>7. PICK e : Tree(heap, e, frames, N)
  BY <1>1
<1>8. Tree(g, e, frames, Len(g))
  BY <1>2, <1>5, <1>6, <1>7, ValueGiven
<1>9. Standing(N)'
  BY <1>2, <1>4, <1>8 DEF Standing
<1>10. QED
  BY <1>1, <1>2, <1>4, <1>9 DEF Current, Top

\* A literal or a number, a string, a name: the youngest node gets it.
LEMMA ScalarKeeps ==
    ASSUME ParseInv, Scalar
    PROVE  ParseInv'
<1> DEFINE N == Len(heap)
           x == [heap[N] EXCEPT !.type = "Value"]
<1>1. /\ pc = "value" /\ pc' = Returned /\ UNCHANGED <<frames, strings, wild>>
      /\ heap' = [heap EXCEPT ![Current].type = "Value"]
  BY DEF Scalar
<1>2. pc \in Reading /\ Current = N
  BY <1>1 DEF ParseInv, Reading
<1>3. /\ heap \in Seq(Node) /\ N \in Nat /\ N \in 1..N /\ strings = Owned(heap, 1..N)
      /\ Current # NULL => FirstIn(frames, Len(frames)) # NULL
      /\ frames # <<>> => FirstIn(frames, Len(frames)) = Top.head
  BY <1>2, WhileReading
<1>4. heap[N] \in Node
  BY <1>3
<1>5. /\ x \in Node /\ x.child = heap[N].child /\ x.next = heap[N].next /\ x.type # Freed
      /\ x.valuestring = heap[N].valuestring /\ x.string = heap[N].string
  BY <1>4 DEF Node, Kinds, Freed
<1>6. heap' = [heap EXCEPT ![N] = x]
  BY <1>1, <1>2
<1> HIDE DEF x
<1>7. strings' = Owned(heap', 1..N)
  <2>1. \A m \in 1..N : heap'[m].valuestring = heap[m].valuestring /\ heap'[m].string = heap[m].string
    BY <1>3, <1>5, <1>6
  <2>2. Owned(heap', 1..N) = Owned(heap, 1..N)
    BY <2>1, OwnedSame
  <2>3. QED
    BY <1>1, <1>3, <2>2
<1>8. /\ Standing(N)' /\ ~wild' /\ Top' = Top /\ Len(heap') = N
  BY <1>1, <1>2, <1>5, <1>6, <1>7, NodeBecomes
<1>9. frames # <<>> => Top.head # NULL
  <2>1. Current # NULL
    BY <1>2, <1>3 DEF NULL
  <2>2. QED
    BY <1>3, <2>1
<1>10. pc' = IF frames = <<>> THEN "accepted" ELSE "after"
  BY <1>1 DEF Returned
<1>11. QED
  BY <1>1, <1>8, <1>9, <1>10 DEF ParseInv, Reading

LEMMA StringValueKeeps ==
    ASSUME ParseInv, StringValue
    PROVE  ParseInv'
<1> DEFINE N == Len(heap)
           x == [heap[N] EXCEPT !.type = "String", !.valuestring = TRUE]
<1>1. pc = "value" /\ UNCHANGED <<frames, wild>>
  BY DEF StringValue
<1>2. pc \in Reading /\ Current = N /\ ~heap[N].valuestring
  BY <1>1 DEF ParseInv, Reading
<1>3. CASE Fail("memory") /\ UNCHANGED <<heap, strings>>
  BY <1>1, <1>2, <1>3, GivesUp DEF Fail
<1>4. CASE /\ heap' = [heap EXCEPT ![Current].type = "String", ![Current].valuestring = TRUE]
           /\ strings' = strings + 1 /\ pc' = Returned
  <2>1. /\ heap \in Seq(Node) /\ N \in Nat /\ N # 0 /\ N \in 1..N /\ strings = Owned(heap, 1..N)
        /\ Current # NULL => FirstIn(frames, Len(frames)) # NULL
        /\ frames # <<>> => FirstIn(frames, Len(frames)) = Top.head
    BY <1>2, WhileReading
  <2>2. heap[N] \in Node
    BY <2>1
  <2>3. /\ x \in Node /\ x.child = heap[N].child /\ x.next = heap[N].next /\ x.type # Freed
        /\ x.valuestring /\ x.string = heap[N].string
    BY <2>2 DEF Node, Kinds, Freed
  <2>4. heap' = [heap EXCEPT ![N] = x]
    BY <1>2, <1>4, <2>1
  <2> HIDE DEF x
  <2>5. strings' = Owned(heap', 1..N)
    <3>1. \A m \in 1..N : m # N =>
              heap'[m].valuestring = heap[m].valuestring /\ heap'[m].string = heap[m].string
      BY <2>1, <2>4
    <3>2. heap'[N].valuestring /\ heap'[N].string = heap[N].string
      BY <2>1, <2>3, <2>4
    <3>3. Owned(heap', 1..N) = Owned(heap, 1..N) + 1
      BY <1>2, <2>1, <3>1, <3>2, OwnedGrows
    <3>4. QED
      BY <1>4, <2>1, <3>3
  <2>6. /\ Standing(N)' /\ ~wild' /\ Top' = Top /\ Len(heap') = N
    BY <1>1, <1>2, <2>3, <2>4, <2>5, NodeBecomes
  <2>7. frames # <<>> => Top.head # NULL
    <3>1. Current # NULL
      BY <1>2, <2>1 DEF NULL
    <3>2. QED
      BY <2>1, <3>1
  <2>8. pc' = IF frames = <<>> THEN "accepted" ELSE "after"
    BY <1>4 DEF Returned
  <2>9. QED
    BY <1>1, <2>6, <2>7, <2>8 DEF ParseInv, Reading
<1>5. QED
  BY <1>3, <1>4 DEF StringValue

LEMMA NameKeeps ==
    ASSUME ParseInv, Name
    PROVE  ParseInv'
<1> DEFINE N == Len(heap)
           x == [heap[N] EXCEPT !.type = "String", !.string = TRUE]
<1>1. pc = "name" /\ UNCHANGED <<frames, wild>>
  BY DEF Name
<1>2. pc \in Reading /\ Current = N /\ ~heap[N].valuestring /\ ~heap[N].string /\ frames # <<>>
  BY <1>1 DEF ParseInv, Reading
<1>3. CASE pc' = "fail" /\ UNCHANGED <<heap, strings>>
  BY <1>1, <1>2, <1>3, GivesUp
<1>4. CASE /\ heap' = [heap EXCEPT ![Current].type = "String", ![Current].string = TRUE]
           /\ strings' = strings + 1 /\ pc' = "colon"
  <2>1. /\ heap \in Seq(Node) /\ N \in Nat /\ N # 0 /\ N \in 1..N /\ strings = Owned(heap, 1..N)
    BY <1>2, WhileReading
  <2>2. heap[N] \in Node
    BY <2>1
  <2>3. /\ x \in Node /\ x.child = heap[N].child /\ x.next = heap[N].next /\ x.type # Freed
        /\ x.valuestring = heap[N].valuestring /\ x.string
    BY <2>2 DEF Node, Kinds, Freed
  <2>4. heap' = [heap EXCEPT ![N] = x]
    BY <1>2, <1>4, <2>1
  <2> HIDE DEF x
  <2>5. strings' = Owned(heap', 1..N)
    <3>1. \A m \in 1..N : m # N =>
              heap'[m].valuestring = heap[m].valuestring /\ heap'[m].string = heap[m].string
      BY <2>1, <2>4
    <3>2. heap'[N].string /\ heap'[N].valuestring = heap[N].valuestring
      BY <2>1, <2>3, <2>4
    <3>3. Owned(heap', 1..N) = Owned(heap, 1..N) + 1
      BY <1>2, <2>1, <3>1, <3>2, OwnedGrows
    <3>4. QED
      BY <1>4, <2>1, <3>3
  <2>6. /\ Standing(N)' /\ ~wild' /\ Current' = Current /\ Len(heap') = N /\ heap'[N] = x
    BY <1>1, <1>2, <2>3, <2>4, <2>5, NodeBecomes
  <2>7. QED
    BY <1>1, <1>2, <1>4, <2>3, <2>6 DEF ParseInv, Reading
<1>5. QED
  BY <1>3, <1>4 DEF Name, Fail

\* A list is opened.
LEMMA OpenListKeeps ==
    ASSUME ParseInv, NEW k \in {"Array", "Object"}, OpenList(k)
    PROVE  ParseInv'
<1> DEFINE N == Len(heap)
           top == [item |-> N, kind |-> k, head |-> NULL, last |-> NULL]
<1>1. pc = "value" /\ UNCHANGED <<heap, strings, wild>>
  BY DEF OpenList
<1>2. pc \in Reading /\ Current = N
  BY <1>1 DEF ParseInv, Reading
<1>3. CASE pc' = "fail" /\ UNCHANGED frames
  BY <1>1, <1>2, <1>3, GivesUp
<1>4. CASE /\ frames' = Append(frames, [item |-> Current, kind |-> k, head |-> NULL, last |-> NULL])
           /\ pc' = "first"
  <2>1. /\ N \in Nat /\ N # 0 /\ strings = Owned(heap, 1..N) /\ ~wild
        /\ frames \in Seq(Frame) /\ Len(frames) \in Nat
        /\ Current = LastIn(frames, Len(frames))
        /\ Current # NULL => FirstIn(frames, Len(frames)) # NULL
        /\ \E e : Tree(heap, e, frames, N)
    BY <1>2, WhileReading
  <2>2. PICK e : Tree(heap, e, frames, N)
    BY <2>1
  <2>3. LastIn(frames, Len(frames)) = N /\ FirstIn(frames, Len(frames)) # NULL
    BY <1>2, <2>1 DEF NULL
  <2>4. Tree(heap, e, Append(frames, top), N)
    BY <2>2, <2>3, ListOpened
  <2>5. top \in Frame /\ top.head = NULL
    BY <2>1 DEF Frame, NULL
  <2>6. frames' = Append(frames, top)
    BY <1>2, <1>4
  <2> HIDE DEF top
  <2>7. Standing(N)'
    BY <1>1, <2>1, <2>4, <2>6 DEF Standing
  <2>8. frames' # <<>> /\ Top' = top
    <3>1. Append(frames, top) # <<>> /\ Append(frames, top)[Len(Append(frames, top))] = top
      BY <2>1, <2>5
    <3>2. QED
      BY <2>6, <3>1 DEF Top, Last
  <2>9. QED
    BY <1>1, <1>4, <2>1, <2>5, <2>7, <2>8 DEF ParseInv, Reading
<1>5. QED
  BY <1>3, <1>4 DEF OpenList, Fail

\* The steps that decide by the next token and change nothing.
LEMMA LookKeeps ==
    ASSUME ParseInv, NoValue \/ NotClosed \/ Colon \/ Comma
    PROVE  ParseInv'
<1>1. CASE NoValue
  <2>1. pc \in Reading /\ pc' = "fail" /\ UNCHANGED <<heap, frames, strings, wild>>
    BY <1>1 DEF NoValue, Fail, Reading
  <2>2. QED
    BY <2>1, GivesUp
<1>2. CASE NotClosed
  <2>1. pc = "first" /\ pc' = "element" /\ UNCHANGED <<heap, frames, strings, wild>>
    BY <1>2 DEF NotClosed
  <2>2. QED
    BY <2>1, ReadsOn DEF Reading
<1>3. CASE Colon
  <2>1. /\ pc = "colon" /\ pc' \in {"value", "fail"} /\ UNCHANGED <<heap, frames, strings, wild>>
    BY <1>3 DEF Colon, Fail
  <2>2. QED
    BY <2>1, ReadsOn, GivesUp DEF Reading
<1>4. CASE Comma
  <2>1. /\ pc = "after" /\ pc' \in {"element", "fail"} /\ UNCHANGED <<heap, frames, strings, wild>>
    BY <1>4 DEF Comma, Fail
  <2>2. QED
    BY <2>1, ReadsOn, GivesUp DEF Reading
<1>5. QED
  BY <1>1, <1>2, <1>3, <1>4

\* What is known of a tree and of its innermost list.
LEMMA Innermost ==
    ASSUME NEW h, NEW e, NEW fr, NEW end, Tree(h, e, fr, end), fr # <<>>
    PROVE  /\ h \in Seq(Node) /\ Len(h) \in Nat /\ end \in 1..Len(h)
           /\ TextOrder(h, e) /\ FreedBeyond(h, end)
           /\ fr \in Seq(Frame) /\ Len(fr) \in 1..Len(fr) /\ fr[Len(fr)] \in Frame
           /\ fr[Len(fr)].item \in 1..end
           /\ \A m \in 1..fr[Len(fr)].item : e[m] <= fr[Len(fr)].item
           /\ fr[Len(fr)].head = NULL => fr[Len(fr)].item = end /\ fr[Len(fr)].last = NULL
           /\ fr[Len(fr)].head # NULL => /\ fr[Len(fr)].head = fr[Len(fr)].item + 1
                                         /\ fr[Len(fr)].head \in 1..end
                                         /\ e[fr[Len(fr)].head] = end
           /\ h[fr[Len(fr)].item].child = NULL
           /\ Nested(h, e, Front(fr), fr[Len(fr)].item)
           /\ FirstIn(Front(fr), Len(Front(fr))) # NULL
           /\ LastIn(Front(fr), Len(Front(fr))) = fr[Len(fr)].item
           /\ Front(fr) \in Seq(Frame)
           /\ Len(Front(fr)) = Len(fr) - 1
<1>1. /\ h \in Seq(Node) /\ Len(h) \in Nat /\ end \in 1..Len(h)
      /\ TextOrder(h, e) /\ FreedBeyond(h, end) /\ Nested(h, e, fr, end)
  BY DEF Tree, TextOrder
<1>2. /\ fr \in Seq(Frame) /\ \A i \in 1..Len(fr) : fr[i] \in Frame
      /\ Len(fr) \in Nat
      /\ \A i \in 0..Len(fr) : FirstIn(fr, i) # NULL => FirstIn(fr, i) \in 1..end
  BY <1>1, ListBounds
<1>3. Len(fr) \in 1..Len(fr) /\ Len(fr) # 0 /\ Front(fr) \in Seq(Frame)
  BY <1>2, FrontIs
<1>4. /\ Nested(h, e, Front(fr), fr[Len(fr)].item)
      /\ fr[Len(fr)].item \in 1..end
      /\ FirstIn(Front(fr), Len(Front(fr))) # NULL
      /\ LastIn(Front(fr), Len(Front(fr))) = fr[Len(fr)].item
      /\ Len(Front(fr)) = Len(fr) - 1
  BY <1>1, ListPopped
<1> DEFINE top == fr[Len(fr)]
<1>5. /\ \A m \in 1..top.item : e[m] <= top.item
      /\ top.head = NULL => top.item = end /\ top.last = NULL
      /\ top.head # NULL => top.head = top.item + 1
      /\ h[top.item].child = NULL
  BY <1>1, <1>3 DEF Nested
<1>6. ASSUME top.head # NULL
      PROVE  top.head \in 1..end /\ e[top.head] = end
  <2>1. FirstIn(fr, Len(fr)) = top.head /\ Len(fr) \in 0..Len(fr)
    BY <1>2, <1>3 DEF FirstIn
  <2>2. Growing(h, e, FirstIn(fr, Len(fr)), LastIn(fr, Len(fr)), end)
    BY <1>1, <1>6, <2>1 DEF Nested
  <2>3. QED
    BY <1>2, <1>6, <2>1, <2>2 DEF Growing
<1>7. QED
  BY <1>1, <1>2, <1>3, <1>4, <1>5, <1>6

\* A list is complete: its item has it, and nothing else changes but the prev of its head.
LEMMA ListTaken ==
    ASSUME ParseInv, CloseList
    PROVE  /\ heap' \in Seq(Node) /\ Len(heap') = Len(heap)
           /\ \A m \in 1..Len(heap) :
                  /\ heap'[m].next = heap[m].next
                  /\ heap'[m].child = IF m = Top.item THEN Top.head ELSE heap[m].child
                  /\ heap'[m].type = IF m = Top.item THEN Top.kind ELSE heap[m].type
                  /\ heap'[m].valuestring = heap[m].valuestring /\ heap'[m].string = heap[m].string
                  /\ heap'[m].type # Freed
<1> DEFINE N == Len(heap)
           top == frames[Len(frames)]
           t == top.item
           ft == Front(frames)
<1>1. /\ pc \in {"first", "after"} /\ frames' = Front(frames) /\ UNCHANGED <<strings, wild>>
      /\ pc' = IF Len(frames) = 1 THEN "accepted" ELSE "after"
      /\ heap' = LET h == [heap EXCEPT ![Top.item].type = Top.kind, ![Top.item].child = Top.head]
                 IN  IF Top.head = NULL THEN h ELSE [h EXCEPT ![Top.head].prev = Top.last]
  BY DEF CloseList
<1>2. pc \in Reading /\ frames # <<>>
  BY <1>1 DEF ParseInv, Reading
<1>3. /\ heap \in Seq(Node) /\ N \in Nat /\ strings = Owned(heap, 1..N) /\ ~wild
      /\ Top = top
      /\ \E e : Tree(heap, e, frames, N)
  BY <1>2, WhileReading
<1>4. PICK e : Tree(heap, e, frames, N)
  BY <1>3
<1>5. /\ N \in 1..N /\ TextOrder(heap, e) /\ FreedBeyond(heap, N)
      /\ frames \in Seq(Frame) /\ Len(frames) \in 1..Len(frames) /\ top \in Frame
      /\ t \in 1..N
      /\ \A m \in 1..t : e[m] <= t
      /\ top.head = NULL => t = N
      /\ top.head # NULL => top.head = t + 1 /\ top.head \in 1..N /\ e[top.head] = N
      /\ heap[t].child = NULL
      /\ Nested(heap, e, ft, t)
      /\ FirstIn(ft, Len(ft)) # NULL
      /\ LastIn(ft, Len(ft)) = t
      /\ ft \in Seq(Frame) /\ Len(ft) = Len(frames) - 1
  BY <1>2, <1>4, Innermost
<1> DEFINE g == [m \in 1..N |->
                    IF m = t THEN [heap[m] EXCEPT !.type = top.kind, !.child = top.head]
                    ELSE IF top.head # NULL /\ m = top.head THEN [heap[m] EXCEPT !.prev = top.last]
                    ELSE heap[m]]
<1>6. /\ top.kind \in Kinds /\ top.kind # Freed /\ top.head \in Nat /\ top.last \in Nat
      /\ t \in Nat /\ t # top.head
  <2>1. top.kind \in Kinds /\ top.kind # Freed /\ top.head \in Nat /\ top.last \in Nat
    BY <1>5 DEF Frame, Kinds, Freed
  <2> HIDE DEF top, t
  <2>2. N \in Nat /\ t \in 1..N /\ (top.head # NULL => top.head = t + 1)
    BY <1>3, <1>5
  <2>3. t \in Nat /\ t # top.head
    BY <2>2 DEF NULL
  <2>4. QED
    BY <2>1, <2>3
<1>7. heap' = g
  <2>1. heap' = LET h == [heap EXCEPT ![t].type = top.kind, ![t].child = top.head]
                IN  IF top.head = NULL THEN h ELSE [h EXCEPT ![top.head].prev = top.last]
    BY <1>1, <1>3
  <2>2. DOMAIN heap = 1..N /\ heap = [m \in 1..N |-> heap[m]]
    BY <1>3
  <2> HIDE DEF top
  <2>3. QED
    BY <1>5, <1>6, <2>1, <2>2
<1>8. ASSUME NEW m \in 1..N
      PROVE  /\ g[m] \in Node
             /\ g[m].next = heap[m].next
             /\ g[m].child = IF m = t THEN top.head ELSE heap[m].child
             /\ g[m].type = IF m = t THEN top.kind ELSE heap[m].type
             /\ g[m].valuestring = heap[m].valuestring /\ g[m].string = heap[m].string
             /\ g[m].type # Freed
  <2>1. heap[m] \in Node /\ heap[m].type # Freed
    BY <1>3, <1>5 DEF FreedBeyond
  <2>2. CASE m = t
    <3>1. g[m] = [heap[m] EXCEPT !.type = top.kind, !.child = top.head]
      BY <2>2
    <3>2. QED
      BY <1>6, <2>1, <2>2, <3>1 DEF Node
  <2>3. CASE m # t /\ top.head # NULL /\ m = top.head
    <3>1. g[m] = [heap[m] EXCEPT !.prev = top.last]
      BY <2>3
    <3>2. QED
      BY <1>6, <2>1, <2>3, <3>1 DEF Node
  <2>4. CASE m # t /\ ~(top.head # NULL /\ m = top.head)
    <3>1. g[m] = heap[m]
      BY <2>4
    <3>2. QED
      BY <2>1, <2>4, <3>1
  <2>5. QED
    BY <2>2, <2>3, <2>4
<1>9. g \in Seq(Node) /\ Len(g) = N
  <2>1. g \in [1..N -> Node]
    BY <1>8
  <2> HIDE DEF g
  <2>2. QED
    BY <1>3, <2>1
<1> HIDE DEF g
<1>10. QED
  BY <1>3, <1>7, <1>8, <1>9

\* A list is complete.
LEMMA CloseListKeeps ==
    ASSUME ParseInv, CloseList
    PROVE  ParseInv'
<1> DEFINE N == Len(heap)
           top == frames[Len(frames)]
           t == top.item
           ft == Front(frames)
<1>1. /\ pc \in {"first", "after"} /\ frames' = Front(frames) /\ UNCHANGED <<strings, wild>>
      /\ pc' = IF Len(frames) = 1 THEN "accepted" ELSE "after"
  BY DEF CloseList
<1>2. pc \in Reading /\ frames # <<>>
  BY <1>1 DEF ParseInv, Reading
<1>3. /\ heap \in Seq(Node) /\ N \in Nat /\ strings = Owned(heap, 1..N) /\ ~wild
      /\ Top = top
      /\ \E e : Tree(heap, e, frames, N)
  BY <1>2, WhileReading
<1>4. PICK e : Tree(heap, e, frames, N)
  BY <1>3
<1>5. /\ N \in 1..N /\ TextOrder(heap, e) /\ FreedBeyond(heap, N)
      /\ frames \in Seq(Frame) /\ Len(frames) \in 1..Len(frames) /\ top \in Frame
      /\ t \in 1..N
      /\ \A m \in 1..t : e[m] <= t
      /\ top.head = NULL => t = N
      /\ top.head # NULL => top.head = t + 1 /\ top.head \in 1..N /\ e[top.head] = N
      /\ heap[t].child = NULL
      /\ Nested(heap, e, ft, t)
      /\ FirstIn(ft, Len(ft)) # NULL
      /\ LastIn(ft, Len(ft)) = t
      /\ ft \in Seq(Frame) /\ Len(ft) = Len(frames) - 1
  BY <1>2, <1>4, Innermost
<1>6. /\ heap' \in Seq(Node) /\ Len(heap') = N
      /\ \A m \in 1..N :
             /\ heap'[m].next = heap[m].next
             /\ heap'[m].child = IF m = t THEN top.head ELSE heap[m].child
             /\ heap'[m].valuestring = heap[m].valuestring /\ heap'[m].string = heap[m].string
             /\ heap'[m].type # Freed
  BY <1>3, ListTaken
<1>7. \E w : TextOrder(heap', w) /\ Nested(heap', w, ft, N)
  <2>1. CASE top.head = NULL
    <3>1. \A m \in 1..N : heap'[m].child = heap[m].child /\ heap'[m].next = heap[m].next
      BY <1>5, <1>6, <2>1
    <3>2. Nested(heap, e, ft, N)
      BY <1>5, <2>1
    <3>3. TextOrder(heap', e) /\ Nested(heap', e, ft, N)
      BY <1>5, <1>6, <3>1, <3>2, SameLinks
    <3>4. QED
      BY <3>3
  <2>2. CASE top.head # NULL
    <3> HIDE DEF t, ft
    <3>1. t + 1 \in 1..N /\ e[t + 1] = N
      BY <1>5, <2>2
    <3>2. heap'[t].child = t + 1
      BY <1>5, <1>6, <2>2
    <3>3. \A m \in 1..N : m # t => heap'[m].child = heap[m].child
      BY <1>6
    <3>4. \A m \in 1..N : heap'[m].next = heap[m].next
      BY <1>6
    <3> HIDE DEF top
    <3>5. /\ TextOrder(heap, e) /\ Nested(heap, e, ft, t) /\ t \in 1..N
          /\ FirstIn(ft, Len(ft)) # NULL /\ LastIn(ft, Len(ft)) = t
          /\ \A m \in 1..t : e[m] <= t
      BY <1>5
    <3>6. HungBelow(heap, heap', t)
      BY <1>6, <3>2, <3>3, <3>4 DEF HungBelow
    <3>7. QED
      BY <3>1, <3>5, <3>6, ListHung
  <2>3. QED
    BY <2>1, <2>2
<1>8. PICK w : TextOrder(heap', w) /\ Nested(heap', w, ft, N)
  BY <1>7
<1>9. FreedBeyond(heap', N)
  BY <1>6 DEF FreedBeyond
<1>10. Tree(heap', w, ft, N)
  BY <1>5, <1>6, <1>8, <1>9 DEF Tree
<1>11. strings' = Owned(heap', 1..N)
  <2>1. Owned(heap', 1..N) = Owned(heap, 1..N)
    BY <1>6, OwnedSame
  <2>2. QED
    BY <1>1, <1>3, <2>1
<1>12. frames' = ft
  BY <1>1
<1>13. Standing(Len(heap))'
  BY <1>6, <1>10, <1>11, <1>12 DEF Standing
<1>14. Len(frames) = 1 => ft = <<>>
  BY <1>5
<1>15. Len(frames) # 1 => ft # <<>> /\ Last(ft).head # NULL
  <2> HIDE DEF ft, t, top
  <2> SUFFICES ASSUME Len(frames) # 1
               PROVE  ft # <<>> /\ Last(ft).head # NULL
    OBVIOUS
  <2>1. Len(ft) # 0 /\ Len(ft) \in Nat
    BY <1>5
  <2>2. ft # <<>>
    BY <2>1
  <2>3. Last(ft) = ft[Len(ft)]
    BY DEF Last
  <2>4. QED
    BY <1>5, <2>1, <2>2, <2>3 DEF FirstIn
<1>16. Top' = Last(ft)
  BY <1>12 DEF Top
<1>17. QED
  BY <1>1, <1>3, <1>12, <1>13, <1>14, <1>15, <1>16 DEF ParseInv, Reading

\* A new item, if it can be had: the heap is one longer, and the list has it.
LEMMA ElementAdded ==
    ASSUME ParseInv, Element, pc' # "fail"
    PROVE  /\ Lengthened(heap, heap', LastIn(frames, Len(frames)))
           /\ \A m \in 1..Len(heap) : /\ heap'[m].type = heap[m].type
                                      /\ heap'[m].valuestring = heap[m].valuestring
                                      /\ heap'[m].string = heap[m].string
           /\ heap'[Len(heap) + 1].type # Freed
           /\ ~heap'[Len(heap) + 1].valuestring /\ ~heap'[Len(heap) + 1].string
           /\ frames' = NextItem(frames, Len(heap) + 1)
           /\ pc' = IF Top.kind = "Array" THEN "value" ELSE "name"
           /\ LastIn(frames, Len(frames)) = frames[Len(frames)].last
<1> DEFINE N == Len(heap)
           K == Len(frames)
           l == frames[K].last
           x == [Blank EXCEPT !.prev = l]
<1>1. pc = "element"
  BY DEF Element
<1>2. pc \in Reading /\ frames # <<>>
  BY <1>1 DEF ParseInv, Reading
<1>3. /\ heap' = LET h == Append(heap, [Blank EXCEPT !.prev = Top.last])
                 IN  IF Top.last = NULL THEN h ELSE [h EXCEPT ![Top.last].next = New]
      /\ frames' = Front(frames) \o
                   <<[Top EXCEPT !.last = New, !.head = IF @ = NULL THEN New ELSE @]>>
      /\ pc' = IF Top.kind = "Array" THEN "value" ELSE "name"
  BY DEF Element, Fail
<1>4. /\ heap \in Seq(Node) /\ N \in Nat
      /\ Top = frames[K] /\ Top \in Frame
      /\ \E e : Tree(heap, e, frames, N)
  BY <1>2, WhileReading
<1>5. PICK e : Tree(heap, e, frames, N)
  BY <1>4
<1>6. frames \in Seq(Frame) /\ K \in 1..K
  BY <1>2, <1>5, Innermost
<1>7. /\ l = LastIn(frames, K) /\ l \in Nat /\ l \in 0..N
  <2>1. l = LastIn(frames, K) /\ K \in 0..K /\ FirstIn(frames, K) = frames[K].head
    BY <1>6 DEF LastIn, FirstIn
  <2>2. l \in Nat
    BY <1>4 DEF Frame
  <2>3. frames[K].head = NULL => l = NULL
    BY <1>2, <1>5, Innermost
  <2>4. Nested(heap, e, frames, N)
    BY <1>5 DEF Tree
  <2>5. frames[K].head # NULL => l <= N
    BY <2>1, <2>4 DEF Nested
  <2>6. QED
    BY <1>4, <2>1, <2>2, <2>3, <2>5 DEF NULL
<1> DEFINE h == Append(heap, x)
           g == IF l = NULL THEN h ELSE [h EXCEPT ![l].next = N + 1]
<1>8. heap' = g /\ frames' = NextItem(frames, N + 1)
  BY <1>3, <1>4 DEF New, NextItem
<1>9. /\ x \in Node /\ x.child = NULL /\ x.next = NULL /\ x.type # Freed
      /\ x.valuestring = FALSE /\ x.string = FALSE
  BY <1>7 DEF Blank, Node, Kinds, Freed, NULL
<1> HIDE DEF x
<1>10. /\ h \in Seq(Node) /\ Len(h) = N + 1 /\ h[N + 1] = x
       /\ \A m \in 1..N : h[m] = heap[m]
  BY <1>4, <1>9
<1> HIDE DEF h, l
<1>11. /\ g \in Seq(Node) /\ Len(g) = N + 1
       /\ \A m \in 1..(N + 1) : g[m] = IF l # NULL /\ m = l THEN [h[m] EXCEPT !.next = N + 1] ELSE h[m]
  <2>1. CASE l = NULL
    BY <1>10, <2>1
  <2>2. CASE l # NULL
    <3>1. l \in 1..N /\ l \in 1..(N + 1)
      BY <1>4, <1>7, <2>2 DEF NULL
    <3>2. h[l] \in Node
      BY <1>4, <1>10, <3>1
    <3>3. [h[l] EXCEPT !.next = N + 1] \in Node
      BY <1>4, <3>2 DEF Node
    <3>4. g = [h EXCEPT ![l] = [h[l] EXCEPT !.next = N + 1]]
      BY <2>2
    <3> HIDE DEF g
    <3>5. QED
      BY <1>4, <1>10, <2>2, <3>1, <3>3, <3>4
  <2>3. QED
    BY <2>1, <2>2
<1> HIDE DEF g
<1>12. ASSUME NEW m \in 1..N
       PROVE  /\ g[m].child = heap[m].child
              /\ m # l => g[m].next = heap[m].next
              /\ l # NULL /\ m = l => g[m].next = N + 1
              /\ g[m].type = heap[m].type
              /\ g[m].valuestring = heap[m].valuestring /\ g[m].string = heap[m].string
  <2>1. m \in 1..(N + 1) /\ heap[m] \in Node /\ h[m] = heap[m]
    BY <1>4, <1>10
  <2>2. g[m] = IF l # NULL /\ m = l THEN [heap[m] EXCEPT !.next = N + 1] ELSE heap[m]
    BY <1>11, <2>1
  <2>3. QED
    BY <2>1, <2>2 DEF Node
<1>13. g[N + 1] = x
  <2>1. N + 1 \in 1..(N + 1) /\ N + 1 # l
    BY <1>4, <1>7
  <2>2. QED
    BY <1>10, <1>11, <2>1
<1>14. Lengthened(heap, g, LastIn(frames, K))
  <2>1. l # NULL => l \in 1..N
    BY <1>4, <1>7 DEF NULL
  <2>2. l # NULL => g[l].next = N + 1
    BY <1>12, <2>1
  <2>3. Lengthened(heap, g, l)
    BY <1>9, <1>11, <1>12, <1>13, <2>2 DEF Lengthened
  <2>4. QED
    BY <1>7, <2>3
<1>15. /\ \A m \in 1..N : /\ g[m].type = heap[m].type
                          /\ g[m].valuestring = heap[m].valuestring
                          /\ g[m].string = heap[m].string
  BY <1>12
<1>16. g[N + 1].type # Freed /\ ~g[N + 1].valuestring /\ ~g[N + 1].string
  BY <1>9, <1>13
<1>17. l = frames[K].last
  BY DEF l
<1>18. QED
  BY <1>3, <1>7, <1>8, <1>14, <1>15, <1>16, <1>17

LEMMA ElementKeeps ==
    ASSUME ParseInv, Element
    PROVE  ParseInv'
<1> DEFINE N == Len(heap)
           K == Len(frames)
<1>1. pc = "element" /\ UNCHANGED <<strings, wild>>
  BY DEF Element
<1>2. pc \in Reading /\ frames # <<>>
  BY <1>1 DEF ParseInv, Reading
<1>3. CASE pc' = "fail"
  <2>1. UNCHANGED <<heap, frames>>
    BY <1>3 DEF Element
  <2>2. QED
    BY <1>1, <1>2, <1>3, <2>1, GivesUp
<1>4. CASE pc' # "fail"
  <2>1. /\ heap \in Seq(Node) /\ N \in Nat /\ strings = Owned(heap, 1..N) /\ ~wild
        /\ \E e : Tree(heap, e, frames, N)
    BY <1>2, WhileReading
  <2>2. PICK e : Tree(heap, e, frames, N)
    BY <2>1
  <2>3. frames \in Seq(Frame) /\ K \in 1..K
    BY <1>2, <2>2, Innermost
  <2>4. /\ Lengthened(heap, heap', LastIn(frames, K))
        /\ \A m \in 1..N : /\ heap'[m].type = heap[m].type
                           /\ heap'[m].valuestring = heap[m].valuestring
                           /\ heap'[m].string = heap[m].string
        /\ heap'[N + 1].type # Freed
        /\ ~heap'[N + 1].valuestring /\ ~heap'[N + 1].string
        /\ frames' = NextItem(frames, N + 1)
        /\ pc' = IF Top.kind = "Array" THEN "value" ELSE "name"
    BY <1>4, ElementAdded
  <2>5. heap' \in Seq(Node) /\ Len(heap') = N + 1
    BY <2>4 DEF Lengthened
  <2>6. pc' \in {"value", "name"}
    <3>1. CASE Top.kind = "Array"
      BY <2>4, <3>1
    <3>2. CASE Top.kind # "Array"
      BY <2>4, <3>2
    <3>3. QED
      BY <3>1, <3>2
  <2>7. FreedBeyond(heap', N + 1)
    <3>1. \A m \in 1..N : heap[m].type # Freed
      BY <2>1, <2>2 DEF Tree, FreedBeyond
    <3>2. \A m \in 1..(N + 1) : m \in 1..N \/ m = N + 1
      BY <2>1
    <3>3. \A m \in 1..(N + 1) : heap'[m].type # Freed /\ ~(m > N + 1)
      BY <2>1, <2>4, <3>1, <3>2
    <3>4. QED
      BY <2>5, <3>3 DEF FreedBeyond
  <2>8. PICK w : Tree(heap', w, NextItem(frames, N + 1), N + 1)
    BY <1>2, <2>2, <2>4, <2>7, ListLengthened
  <2>9. Owned(heap', 1..(N + 1)) = Owned(heap, 1..N)
    <3>1. \A m : m \in 1..(N + 1) <=> m \in 1..N \/ m = N + 1
      BY <2>1
    <3>2. {m \in 1..(N + 1) : heap'[m].valuestring} = {m \in 1..N : heap[m].valuestring}
      BY <2>4, <3>1
    <3>3. {m \in 1..(N + 1) : heap'[m].string} = {m \in 1..N : heap[m].string}
      BY <2>4, <3>1
    <3>4. QED
      BY <3>2, <3>3 DEF Owned
  <2>10. Standing(Len(heap))'
    BY <1>1, <2>1, <2>4, <2>5, <2>8, <2>9 DEF Standing
  <2>11. frames' # <<>> /\ Last(frames').last = N + 1
    <3> DEFINE fn == NextItem(frames, N + 1)
    <3>1. N + 1 \in Nat
      BY <2>1
    <3>2. fn \in Seq(Frame) /\ Len(fn) = K /\ fn[K].last = N + 1
      BY <1>2, <2>3, <3>1, NextItemIs
    <3> HIDE DEF fn
    <3>3. fn # <<>> /\ Last(fn) = fn[K]
      BY <2>3, <3>2 DEF Last
    <3>4. QED
      BY <2>4, <3>2, <3>3 DEF fn
  <2>12. Current' = Len(heap')
    BY <2>5, <2>11 DEF Current, Top
  <2>13. ~heap'[Len(heap')].valuestring /\ ~heap'[Len(heap')].string
    BY <2>4, <2>5
  <2>14. QED
    BY <1>1, <2>1, <2>6, <2>10, <2>11, <2>12, <2>13 DEF ParseInv, Reading
<1>5. QED
  BY <1>3, <1>4

\* The root is deleted with all that is left below it.
LEMMA RootGone ==
    ASSUME NEW end, Standing(end), frames = <<>>, ~wild, Delete(Root)
    PROVE  strings' = 0 /\ ~wild' /\ \A m \in DOMAIN heap' : IsFreed(m)'
<1>1. PICK e : Tree(heap, e, <<>>, end)
  BY DEF Standing
<1>2. /\ TextOrder(heap, e) /\ end \in 1..Len(heap) /\ FreedBeyond(heap, end)
      /\ Nested(heap, e, <<>>, end) /\ Len(heap) \in Nat
  BY <1>1 DEF Tree, TextOrder
<1>3. Root \in 1..end /\ e[Root] = end
  <2>1. Len(<<>>) = 0 /\ 0 \in 0..0 /\ FirstIn(<<>>, 0) = Root /\ Root # NULL
    BY DEF FirstIn, Root, NULL
  <2>2. Growing(heap, e, Root, LastIn(<<>>, 0), end)
    BY <1>2, <2>1 DEF Nested
  <2>3. QED
    BY <1>2, <2>2 DEF Growing, Root
<1>4. /\ heap' \in Seq(Node) /\ FreedBeyond(heap', Root - 1)
      /\ strings' = Owned(heap', 1..(Root - 1)) /\ ~wild'
  <2>1. strings = Owned(heap, 1..end)
    BY DEF Standing
  <2>2. QED
    BY <1>2, <1>3, <2>1, DeleteYoungest
<1>5. Root - 1 = 0 /\ 1..0 = {}
  BY DEF Root
<1>6. Owned(heap', {}) = 0
  BY FS_EmptySet DEF Owned
<1>7. strings' = 0
  BY <1>4, <1>5, <1>6
<1>8. \A m \in 1..Len(heap') : heap'[m].type = Freed
  BY <1>4, <1>5 DEF FreedBeyond
<1>9. QED
  BY <1>4, <1>7, <1>8 DEF IsFreed

\* One level of the way out.
LEMMA UnwindKeeps ==
    ASSUME ParseInv, Unwind
    PROVE  ParseInv'
<1> DEFINE N == Len(heap)
           K == Len(frames)
           top == frames[K]
           t == top.item
           ft == Front(frames)
<1>1. pc = "fail" /\ ~wild
  BY DEF Unwind, ParseInv
<1>2. PICK end \in 1..N : Standing(end)
  BY <1>1 DEF ParseInv
<1>3. CASE frames = <<>>
  <2>1. Delete(Root) /\ pc' = "refused"
    BY <1>3 DEF Unwind
  <2>2. strings' = 0 /\ ~wild' /\ \A m \in DOMAIN heap' : IsFreed(m)'
    BY <1>1, <1>2, <1>3, <2>1, RootGone
  <2>3. QED
    BY <2>1, <2>2 DEF ParseInv, Reading, IsFreed
<1>4. CASE frames # <<>>
  <2>1. /\ frames' = ft /\ pc' = "fail"
        /\ IF Top.head = NULL THEN Forget ELSE Delete(Top.head)
    BY <1>1, <1>4 DEF Unwind
  <2>2. PICK e : Tree(heap, e, frames, end)
    BY <1>2 DEF Standing
  <2>3. strings = Owned(heap, 1..end)
    BY <1>2 DEF Standing
  <2>4. /\ TextOrder(heap, e) /\ FreedBeyond(heap, end)
        /\ t \in 1..end
        /\ top.head = NULL => t = end
        /\ top.head # NULL => top.head = t + 1 /\ top.head \in 1..end /\ e[top.head] = end
        /\ Nested(heap, e, ft, t)
        /\ N \in Nat
    BY <1>4, <2>2, Innermost
  <2>5. Top = top
    BY DEF Top, Last
  <2>6. t \in 1..N
    <3> HIDE DEF t
    <3>1. QED
      BY <1>2, <2>4
  <2>7. PICK x \in 1..N : x = t
    BY <2>6
  <2>8. CASE top.head = NULL
    <3>1. UNCHANGED <<heap, strings, wild>>
      BY <2>1, <2>5, <2>8 DEF Forget
    <3>2. Tree(heap, e, ft, x)
      BY <2>4, <2>6, <2>8, <2>7 DEF Tree
    <3>3. strings = Owned(heap, 1..x)
      BY <2>3, <2>4, <2>8, <2>7
    <3> HIDE DEF ft, t
    <3>4. Standing(x)'
      BY <2>1, <3>1, <3>2, <3>3 DEF Standing
    <3>5. \E y \in 1..Len(heap') : Standing(y)'
      BY <3>1, <3>4
    <3>6. QED
      BY <1>1, <2>1, <3>1, <3>5 DEF ParseInv, Reading
  <2>9. CASE top.head # NULL
    <3> DEFINE n == top.head
    <3>1. Delete(n) /\ n \in 1..end /\ e[n] = end /\ n - 1 = x
      <4> HIDE DEF t
      <4>1. t \in Nat /\ n = t + 1
        BY <2>4, <2>6, <2>9
      <4>2. QED
        BY <2>1, <2>4, <2>5, <2>9, <2>7, <4>1
    <3> HIDE DEF n, t, ft
    <3>2. /\ heap' \in Seq(Node) /\ Len(heap') = N
          /\ \A m \in 1..N : heap'[m].child = heap[m].child /\ heap'[m].next = heap[m].next
          /\ FreedBeyond(heap', n - 1)
          /\ strings' = Owned(heap', 1..(n - 1))
          /\ ~wild'
      BY <1>1, <1>2, <2>3, <2>4, <3>1, DeleteYoungest
    <3>3. TextOrder(heap', e) /\ Nested(heap', e, ft, x)
      BY <2>4, <2>6, <2>7, <3>2, SameLinks
    <3>4. Tree(heap', e, ft, x)
      BY <2>6, <3>1, <3>2, <3>3 DEF Tree
    <3>5. Standing(x)'
      BY <2>1, <3>1, <3>2, <3>4 DEF Standing
    <3>6. \E y \in 1..Len(heap') : Standing(y)'
      BY <3>2, <3>5
    <3>7. QED
      BY <2>1, <3>2, <3>6 DEF ParseInv, Reading
  <2>10. QED
    BY <2>8, <2>9
<1>5. QED
  BY <1>3, <1>4

\* The caller deletes the tree.
LEMMA DeleteRootKeeps ==
    ASSUME ParseInv, DeleteRoot
    PROVE  ParseInv'
<1>1. pc = "accepted" /\ Delete(Root) /\ pc' = "deleted"
  BY DEF DeleteRoot
<1>2. Standing(Len(heap)) /\ frames = <<>> /\ ~wild
  BY <1>1 DEF ParseInv, Reading
<1>3. strings' = 0 /\ ~wild' /\ \A m \in DOMAIN heap' : IsFreed(m)'
  BY <1>1, <1>2, RootGone
<1>4. QED
  BY <1>1, <1>3 DEF ParseInv, Reading, IsFreed

\* Every step of the parser.
LEMMA ParseKeeps ==
    ASSUME ParseInv, [ParseNext]_parseVars
    PROVE  ParseInv'
<1>1. CASE UNCHANGED parseVars
  <2>1. UNCHANGED <<pc, heap, frames, strings, wild>>
    BY <1>1 DEF parseVars
  <2>2. \A end : Standing(end)' = Standing(end)
    BY <2>1 DEF Standing
  <2>3. Current' = Current /\ Top' = Top /\ \A m : IsFreed(m)' = IsFreed(m)
    BY <2>1 DEF Current, Top, IsFreed
  <2>4. QED
    BY <2>1, <2>2, <2>3 DEF ParseInv
<1>2. CASE ParseNext
  BY <1>2, StartKeeps, ScalarKeeps, StringValueKeeps, NameKeeps, OpenListKeeps, LookKeeps,
     CloseListKeeps, ElementKeeps, UnwindKeeps, DeleteRootKeeps DEF ParseNext
<1>3. QED
  BY <1>1, <1>2

\* A behaviour of the library that edits a list leaves the parser alone.
LEMMA LibraryParseInv == LibrarySpec => []ParseInv
<1>1. LibraryInit => ParseInv
  BY DEF LibraryInit, PrintInit, Init, ParseInv, Reading
<1>2. ParseInv /\ [LibraryNext]_<<printVars, listVars>> => ParseInv'
  <2> SUFFICES ASSUME ParseInv, [LibraryNext]_<<printVars, listVars>>
               PROVE  ParseInv'
    OBVIOUS
  <2>1. [ParseNext]_parseVars
    BY DEF LibraryNext, PrintNext, PrintTree, printVars
  <2>2. QED
    BY <2>1, ParseKeeps
<1>3. QED
  BY <1>1, <1>2, PTL DEF LibrarySpec

\* A parse that fails, wherever it breaks off and for whatever reason, and the
\* deletion of a tree that was accepted give back every node and every string,
\* and none of them twice (the fail: labels of cJSON.c and cJSON_Delete), for
\* texts of any length and any limit of the depth.
THEOREM MemoryComesBack == LibrarySpec => []MemoryIsReturned
<1>1. ParseInv => MemoryIsReturned
  BY DEF ParseInv, MemoryIsReturned
<1>2. QED
  BY <1>1, LibraryParseInv, PTL

\* What print_value writes for the node m, when f says what it writes for the
\* nodes below and behind.
OwnPieces(f, m, format, depth) ==
    CASE heap[m].type = "Value" -> <<Piece("v", 4, 5, TRUE)>>
      [] heap[m].type = "String" -> <<quoted>>
      [] heap[m].type \in {"Array", "Object"} ->
             Opening(heap[m], format)
             \o f[heap[m].child][depth + 1]
             \o Closing(heap[m], format, depth)
NodePieces(f, m, format, depth) ==
    IF m = NULL THEN <<>>
    ELSE Label(heap[m], format, depth)
         \o OwnPieces(f, m, format, depth)
         \o (IF m = Root THEN <<>> ELSE Between(heap[m], format))
         \o f[heap[m].next][depth]

\* The recursion of Pieces has a solution, because the links only lead to younger
\* nodes, and Pieces is the first value of one.
LEMMA PiecesFollow ==
    ASSUME NEW format, Upward(heap)
    PROVE  \E f : /\ \A m \in 0..Len(heap) : f[m] = [depth \in Nat |-> NodePieces(f, m, format, depth)]
                  /\ Pieces(format) = f[Root][0]
<1> DEFINE N == Len(heap)
           Step(f, m) == [depth \in Nat |-> NodePieces(f, m, format, depth)]
           Follows(f) == f = [m \in 0..N |-> Step(f, m)]
           pieces == CHOOSE f : Follows(f)
           Late(k) == {m \in 0..N : m = 0 \/ m > N - k}
           Partly(f, k) == /\ f = [m \in 0..N |-> f[m]]
                           /\ \A m \in Late(k) : f[m] = Step(f, m)
           S == {k \in Nat : k <= N => \E f : Partly(f, k)}
<1>1. N \in Nat
  BY DEF Upward
<1>2. \A m \in 1..N : /\ heap[m].child = 0 \/ heap[m].child \in (m + 1)..N
                      /\ heap[m].next = 0 \/ heap[m].next \in (m + 1)..N
  BY DEF Upward, NULL
<1>3. 0 \in S
  <2> DEFINE f == [m \in 0..N |-> [depth \in Nat |-> <<>>]]
  <2>1. Late(0) = {0}
    BY <1>1
  <2>2. f[0] = Step(f, 0)
    <3>1. f[0] = [depth \in Nat |-> <<>>]
      BY <1>1
    <3>2. \A depth : NodePieces(f, 0, format, depth) = <<>>
      BY DEF NodePieces, NULL
    <3> HIDE DEF f
    <3>3. QED
      BY <3>1, <3>2
  <2>3. f = [m \in 0..N |-> f[m]]
    OBVIOUS
  <2> HIDE DEF f, Step
  <2>4. Partly(f, 0)
    BY <2>1, <2>2, <2>3
  <2>5. QED
    BY <2>4
<1>4. ASSUME NEW k \in S
      PROVE  k + 1 \in S
  <2> SUFFICES ASSUME k + 1 <= N
               PROVE  \E f : Partly(f, k + 1)
    OBVIOUS
  <2>1. k \in Nat /\ k <= N
    BY <1>1
  <2>2. PICK f : Partly(f, k)
    BY <2>1
  <2> DEFINE x == N - k
             v == Step(f, x)
             g == [m \in 0..N |-> IF m = x THEN v ELSE f[m]]
  <2>3. x \in 1..N /\ x # 0
    BY <1>1, <2>1
  <2>4. ASSUME NEW m \in Late(k + 1)
        PROVE  g[m] = Step(g, m)
    <3>1. m \in 0..N /\ (m = x \/ m \in Late(k))
      BY <1>1, <2>1
    <3>2. CASE m = 0
      <4>1. g[m] = f[m] /\ m \in Late(k)
        BY <2>3, <3>1, <3>2
      <4>2. f[m] = Step(f, m)
        BY <2>2, <4>1
      <4>3. Step(f, m) = Step(g, m)
        BY <3>2 DEF NodePieces, NULL
      <4> HIDE DEF g, Step
      <4>4. QED
        BY <4>1, <4>2, <4>3
    <3>3. CASE m # 0
      <4>1. m \in 1..N /\ m >= x
        BY <1>1, <2>1, <3>1, <3>3
      <4> DEFINE c == heap[m].child
                 n == heap[m].next
      <4>2. (c = 0 \/ c \in (m + 1)..N) /\ (n = 0 \/ n \in (m + 1)..N)
        BY <1>2, <4>1
      <4>3. c \in 0..N /\ c # x /\ n \in 0..N /\ n # x
        BY <1>1, <2>3, <4>1, <4>2
      <4>4. g[c] = f[c] /\ g[n] = f[n]
        BY <4>3
      <4>5. Step(g, m) = Step(f, m)
        <5> HIDE DEF g
        <5>1. g[heap[m].child] = f[heap[m].child] /\ g[heap[m].next] = f[heap[m].next]
          BY <4>4
        <5>2. \A depth : OwnPieces(g, m, format, depth) = OwnPieces(f, m, format, depth)
          BY <5>1, Zenon DEF OwnPieces
        <5>3. \A depth : NodePieces(g, m, format, depth) = NodePieces(f, m, format, depth)
          BY <5>1, <5>2 DEF NodePieces
        <5>4. QED
          BY <5>3
      <4>6. g[m] = Step(f, m)
        <5>1. CASE m = x
          BY <3>1, <5>1
        <5>2. CASE m # x
          <6>1. g[m] = f[m] /\ m \in Late(k)
            BY <3>1, <5>2
          <6> HIDE DEF g, Step
          <6>2. QED
            BY <2>2, <6>1
        <5>3. QED
          BY <5>1, <5>2
      <4>7. QED
        BY <4>5, <4>6
    <3>4. QED
      BY <3>2, <3>3
  <2>5. Partly(g, k + 1)
    <3>1. \A m \in Late(k + 1) : g[m] = Step(g, m)
      BY <2>4
    <3>2. g = [m \in 0..N |-> g[m]]
      OBVIOUS
    <3> HIDE DEF g, Step, Late
    <3>3. QED
      BY <3>1, <3>2
  <2>6. QED
    BY <2>5
<1> HIDE DEF Partly, Step
<1>5. N \in S
  <2> HIDE DEF S
  <2>1. \A k \in S \intersect Nat : k + 1 \in S
    BY <1>4
  <2>2. QED
    BY <1>1, <1>3, <2>1, SetInduction
<1>6. \E f : Follows(f)
  <2>1. PICK f : Partly(f, N)
    BY <1>1, <1>5
  <2>2. Late(N) = 0..N
    BY <1>1
  <2>3. Follows(f)
    BY <2>1, <2>2 DEF Partly
  <2>4. QED
    BY <2>3
<1>7. Follows(pieces)
  BY <1>6
<1>8. Pieces(format) = pieces[Root][0]
  BY DEF Pieces, Step, NodePieces, OwnPieces
<1> HIDE DEF pieces
<1>9. \A m \in 0..N : pieces[m] = Step(pieces, m)
  BY <1>7
<1>10. QED
  BY <1>8, <1>9 DEF Step

-----------------------------------------------------------------------------
(* Writing into a buffer *)

Buffer == [out : Seq(Tok), offset : Nat, length : Nat, ok : BOOLEAN, freed : BOOLEAN, beyond : BOOLEAN]

\* A piece asks ensure for its characters, with the zero or without.
Fitting == {p \in [token : Tok \union {NoToken}, chars : Nat, needed : Nat, zero : BOOLEAN] :
                p.chars <= p.needed /\ p.needed <= p.chars + 1}

\* ensure gives the room it is asked for, or fails; it changes nothing else.
LEMMA EnsureMakesRoom ==
    ASSUME NEW p \in Buffer, NEW needed \in Nat, NEW noalloc, NEW grows,
           NEW q, q = Ensure(p, needed, noalloc, grows)
    PROVE  /\ q \in Buffer /\ q.out = p.out /\ q.offset = p.offset /\ q.beyond = p.beyond
           /\ p.ok /\ q.ok => p.offset + needed < q.length
<1> DEFINE total == needed + p.offset + 1
           failed == [p EXCEPT !.ok = FALSE]
           longer == [p EXCEPT !.length = 2 * total]
           dropped == [p EXCEPT !.ok = FALSE, !.freed = TRUE]
<1>1. p.offset \in Nat /\ p.length \in Nat
  BY DEF Buffer
<1>2. total \in Nat /\ 2 * total \in Nat /\ total <= 2 * total
  BY <1>1
<1>3. q = IF p.length > 0 /\ p.offset >= p.length THEN failed
          ELSE IF total <= p.length THEN p
          ELSE IF noalloc THEN failed
          ELSE IF grows THEN longer ELSE dropped
  BY DEF Ensure
<1>4. \A n \in Nat : total <= n => p.offset + needed < n
  BY <1>1
<1> HIDE DEF total
<1>5. /\ failed \in Buffer /\ failed.out = p.out /\ failed.offset = p.offset
      /\ failed.beyond = p.beyond /\ ~failed.ok
  BY DEF Buffer
<1>6. /\ longer \in Buffer /\ longer.out = p.out /\ longer.offset = p.offset
      /\ longer.beyond = p.beyond /\ longer.length = 2 * total
  BY <1>2 DEF Buffer
<1>7. /\ dropped \in Buffer /\ dropped.out = p.out /\ dropped.offset = p.offset
      /\ dropped.beyond = p.beyond /\ ~dropped.ok
  BY DEF Buffer
<1> HIDE DEF failed, longer, dropped
<1>8. CASE q = failed
  BY <1>5, <1>8
<1>9. CASE q = dropped
  BY <1>7, <1>9
<1>10. CASE q = longer
  <2>1. p.offset + needed < longer.length
    BY <1>2, <1>4, <1>6
  <2>2. QED
    BY <1>6, <1>10, <2>1
<1>11. CASE q = p /\ total <= p.length
  <2>1. p.offset + needed < p.length
    BY <1>1, <1>4, <1>11
  <2>2. QED
    BY <1>11, <2>1
<1>12. QED
  BY <1>3, <1>8, <1>9, <1>10, <1>11

\* Whether a buffer may not, or can, grow; kept apart from the truth values for
\* the provers.
Yes == TRUE
No == FALSE

\* It does not fail where there is room, nor while there is memory.
LEMMA EnsureInPlace ==
    ASSUME NEW p \in Buffer, NEW needed \in Nat, NEW noalloc, NEW grows, p.offset + needed < p.length
    PROVE  Ensure(p, needed, noalloc, grows) = p
<1>1. p.offset \in Nat /\ p.length \in Nat
  BY DEF Buffer
<1>2. ~(p.length > 0 /\ p.offset >= p.length) /\ needed + p.offset + 1 <= p.length
  BY <1>1
<1>3. QED
  BY <1>2 DEF Ensure

\* A buffer that may grow makes room for anything.
LEMMA EnsureGrows ==
    ASSUME NEW p \in Buffer, NEW needed \in Nat,
           p.ok, p.length = 0 \/ p.offset < p.length
    PROVE  Ensure(p, needed, No, Yes).ok
<1> DEFINE total == needed + p.offset + 1
           longer == [p EXCEPT !.length = 2 * total]
<1>1. p.offset \in Nat /\ p.length \in Nat
  BY DEF Buffer
<1>2. ~(p.length > 0 /\ p.offset >= p.length)
  BY <1>1
<1>3. Ensure(p, needed, No, Yes) = IF total <= p.length THEN p ELSE longer
  BY <1>2 DEF Ensure, Yes, No
<1>4. longer.ok = p.ok
  BY DEF Buffer
<1>5. QED
  BY <1>3, <1>4

\* What write adds to a buffer, if it succeeds.
AddsPiece(p, piece, q) ==
    /\ p.ok /\ q.offset = p.offset + piece.chars /\ q.offset < q.length
    /\ q.out = IF piece.token = NoToken THEN p.out ELSE Append(p.out, piece.token)

\* A piece that asks for enough is written within the buffer, and leaves room
\* for a zero.
LEMMA WriteFits ==
    ASSUME NEW p \in Buffer, NEW piece \in Fitting, NEW noalloc, NEW grows,
           ~p.beyond, NEW q, q = Write(p, piece, noalloc, grows)
    PROVE  q \in Buffer /\ ~q.beyond /\ (q.ok => AddsPiece(p, piece, q))
<1> DEFINE zero == IF piece.zero THEN 1 ELSE 0
           r == Ensure(p, piece.needed, noalloc, grows)
           end == r.offset + piece.chars + zero
           out == IF piece.token = NoToken THEN r.out ELSE Append(r.out, piece.token)
           failed == [r EXCEPT !.ok = FALSE]
           written == [r EXCEPT !.out = IF piece.token = NoToken THEN @ ELSE Append(@, piece.token),
                                !.offset = @ + piece.chars,
                                !.beyond = @ \/ end > r.length]
<1>0. zero \in 0..1
  OBVIOUS
<1>1. /\ piece.chars \in Nat /\ piece.needed \in Nat
      /\ piece.chars <= piece.needed /\ piece.needed <= piece.chars + 1
  BY DEF Fitting
<1>2. piece.token \in Tok \union {NoToken}
  BY DEF Fitting
<1>3. p.offset \in Nat /\ p.length \in Nat
  BY DEF Buffer
<1>4. q = IF ~p.ok \/ ~r.ok THEN failed ELSE written
  BY DEF Write
<1> HIDE DEF zero
<1>5. /\ r \in Buffer /\ r.out = p.out /\ r.offset = p.offset /\ r.beyond = p.beyond
      /\ p.ok /\ r.ok => p.offset + piece.needed < r.length
  <2>1. r = Ensure(p, piece.needed, noalloc, grows) /\ piece.needed \in Nat
    BY <1>1
  <2> HIDE DEF r
  <2>2. QED
    BY <2>1, EnsureMakesRoom
<1> HIDE DEF r
<1>6. r.length \in Nat /\ r.offset + piece.chars \in Nat
  BY <1>1, <1>3, <1>5 DEF Buffer
<1>7. failed \in Buffer /\ ~failed.ok /\ failed.beyond = r.beyond
  BY <1>5 DEF Buffer
<1>8. /\ written \in Buffer /\ written.ok = r.ok /\ written.length = r.length
      /\ written.offset = r.offset + piece.chars
      /\ written.out = out
      /\ written.beyond = (r.beyond \/ end > r.length)
  <2>1. out \in Seq(Tok)
    <3>1. r.out \in Seq(Tok)
      BY <1>5 DEF Buffer
    <3>2. CASE piece.token = NoToken
      BY <3>1, <3>2
    <3>3. CASE piece.token # NoToken
      <4>1. piece.token \in Tok
        BY <1>2, <3>3
      <4>2. Append(r.out, piece.token) \in Seq(Tok)
        BY <3>1, <4>1
      <4>3. QED
        BY <3>3, <4>2
    <3>4. QED
      BY <3>2, <3>3
  <2>2. written = [r EXCEPT !.out = out, !.offset = r.offset + piece.chars,
                            !.beyond = r.beyond \/ end > r.length]
    BY <1>5 DEF Buffer
  <2> HIDE DEF out, written
  <2> DEFINE beyond == r.beyond \/ end > r.length
  <2>3. beyond \in BOOLEAN
    OBVIOUS
  <2>4. written = [r EXCEPT !.out = out, !.offset = r.offset + piece.chars, !.beyond = beyond]
    BY <2>2
  <2> HIDE DEF beyond
  <2>5. /\ written \in Buffer /\ written.ok = r.ok /\ written.length = r.length
        /\ written.offset = r.offset + piece.chars /\ written.out = out
        /\ written.beyond = beyond
    BY <1>5, <1>6, <2>1, <2>3, <2>4 DEF Buffer
  <2>6. QED
    BY <2>5 DEF beyond
<1>9. out = IF piece.token = NoToken THEN p.out ELSE Append(p.out, piece.token)
  BY <1>5
<1> HIDE DEF failed, written, out
<1>10. CASE p.ok /\ r.ok
  <2>1. p.offset + piece.needed < r.length
    BY <1>5, <1>10
  <2>2. ~(end > r.length) /\ r.offset + piece.chars < r.length
    BY <1>0, <1>1, <1>3, <1>5, <1>6, <2>1
  <2> HIDE DEF end
  <2>3. q = written
    BY <1>4, <1>10
  <2>4. ~q.beyond
    BY <1>5, <1>8, <2>2, <2>3
  <2>5. q.offset = p.offset + piece.chars /\ q.offset < q.length
    BY <1>5, <1>8, <2>2, <2>3
  <2>6. QED
    BY <1>8, <1>9, <1>10, <2>3, <2>4, <2>5 DEF AddsPiece
<1>11. CASE ~(p.ok /\ r.ok)
  <2>1. q = failed
    BY <1>4, <1>11
  <2>2. QED
    BY <1>5, <1>7, <2>1
<1>12. QED
  BY <1>10, <1>11

\* It fails neither where there is room nor while there is memory.
LEMMA WriteInPlace ==
    ASSUME NEW p \in Buffer, NEW piece \in Fitting, NEW noalloc, NEW grows,
           p.ok, p.offset + piece.chars + 1 < p.length,
           NEW q, q = Write(p, piece, noalloc, grows)
    PROVE  q.ok /\ q.length = p.length
<1>1. p.offset \in Nat /\ p.length \in Nat
  BY DEF Buffer
<1>2. piece.chars \in Nat /\ piece.needed \in Nat /\ piece.needed <= piece.chars + 1
  BY DEF Fitting
<1>3. p.offset + piece.needed < p.length
  BY <1>1, <1>2
<1>4. Ensure(p, piece.needed, noalloc, grows) = p
  BY <1>2, <1>3, EnsureInPlace
<1> DEFINE end == p.offset + piece.chars + (IF piece.zero THEN 1 ELSE 0)
           written == [p EXCEPT !.out = IF piece.token = NoToken THEN @ ELSE Append(@, piece.token),
                                !.offset = @ + piece.chars,
                                !.beyond = @ \/ end > p.length]
<1>5. q = written
  BY <1>4 DEF Write
<1> HIDE DEF end
<1>6. written.ok = p.ok /\ written.length = p.length
  BY DEF Buffer
<1>7. QED
  BY <1>5, <1>6

\* A piece can always be written into a buffer that may grow.
LEMMA WriteGrows ==
    ASSUME NEW p \in Buffer, NEW piece \in Fitting,
           p.ok, p.length = 0 \/ p.offset < p.length
    PROVE  Write(p, piece, No, Yes).ok
<1> DEFINE r == Ensure(p, piece.needed, No, Yes)
           end == r.offset + piece.chars + (IF piece.zero THEN 1 ELSE 0)
           written == [r EXCEPT !.out = IF piece.token = NoToken THEN @ ELSE Append(@, piece.token),
                                !.offset = @ + piece.chars,
                                !.beyond = @ \/ end > r.length]
<1>1. piece.needed \in Nat
  BY DEF Fitting
<1>2. r.ok
  BY <1>1, EnsureGrows
<1>3. r \in Buffer
  <2>1. r = Ensure(p, piece.needed, No, Yes)
    OBVIOUS
  <2> HIDE DEF r
  <2>2. QED
    BY <1>1, <2>1, EnsureMakesRoom
<1>4. Write(p, piece, No, Yes) = written
  BY <1>2 DEF Write
<1> HIDE DEF end, r
<1>5. written.ok = r.ok
  BY <1>3 DEF Buffer
<1>6. QED
  BY <1>2, <1>4, <1>5

\* The recursion of PrintValue has a solution, however many pieces there are.
LEMMA PrintFollows ==
    ASSUME NEW size, NEW format, NEW noalloc, NEW grows, Len(Pieces(format)) \in Nat
    PROVE  \E f : /\ f[0] = Empty(size)
                  /\ \A k \in 1..Len(Pieces(format)) :
                         f[k] = Write(f[k - 1], Pieces(format)[k], noalloc, grows)
                  /\ PrintValue(size, format, noalloc, grows) = f[Len(Pieces(format))]
<1> DEFINE ps == Pieces(format)
           N == Len(ps)
           Step(f, k) == IF k = 0 THEN Empty(size) ELSE Write(f[k - 1], ps[k], noalloc, grows)
           Follows(f, n) == f = [k \in 0..n |-> Step(f, k)]
           S == {n \in Nat : \E f : Follows(f, n)}
           after == CHOOSE f : Follows(f, N)
<1>1. 0 \in S
  <2> DEFINE f == [k \in 0..0 |-> Empty(size)]
  <2>1. \A k \in 0..0 : f[k] = Step(f, k)
    OBVIOUS
  <2>2. f = [k \in 0..0 |-> f[k]]
    OBVIOUS
  <2> HIDE DEF f, Step
  <2>3. Follows(f, 0)
    BY <2>1, <2>2
  <2>4. QED
    BY <2>3
<1>2. ASSUME NEW n \in S
      PROVE  n + 1 \in S
  <2>1. n \in Nat /\ n + 1 \in Nat
    OBVIOUS
  <2>2. PICK f : Follows(f, n)
    OBVIOUS
  <2> DEFINE g == [k \in 0..(n + 1) |-> IF k = n + 1 THEN Step(f, n + 1) ELSE f[k]]
  <2>3. \A k \in 0..n : f[k] = Step(f, k)
    <3> HIDE DEF Step
    <3>1. QED
      BY <2>2
  <2>4. ASSUME NEW k \in 0..(n + 1)
        PROVE  g[k] = Step(g, k)
    <3>1. \A j \in 0..n : g[j] = f[j]
      BY <2>1
    <3>2. CASE k = 0
      <4>1. g[k] = f[k] /\ f[k] = Step(f, k)
        BY <2>1, <2>3, <3>1, <3>2
      <4>2. QED
        BY <3>2, <4>1
    <3>3. CASE k # 0
      <4>1. k \in Nat /\ k - 1 \in 0..n /\ (k = n + 1 \/ k \in 0..n)
        BY <2>1, <3>3
      <4>2. Step(g, k) = Step(f, k)
        BY <3>1, <3>3, <4>1
      <4>3. g[k] = Step(f, k)
        <5>1. CASE k = n + 1
          BY <5>1
        <5>2. CASE k # n + 1
          <6>1. k \in 0..n
            BY <4>1, <5>2
          <6>2. g[k] = f[k] /\ f[k] = Step(f, k)
            BY <2>3, <3>1, <6>1
          <6>3. QED
            BY <6>2
        <5>3. QED
          BY <5>1, <5>2
      <4>4. QED
        BY <4>2, <4>3
    <3>4. QED
      BY <3>2, <3>3
  <2>5. g = [k \in 0..(n + 1) |-> g[k]]
    OBVIOUS
  <2> HIDE DEF g, Step
  <2>6. Follows(g, n + 1)
    BY <2>4, <2>5
  <2>7. QED
    BY <2>1, <2>6
<1> HIDE DEF ps, Step
<1>3. N \in S
  <2> HIDE DEF S
  <2>1. \A n \in S \intersect Nat : n + 1 \in S
    BY <1>2
  <2>2. N \in Nat
    BY DEF ps
  <2>3. QED
    BY <1>1, <2>1, <2>2, SetInduction
<1>4. Follows(after, N)
  BY <1>3
<1>5. PrintValue(size, format, noalloc, grows) = after[N]
  BY DEF PrintValue, ps, Step
<1> HIDE DEF after
<1>6. N \in Nat
  BY DEF ps
<1>7. \A k \in 0..N : after[k] = Step(after, k)
  BY <1>4
<1>8. after[0] = Empty(size)
  BY <1>6, <1>7 DEF Step
<1>9. \A k \in 1..N : after[k] = Write(after[k - 1], ps[k], noalloc, grows)
  BY <1>6, <1>7 DEF Step
<1>10. QED
  BY <1>5, <1>8, <1>9 DEF ps

\* The tokens of some pieces are those of a text from a to b; at[k] is how far
\* the first k pieces go.
GoesBy(ps, tx, at) ==
    \A k \in 1..Len(ps) :
        /\ ps[k].token = NoToken => at[k] = at[k - 1]
        /\ ps[k].token # NoToken => at[k] = at[k - 1] + 1 /\ tx[at[k]] = ps[k].token
Spells(ps, tx, a, b) ==
    /\ ps \in Seq(Fitting) /\ a \in Nat /\ b \in Nat
    /\ \E at \in [0..Len(ps) -> a..b] : at[0] = a /\ at[Len(ps)] = b /\ GoesBy(ps, tx, at)

\* No pieces spell no tokens.
LEMMA SpellsNone ==
    ASSUME NEW tx, NEW a \in Nat
    PROVE  Spells(<<>>, tx, a, a)
<1> DEFINE at == [k \in 0..0 |-> a]
<1>1. at \in [0..0 -> a..a] /\ at[0] = a
  OBVIOUS
<1> HIDE DEF at
<1>2. Len(<<>>) = 0 /\ <<>> \in Seq(Fitting) /\ 1..0 = {}
  OBVIOUS
<1>3. GoesBy(<<>>, tx, at)
  BY <1>2 DEF GoesBy
<1>4. QED
  BY <1>1, <1>2, <1>3 DEF Spells

\* White space has no token.
LEMMA SpellsBlank ==
    ASSUME NEW tx, NEW a \in Nat, NEW p \in Fitting, p.token = NoToken
    PROVE  Spells(<<p>>, tx, a, a)
<1> DEFINE at == [k \in 0..1 |-> a]
<1>1. at \in [0..1 -> a..a] /\ at[0] = a /\ at[1] = a
  OBVIOUS
<1> HIDE DEF at
<1>2. Len(<<p>>) = 1 /\ <<p>> \in Seq(Fitting) /\ 1..1 = {1} /\ <<p>>[1] = p /\ 1 - 1 = 0
  OBVIOUS
<1>3. GoesBy(<<p>>, tx, at)
  BY <1>1, <1>2 DEF GoesBy
<1>4. QED
  BY <1>1, <1>2, <1>3 DEF Spells

\* A piece with a token spells that one.
LEMMA SpellsToken ==
    ASSUME NEW tx, NEW a \in Nat, NEW p \in Fitting, p.token # NoToken, tx[a + 1] = p.token
    PROVE  Spells(<<p>>, tx, a, a + 1)
<1> DEFINE at == [k \in 0..1 |-> a + k]
<1>1. at \in [0..1 -> a..(a + 1)] /\ at[0] = a /\ at[1] = a + 1
  OBVIOUS
<1> HIDE DEF at
<1>2. Len(<<p>>) = 1 /\ <<p>> \in Seq(Fitting) /\ 1..1 = {1} /\ <<p>>[1] = p /\ 1 - 1 = 0
  OBVIOUS
<1>3. GoesBy(<<p>>, tx, at)
  BY <1>1, <1>2 DEF GoesBy
<1>4. QED
  BY <1>1, <1>2, <1>3 DEF Spells

\* What two sequences of pieces spell, one behind the other.
LEMMA SpellsJoined ==
    ASSUME NEW tx, NEW a, NEW b, NEW c, NEW ps, NEW qs, Spells(ps, tx, a, b), Spells(qs, tx, b, c)
    PROVE  Spells(ps \o qs, tx, a, c)
<1> DEFINE n == Len(ps)
           m == Len(qs)
           rs == ps \o qs
<1>1. ps \in Seq(Fitting) /\ qs \in Seq(Fitting) /\ a \in Nat /\ b \in Nat /\ c \in Nat
  BY DEF Spells
<1>2. PICK f \in [0..n -> a..b] : f[0] = a /\ f[n] = b /\ GoesBy(ps, tx, f)
  BY DEF Spells
<1>3. PICK g \in [0..m -> b..c] : g[0] = b /\ g[m] = c /\ GoesBy(qs, tx, g)
  BY DEF Spells
<1>4. /\ n \in Nat /\ m \in Nat /\ rs \in Seq(Fitting) /\ Len(rs) = n + m
      /\ \A k \in 1..n : rs[k] = ps[k]
      /\ \A k \in (n + 1)..(n + m) : rs[k] = qs[k - n]
  BY <1>1
<1> DEFINE at == [k \in 0..(n + m) |-> IF k <= n THEN f[k] ELSE g[k - n]]
<1>5. at \in [0..(n + m) -> a..c]
  <2>0. a <= b /\ b <= c
    <3>1. f[0] \in a..b /\ g[0] \in b..c
      BY <1>2, <1>3, <1>4
    <3>2. QED
      BY <1>1, <3>1
  <2>1. ASSUME NEW k \in 0..(n + m) PROVE at[k] \in a..c
    <3> HIDE DEF n, m
    <3>1. CASE k <= n
      <4>1. k \in 0..n
        BY <1>4, <3>1
      <4>2. f[k] \in a..c
        BY <1>1, <1>2, <2>0, <4>1
      <4>3. QED
        BY <3>1, <4>2
    <3>2. CASE ~(k <= n)
      <4>1. k - n \in 0..m
        BY <1>4, <3>2
      <4>2. g[k - n] \in a..c
        BY <1>1, <1>3, <2>0, <4>1
      <4>3. QED
        BY <3>2, <4>2
    <3>3. QED
      BY <3>1, <3>2
  <2>2. QED
    BY <2>1
<1>6. /\ \A k \in 0..n : at[k] = f[k]
      /\ \A k \in n..(n + m) : at[k] = g[k - n]
  <2> HIDE DEF n, m
  <2>1. ASSUME NEW k \in 0..n PROVE at[k] = f[k]
    BY <1>4
  <2>2. ASSUME NEW k \in n..(n + m) PROVE at[k] = g[k - n]
    <3>1. CASE k = n
      <4>1. k - n = 0 /\ k \in 0..(n + m) /\ k <= n
        BY <1>4, <3>1
      <4>2. QED
        BY <1>2, <1>3, <3>1, <4>1
    <3>2. CASE k # n
      BY <1>4, <3>2
    <3>3. QED
      BY <3>1, <3>2
  <2>3. QED
    BY <2>1, <2>2
<1> HIDE DEF at, rs, n, m
<1>7. at[0] = a /\ at[n + m] = c
  <2>1. 0 \in 0..n /\ n + m \in n..(n + m) /\ (n + m) - n = m
    BY <1>4
  <2>2. QED
    BY <1>2, <1>3, <1>6, <2>1
<1>8. GoesBy(rs, tx, at)
  <2> SUFFICES ASSUME NEW k \in 1..(n + m)
               PROVE  /\ rs[k].token = NoToken => at[k] = at[k - 1]
                      /\ rs[k].token # NoToken => at[k] = at[k - 1] + 1 /\ tx[at[k]] = rs[k].token
    BY <1>4 DEF GoesBy
  <2>1. CASE k <= n
    <3>1. k \in 1..n /\ k \in 0..n /\ k - 1 \in 0..n
      BY <1>4, <2>1
    <3>2. rs[k] = ps[k] /\ at[k] = f[k] /\ at[k - 1] = f[k - 1]
      BY <1>4, <1>6, <3>1
    <3>3. QED
      BY <1>2, <3>1, <3>2 DEF GoesBy, n
  <2>2. CASE ~(k <= n)
    <3>1. k \in (n + 1)..(n + m) /\ k \in n..(n + m) /\ k - 1 \in n..(n + m) /\ k - n \in 1..m
          /\ (k - 1) - n = (k - n) - 1
      BY <1>4, <2>2
    <3>2. rs[k] = qs[k - n] /\ at[k] = g[k - n] /\ at[k - 1] = g[(k - n) - 1]
      BY <1>4, <1>6, <3>1
    <3>3. QED
      BY <1>3, <3>1, <3>2 DEF GoesBy, m
  <2>3. QED
    BY <2>1, <2>2
<1>9. QED
  BY <1>1, <1>4, <1>5, <1>7, <1>8 DEF Spells, rs

\* One token more of a text.
LEMMA OneMore ==
    ASSUME NEW S, NEW s \in Seq(S), NEW k \in 0..Len(s), k + 1 \in 1..Len(s)
    PROVE  SubSeq(s, 1, k + 1) = Append(SubSeq(s, 1, k), s[k + 1])
<1>1. /\ SubSeq(s, 1, k) \in Seq(S) /\ Len(SubSeq(s, 1, k)) = k
      /\ \A i \in 1..k : SubSeq(s, 1, k)[i] = s[i]
  OBVIOUS
<1>2. /\ SubSeq(s, 1, k + 1) \in Seq(S) /\ Len(SubSeq(s, 1, k + 1)) = k + 1
      /\ \A i \in 1..(k + 1) : SubSeq(s, 1, k + 1)[i] = s[i]
  OBVIOUS
<1>3. s[k + 1] \in S
  OBVIOUS
<1> DEFINE t == SubSeq(s, 1, k)
           u == SubSeq(s, 1, k + 1)
<1> HIDE DEF t, u
<1>4. /\ Append(t, s[k + 1]) \in Seq(S) /\ Len(Append(t, s[k + 1])) = k + 1
      /\ \A i \in 1..k : Append(t, s[k + 1])[i] = t[i]
      /\ Append(t, s[k + 1])[k + 1] = s[k + 1]
  BY <1>1, <1>3 DEF t
<1>5. \A i \in 1..(k + 1) : i \in 1..k \/ i = k + 1
  OBVIOUS
<1>6. \A i \in 1..(k + 1) : u[i] = Append(t, s[k + 1])[i]
  BY <1>1, <1>2, <1>4, <1>5 DEF t, u
<1>7. u = Append(t, s[k + 1])
  BY <1>2, <1>4, <1>6, SameSeq DEF u
<1>8. QED
  BY <1>7 DEF t, u

\* What is printed from pieces that spell a text is the text, unless the buffer
\* gives out, and it stays within the buffer.
LEMMA PrintedRight ==
    ASSUME NEW size \in Nat, NEW format, NEW noalloc, NEW grows,
           text \in Seq(Tok), Spells(Pieces(format), text, 0, Len(text)), Pieces(format) # <<>>,
           NEW p, p = PrintValue(size, format, noalloc, grows)
    PROVE  /\ p \in Buffer /\ ~p.beyond
           /\ p.ok => p.offset < p.length /\ p.out = text
<1> DEFINE ps == Pieces(format)
           n == Len(ps)
<1>1. ps \in Seq(Fitting) /\ n \in Nat /\ n # 0
  BY DEF Spells
<1>2. PICK at \in [0..n -> 0..Len(text)] : at[0] = 0 /\ at[n] = Len(text) /\ GoesBy(ps, text, at)
  BY DEF Spells
<1>3. PICK f : /\ f[0] = Empty(size)
               /\ \A k \in 1..n : f[k] = Write(f[k - 1], ps[k], noalloc, grows)
               /\ p = f[n]
  <2>1. Len(Pieces(format)) \in Nat
    BY <1>1
  <2>2. \E f : /\ f[0] = Empty(size)
               /\ \A k \in 1..Len(Pieces(format)) :
                      f[k] = Write(f[k - 1], Pieces(format)[k], noalloc, grows)
               /\ PrintValue(size, format, noalloc, grows) = f[Len(Pieces(format))]
    BY <2>1, PrintFollows
  <2>3. QED
    BY <2>2
<1> HIDE DEF ps, n
<1> DEFINE Fine(k) == /\ f[k] \in Buffer /\ ~f[k].beyond
                      /\ f[k].ok => /\ f[k].out = SubSeq(text, 1, at[k])
                                    /\ k # 0 => f[k].offset < f[k].length
           S == {k \in Nat : k <= n => Fine(k)}
<1>4. 0 \in S
  <2>1. /\ Empty(size) \in Buffer /\ ~Empty(size).beyond /\ Empty(size).out = <<>>
    BY DEF Empty, Buffer
  <2>2. SubSeq(text, 1, 0) = <<>>
    OBVIOUS
  <2>3. Fine(0)
    BY <1>2, <1>3, <2>1, <2>2
  <2>4. QED
    BY <2>3
<1>5. ASSUME NEW k \in S
      PROVE  k + 1 \in S
  <2> SUFFICES ASSUME k + 1 <= n
               PROVE  Fine(k + 1)
    OBVIOUS
  <2>1. k \in Nat /\ k <= n /\ k + 1 \in 1..n /\ (k + 1) - 1 = k /\ k \in 0..n /\ k + 1 \in 0..n
    BY <1>1
  <2>2. Fine(k)
    BY <2>1
  <2>3. ps[k + 1] \in Fitting
    BY <1>1, <2>1 DEF n
  <2>4. f[k + 1] = Write(f[k], ps[k + 1], noalloc, grows)
    BY <1>3, <2>1
  <2>45. f[k] \in Buffer /\ ~f[k].beyond
    BY <2>2
  <2>5. f[k + 1] \in Buffer /\ ~f[k + 1].beyond /\ (f[k + 1].ok => AddsPiece(f[k], ps[k + 1], f[k + 1]))
    BY <2>45, <2>3, <2>4, WriteFits
  <2>6. /\ ps[k + 1].token = NoToken => at[k + 1] = at[k]
        /\ ps[k + 1].token # NoToken => at[k + 1] = at[k] + 1 /\ text[at[k + 1]] = ps[k + 1].token
    BY <1>2, <2>1 DEF GoesBy, n
  <2>7. ASSUME f[k + 1].ok
        PROVE  f[k + 1].out = SubSeq(text, 1, at[k + 1])
    <3>1. f[k].out = SubSeq(text, 1, at[k]) /\ at[k] \in 0..Len(text)
      BY <1>2, <2>1, <2>2, <2>5, <2>7 DEF AddsPiece
    <3>2. CASE ps[k + 1].token = NoToken
      BY <2>5, <2>6, <2>7, <3>1, <3>2 DEF AddsPiece
    <3>3. CASE ps[k + 1].token # NoToken
      <4>1. at[k + 1] = at[k] + 1 /\ text[at[k] + 1] = ps[k + 1].token
        BY <2>6, <3>3
      <4>2. at[k] + 1 \in 1..Len(text)
        <5>1. at[k + 1] \in 0..Len(text)
          BY <1>2, <2>1
        <5>2. QED
          BY <3>1, <4>1, <5>1
      <4>3. SubSeq(text, 1, at[k] + 1) = Append(SubSeq(text, 1, at[k]), text[at[k] + 1])
        BY <3>1, <4>2, OneMore
      <4>4. QED
        BY <2>5, <2>7, <3>1, <3>3, <4>1, <4>2, <4>3 DEF AddsPiece
    <3>4. QED
      BY <3>2, <3>3
  <2>8. QED
    BY <2>1, <2>5, <2>7 DEF AddsPiece
<1>6. Fine(n)
  <2> HIDE DEF Fine
  <2>1. \A k \in S \intersect Nat : k + 1 \in S
    BY <1>5
  <2> HIDE DEF S
  <2>2. n \in S
    BY <1>1, <1>4, <2>1, SetInduction
  <2>3. QED
    BY <1>1, <2>2 DEF S
<1>7. SubSeq(text, 1, Len(text)) = text
  OBVIOUS
<1>8. QED
  BY <1>1, <1>2, <1>3, <1>6, <1>7

\* cJSON_PrintPreallocated has room for every piece if one byte more is free
\* than the text and its zero take.
LEMMA RoomSuffices ==
    ASSUME NEW format, Pieces(format) \in Seq(Fitting),
           NEW size \in Nat, NEW p, p = PrintValue(size, format, Yes, No),
           NEW w, w = PrintValue(0, format, No, Yes), size > w.offset + 1
    PROVE  p.ok
<1>01. Len(Pieces(format)) \in Nat
  OBVIOUS
<1>2. PICK f : /\ f[0] = Empty(size)
               /\ \A k \in 1..Len(Pieces(format)) : f[k] = Write(f[k - 1], Pieces(format)[k], Yes, No)
               /\ PrintValue(size, format, Yes, No) = f[Len(Pieces(format))]
  BY <1>01, PrintFollows
<1>3. PICK g : /\ g[0] = Empty(0)
               /\ \A k \in 1..Len(Pieces(format)) : g[k] = Write(g[k - 1], Pieces(format)[k], No, Yes)
               /\ PrintValue(0, format, No, Yes) = g[Len(Pieces(format))]
  BY <1>01, PrintFollows
<1> DEFINE ps == Pieces(format)
           n == Len(ps)
<1>1. ps \in Seq(Fitting) /\ n \in Nat
  OBVIOUS
<1>22. f[0] = Empty(size) /\ p = f[n] /\ \A k \in 1..n : f[k] = Write(f[k - 1], ps[k], Yes, No)
  BY <1>2
<1>33. g[0] = Empty(0) /\ w = g[n] /\ \A k \in 1..n : g[k] = Write(g[k - 1], ps[k], No, Yes)
  BY <1>3
<1>4. \A k \in 1..n : ps[k] \in Fitting /\ ps[k].chars \in Nat
  BY <1>1 DEF Fitting
<1>5. \A s \in Nat : /\ Empty(s) \in Buffer /\ ~Empty(s).beyond /\ Empty(s).ok
                     /\ Empty(s).length = s /\ Empty(s).offset = 0
  BY DEF Empty, Buffer
<1> HIDE DEF ps, n
<1>0. \A a \in Nat : a <= a /\ a - 0 = a
  OBVIOUS
<1>6. \A k \in Nat : k + 1 <= n => k + 1 \in 1..n /\ (k + 1) - 1 = k /\ k <= n
  BY <1>1
\* The other run has all the memory it asks for.
<1> DEFINE Grown(k) == /\ g[k] \in Buffer /\ ~g[k].beyond /\ g[k].ok
                       /\ g[k].length = 0 \/ g[k].offset < g[k].length
           S == {k \in Nat : k <= n => Grown(k)}
<1>7. ASSUME NEW k \in Nat, k + 1 <= n, Grown(k)
      PROVE  Grown(k + 1) /\ g[k + 1].offset = g[k].offset + ps[k + 1].chars
  <2>1. g[k + 1] = Write(g[k], ps[k + 1], No, Yes) /\ ps[k + 1] \in Fitting
    BY <1>33, <1>4, <1>6, <1>7
  <2>2. g[k + 1].ok
    BY <1>7, <2>1, WriteGrows
  <2>3. g[k + 1] \in Buffer /\ ~g[k + 1].beyond /\ AddsPiece(g[k], ps[k + 1], g[k + 1])
    BY <1>7, <2>1, <2>2, WriteFits
  <2>4. QED
    BY <2>2, <2>3 DEF AddsPiece
<1>8. \A k \in Nat : k <= n => Grown(k)
  <2>1. 0 \in S
    BY <1>33, <1>5
  <2>2. \A k \in S \intersect Nat : k + 1 \in S
    <3> HIDE DEF Grown
    <3>1. QED
      BY <1>6, <1>7
  <2> HIDE DEF S, Grown
  <2>3. Nat \subseteq S
    BY <2>1, <2>2, SetInduction
  <2>4. QED
    BY <2>3 DEF S
<1>9. \A k \in Nat : k <= n => g[k].offset \in Nat
  BY <1>8 DEF Buffer
<1>10. \A k \in Nat : k + 1 <= n => g[k + 1].offset = g[k].offset + ps[k + 1].chars
  <2> HIDE DEF Grown
  <2>1. QED
    BY <1>6, <1>7, <1>8
<1> HIDE DEF Grown, S
<1>11. \A k \in Nat : k <= n => g[k].offset <= w.offset
  <2> DEFINE T == {j \in Nat : j <= n => g[n - j].offset <= w.offset}
  <2>1. 0 \in T
    <3>1. n - 0 = n /\ n <= n
      BY <1>1
    <3>2. w.offset \in Nat
      BY <1>1, <1>33, <1>9, <3>1
    <3>3. g[n - 0].offset <= w.offset
      BY <1>0, <1>33, <3>1, <3>2
    <3>4. QED
      BY <3>3
  <2>2. ASSUME NEW j \in T \intersect Nat
        PROVE  j + 1 \in T
    <3>0. j \in Nat /\ j + 1 \in Nat
      OBVIOUS
    <3> SUFFICES ASSUME j + 1 <= n
                 PROVE  g[n - (j + 1)].offset <= w.offset
      BY <3>0
    <3> DEFINE k == n - (j + 1)
    <3>1. k \in Nat /\ k + 1 <= n /\ k + 1 = n - j /\ k <= n /\ k + 1 \in Nat /\ j <= n
      BY <1>1, <3>0
    <3>2. g[k + 1].offset <= w.offset
      BY <2>2, <3>1
    <3> HIDE DEF k, T
    <3>3. g[k + 1].offset = g[k].offset + ps[k + 1].chars
      BY <1>10, <3>1
    <3>4. ps[k + 1].chars \in Nat /\ g[k].offset \in Nat
      BY <1>4, <1>6, <1>9, <3>1
    <3>5. w.offset \in Nat
      <4>1. n <= n
        BY <1>1
      <4>2. QED
        BY <1>1, <1>33, <1>9, <4>1
    <3>6. g[k].offset <= w.offset
      <4> DEFINE a == g[k].offset
                 b == ps[k + 1].chars
                 c == w.offset
      <4>1. a \in Nat /\ b \in Nat /\ c \in Nat /\ a + b <= c
        BY <3>2, <3>3, <3>4, <3>5
      <4> HIDE DEF a, b, c
      <4>2. a <= c
        BY <4>1
      <4>3. QED
        BY <4>2 DEF a, c
    <3>7. QED
      BY <3>6 DEF k
  <2>3. \A j \in T \intersect Nat : j + 1 \in T
    BY <2>2
  <2>4. Nat \subseteq T
    <3> HIDE DEF T
    <3>1. QED
      BY <2>1, <2>3, SetInduction
  <2>5. ASSUME NEW k \in Nat, k <= n
        PROVE  g[k].offset <= w.offset
    <3>1. n - k \in Nat /\ n - k <= n /\ n - (n - k) = k
      BY <1>1, <2>5
    <3>2. n - k \in T
      BY <2>4, <3>1
    <3>3. QED
      BY <3>1, <3>2
  <2>6. QED
    BY <2>5
\* So this one is never asked for more than it has.
<1> DEFINE Same(k) == /\ f[k] \in Buffer /\ ~f[k].beyond /\ f[k].ok
                      /\ f[k].length = size /\ f[k].offset = g[k].offset
           R == {k \in Nat : k <= n => Same(k)}
<1>12. w.offset \in Nat
  <2>1. n <= n
    BY <1>1
  <2>2. QED
    BY <1>1, <1>33, <1>9, <2>1
<1>13. ASSUME NEW k \in Nat, k + 1 <= n, Same(k)
       PROVE  Same(k + 1)
  <2>1. f[k + 1] = Write(f[k], ps[k + 1], Yes, No) /\ ps[k + 1] \in Fitting /\ ps[k + 1].chars \in Nat
    BY <1>22, <1>4, <1>6, <1>13
  <2>2. /\ g[k + 1].offset = g[k].offset + ps[k + 1].chars /\ g[k + 1].offset <= w.offset
        /\ g[k].offset \in Nat
    <3>1. k + 1 \in Nat /\ k + 1 <= n /\ k <= n
      BY <1>6, <1>13
    <3> HIDE DEF Same, R
    <3>2. g[k + 1].offset = g[k].offset + ps[k + 1].chars
      BY <1>10, <3>1
    <3>3. g[k + 1].offset <= w.offset
      BY <1>11, <3>1
    <3>4. QED
      BY <1>9, <3>1, <3>2, <3>3
  <2>3. f[k].offset + ps[k + 1].chars + 1 < f[k].length /\ f[k].offset < f[k].length
    <3>1. g[k].offset + ps[k + 1].chars <= w.offset /\ size > w.offset + 1
      BY <2>2
    <3>2. g[k].offset + ps[k + 1].chars + 1 < size /\ g[k].offset < size
      <4> DEFINE a == g[k].offset
                 b == ps[k + 1].chars
                 c == w.offset
      <4>1. a \in Nat /\ b \in Nat /\ c \in Nat /\ a + b <= c /\ size > c + 1
        BY <1>12, <2>1, <2>2, <3>1
      <4> HIDE DEF a, b, c
      <4>2. a + b + 1 < size /\ a < size
        BY <4>1
      <4>3. QED
        BY <4>2 DEF a, b
    <3>3. QED
      BY <1>13, <3>2
  <2>4. f[k + 1].ok /\ f[k + 1].length = f[k].length
    <3>1. f[k] \in Buffer /\ f[k].ok
      BY <1>13
    <3> HIDE DEF Same, R
    <3>2. QED
      BY <2>1, <2>3, <3>1, WriteInPlace
  <2>5. f[k + 1] \in Buffer /\ ~f[k + 1].beyond /\ AddsPiece(f[k], ps[k + 1], f[k + 1])
    BY <1>13, <2>1, <2>4, WriteFits
  <2>6. QED
    BY <1>13, <2>2, <2>4, <2>5 DEF AddsPiece
<1>14. Same(n)
  <2>1. 0 \in R
    BY <1>22, <1>33, <1>5
  <2>2. \A k \in R \intersect Nat : k + 1 \in R
    <3> HIDE DEF Same
    <3>1. QED
      BY <1>6, <1>13
  <2> HIDE DEF R, Same
  <2>3. Nat \subseteq R
    BY <2>1, <2>2, SetInduction
  <2>4. n <= n
    BY <1>1
  <2>5. QED
    BY <1>1, <2>3, <2>4 DEF R
<1>15. QED
  BY <1>22, <1>14

-----------------------------------------------------------------------------
(* Where the nodes are in the text *)

\* A node begins behind the first from[m] tokens and ends with the to[m]-th; the
\* list that it belongs to ends with the until[m]-th, or is still open if that
\* is 0.

Opener(k) == IF k = "Array" THEN "[" ELSE "{"
ValueAt(h, from, m) == IF h[m].string THEN from[m] + 2 ELSE from[m]
Labelled(h, tx, from, m) == h[m].string => tx[from[m] + 1] = "s" /\ tx[from[m] + 2] = ":"

\* Nothing is left to read of the node m: it is neither y, the youngest node when
\* its value is still to come, nor the item of an open list.
Done(fr, y, m) == m # y /\ \A i \in 1..Len(fr) : fr[i].item # m

\* The tokens that a node says are those that it stands for.
IsList(node) == node.type \in {"Array", "Object"}
Scalars(h, tx, v, to, m) ==
    /\ h[m].type = "Value" => tx[v + 1] = "v" /\ to[m] = v + 1
    /\ h[m].type = "String" => tx[v + 1] = "s" /\ to[m] = v + 1
Brackets(h, tx, v, from, to, until, m) ==
    IsList(h[m]) =>
        /\ tx[v + 1] = Opener(h[m].type) /\ tx[to[m]] = Close[h[m].type] /\ v + 2 <= to[m]
        /\ h[m].child = NULL => to[m] = v + 2
        /\ h[m].child # NULL => from[h[m].child] = v + 1 /\ until[h[m].child] = to[m] - 1
Written(h, tx, from, to, until, m) ==
    LET v == ValueAt(h, from, m)
    IN  /\ Labelled(h, tx, from, m)
        /\ v < to[m]
        /\ h[m].type \in {"Value", "String", "Array", "Object"}
        /\ Scalars(h, tx, v, to, m)
        /\ Brackets(h, tx, v, from, to, until, m)

\* What follows a node follows it in the text, behind a comma.
Linked(h, tx, from, to, until, m) ==
    h[m].next # NULL => /\ tx[to[m] + 1] = "," /\ from[h[m].next] = to[m] + 1
                        /\ until[h[m].next] = until[m]

\* What nothing follows ends its list, or is the last of an open one.
Ended(h, fr, y, to, until, m) ==
    h[m].next = NULL =>
        /\ until[m] = 0 => \E i \in 0..Len(fr) : FirstIn(fr, i) # NULL /\ m = LastIn(fr, i)
        /\ until[m] # 0 => until[m] = to[m] /\ Done(fr, y, m)

\* An open list has its bracket, and its first item is behind it.
Begun(h, fr, tx, p, from, i) ==
    LET v == ValueAt(h, from, fr[i].item)
    IN  /\ Labelled(h, tx, from, fr[i].item)
        /\ v + 1 <= p /\ tx[v + 1] = Opener(fr[i].kind)
        /\ fr[i].head # NULL => from[fr[i].head] = v + 1
StillOpen(fr, until, i) ==
    FirstIn(fr, i) # NULL => until[FirstIn(fr, i)] = 0 /\ until[LastIn(fr, i)] = 0

Placed(h, tx, p, from, to, until) ==
    /\ tx \in Seq(Tok) /\ p \in Nat /\ p <= Len(tx) /\ Len(tx) <= p + 1
    /\ from \in [1..Len(h) -> 0..p] /\ to \in [1..Len(h) -> 0..p] /\ until \in [1..Len(h) -> 0..p]
    /\ from[Root] = 0

\* The nodes of a tree stand for the text that has been read.
Spelled(h, fr, y, tx, p, from, to, until) ==
    /\ Placed(h, tx, p, from, to, until)
    /\ \A m \in 1..Len(h) : /\ Done(fr, y, m) => Written(h, tx, from, to, until, m)
                            /\ Linked(h, tx, from, to, until, m)
                            /\ Ended(h, fr, y, to, until, m)
    /\ \A i \in 1..Len(fr) : Begun(h, fr, tx, p, from, i)
    /\ \A i \in 0..Len(fr) : StillOpen(fr, until, i)

\* How much of it that is, by where the parser is.
Behind(h, fr, tx, p, from, to) ==
    LET top == fr[Len(fr)]
    IN  IF top.head = NULL THEN p = ValueAt(h, from, top.item) + 1
        ELSE p = to[top.last] + 1 /\ tx[p] = ","
Stands(h, fr, tx, p, c, from, to) ==
    /\ c = "value" => p = ValueAt(h, from, Len(h)) /\ Labelled(h, tx, from, Len(h))
    /\ c = "name" => p = from[Len(h)]
    /\ c = "colon" => p = from[Len(h)] + 1 /\ tx[p] = "s" /\ h[Len(h)].string
    /\ c \in {"first", "element"} => Behind(h, fr, tx, p, from, to)
    /\ c = "after" => p = to[fr[Len(fr)].last]
    /\ c = "accepted" => p = to[Root] /\ Len(tx) = p

Young(c, h) == IF c \in {"value", "name", "colon"} THEN Len(h) ELSE NULL
SpellInv ==
    /\ pc = "start" => text = <<>> /\ pos = 0
    /\ pc \in Reading =>
           \E from, to, until :
               /\ Spelled(heap, frames, Young(pc, heap), text, pos, from, to, until)
               /\ Stands(heap, frames, text, pos, pc, from, to)

-----------------------------------------------------------------------------
(* The next token *)

\* One token more is known, and those before it are as they were.
OneToken(tx, ty, p, t) ==
    /\ ty \in Seq(Tok) /\ Len(ty) = p + 1 /\ ty[p + 1] = t
    /\ \A i \in 1..p : ty[i] = tx[i]

\* Looking at a token leaves one more known, or as many, and those before it as they were.
LEMMA Peeked ==
    ASSUME text \in Seq(Tok), pos \in Nat, pos <= Len(text), Len(text) <= pos + 1, NEW t, Peek(t)
    PROVE  OneToken(text, text', pos, t)
<1>1. CASE pos < Len(text)
  <2>1. t = text[pos + 1] /\ text' = text
    BY <1>1 DEF Peek
  <2>2. Len(text) = pos + 1
    BY <1>1
  <2>3. QED
    BY <2>1, <2>2 DEF OneToken
<1>2. CASE ~(pos < Len(text))
  <2>1. t \in (IF Len(text) < MaxText THEN Tok ELSE {"?"}) /\ text' = Append(text, t)
    BY <1>2 DEF Peek
  <2>2. t \in Tok
    BY <2>1 DEF Tok
  <2>3. Len(text) = pos
    BY <1>2
  <2>4. QED
    BY <2>1, <2>2, <2>3 DEF OneToken
<1>3. QED
  BY <1>1, <1>2

\* What has been read keeps its place while the text is read on.
LEMMA ReadFurther ==
    ASSUME NEW h, NEW fr, NEW y, NEW tx, NEW p, NEW from, NEW to, NEW until,
           Spelled(h, fr, y, tx, p, from, to, until),
           \A m \in 1..Len(h) : h[m].child \in {NULL} \union 1..Len(h) /\ h[m].next \in {NULL} \union 1..Len(h),
           \A i \in 1..Len(fr) : fr[i].item \in 1..Len(h),
           Len(h) \in Nat,
           NEW ty \in Seq(Tok), NEW q \in Nat, p <= q, q <= Len(ty), Len(ty) <= q + 1,
           \A i \in 1..p : ty[i] = tx[i]
    PROVE  Spelled(h, fr, y, ty, q, from, to, until)
<1>1. /\ p \in Nat /\ from \in [1..Len(h) -> 0..p] /\ to \in [1..Len(h) -> 0..p]
      /\ until \in [1..Len(h) -> 0..p] /\ from[Root] = 0
  BY DEF Spelled, Placed
<1>2. Placed(h, ty, q, from, to, until)
  BY <1>1 DEF Placed
<1>3. ASSUME NEW m \in 1..Len(h), ValueAt(h, from, m) <= p, Labelled(h, tx, from, m)
      PROVE  Labelled(h, ty, from, m)
  <2> SUFFICES ASSUME h[m].string
               PROVE  ty[from[m] + 1] = "s" /\ ty[from[m] + 2] = ":"
    BY DEF Labelled
  <2>1. from[m] \in Nat /\ from[m] + 2 <= p
    BY <1>1, <1>3 DEF ValueAt
  <2> DEFINE a == from[m]
  <2>2. a \in Nat /\ a + 2 <= p
    BY <2>1
  <2> HIDE DEF a
  <2>3. a + 1 \in 1..p /\ a + 2 \in 1..p
    BY <1>1, <2>2
  <2>4. ty[a + 1] = tx[a + 1] /\ ty[a + 2] = tx[a + 2]
    BY <2>3
  <2>5. QED
    BY <1>3, <2>4 DEF Labelled, a
<1>4. ASSUME NEW m \in 1..Len(h), Done(fr, y, m)
      PROVE  Written(h, ty, from, to, until, m)
  <2> DEFINE v == ValueAt(h, from, m)
  <2>1. Written(h, tx, from, to, until, m)
    BY <1>4 DEF Spelled
  <2>2. v \in Nat /\ v < to[m] /\ to[m] \in 0..p
    <3>1. from[m] \in Nat /\ to[m] \in 0..p
      BY <1>1
    <3>2. v \in Nat
      BY <3>1 DEF ValueAt
    <3>3. v < to[m]
      BY <2>1 DEF Written
    <3>4. QED
      BY <3>1, <3>2, <3>3
  <2> HIDE DEF v
  <2>3. ty[v + 1] = tx[v + 1] /\ ty[to[m]] = tx[to[m]]
    BY <1>1, <2>2
  <2>4. Scalars(h, ty, v, to, m)
    BY <2>1, <2>3 DEF Written, Scalars, v
  <2>5. Brackets(h, ty, v, from, to, until, m)
    BY <2>1, <2>3 DEF Written, Brackets, v
  <2>6. Labelled(h, ty, from, m)
    BY <1>1, <1>3, <2>1, <2>2 DEF Written, v
  <2>7. QED
    BY <2>1, <2>2, <2>4, <2>5, <2>6 DEF Written, v
<1>5. ASSUME NEW m \in 1..Len(h)
      PROVE  Linked(h, ty, from, to, until, m)
  <2> SUFFICES ASSUME h[m].next # NULL
               PROVE  Linked(h, ty, from, to, until, m)
    BY DEF Linked
  <2>1. h[m].next \in 1..Len(h)
    OBVIOUS
  <2>2. Linked(h, tx, from, to, until, m)
    BY DEF Spelled
  <2>20. to[m] \in 0..p /\ from[h[m].next] \in 0..p /\ from[h[m].next] = to[m] + 1
    BY <1>1, <2>1, <2>2 DEF Linked
  <2>3. to[m] \in Nat /\ to[m] + 1 \in 1..p
    BY <1>1, <2>20
  <2>4. QED
    BY <2>2, <2>3 DEF Linked
<1>6. ASSUME NEW i \in 1..Len(fr)
      PROVE  Begun(h, fr, ty, q, from, i)
  <2> DEFINE m == fr[i].item
             v == ValueAt(h, from, m)
  <2>1. Begun(h, fr, tx, p, from, i)
    BY DEF Spelled
  <2>2. m \in 1..Len(h)
    OBVIOUS
  <2>3. v \in Nat /\ v + 1 <= p
    <3>1. from[m] \in Nat
      BY <1>1, <2>2
    <3>2. v \in Nat
      BY <3>1 DEF ValueAt
    <3>3. QED
      BY <2>1, <3>2 DEF Begun
  <2>4. Labelled(h, ty, from, m)
    BY <1>1, <1>3, <2>1, <2>2, <2>3 DEF Begun
  <2>5. ty[v + 1] = tx[v + 1] /\ v + 1 <= q
    BY <1>1, <2>3
  <2>6. QED
    BY <2>1, <2>4, <2>5 DEF Begun
<1>7. QED
  BY <1>2, <1>4, <1>5, <1>6 DEF Spelled

\* Links lead to younger nodes, and the lists that are open begin and end at nodes.
Inside(h, fr) ==
    /\ Len(h) \in Nat /\ Len(fr) \in Nat
    /\ \A m \in 1..Len(h) : /\ h[m].child \in {NULL} \union 1..Len(h)
                            /\ h[m].next \in {NULL} \union 1..Len(h)
    /\ \A i \in 1..Len(fr) : fr[i].item \in 1..Len(h)
    /\ \A i \in 0..Len(fr) : FirstIn(fr, i) # NULL =>
           FirstIn(fr, i) \in 1..Len(h) /\ LastIn(fr, i) \in 1..Len(h)

\* The links of a tree and the items of its lists are its nodes.
LEMMA TreeInside ==
    ASSUME NEW h, NEW e, NEW fr, Tree(h, e, fr, Len(h))
    PROVE  Inside(h, fr)
<1>1. TextOrder(h, e) /\ Nested(h, e, fr, Len(h)) /\ Len(h) \in 1..Len(h)
  BY DEF Tree
<1>2. h \in Seq(Node) /\ Len(h) \in Nat
  BY <1>1 DEF TextOrder
<1>3. ASSUME NEW m \in 1..Len(h)
      PROVE  h[m].child \in {NULL} \union 1..Len(h) /\ h[m].next \in {NULL} \union 1..Len(h)
  <2>1. Upward(h)
    BY <1>1, OrderIsUpward
  <2>2. /\ h[m].child = NULL \/ h[m].child \in (m + 1)..Len(h)
        /\ h[m].next = NULL \/ h[m].next \in (m + 1)..Len(h)
    BY <2>1 DEF Upward, NULL
  <2>3. (m + 1)..Len(h) \subseteq 1..Len(h)
    BY <1>2
  <2>4. QED
    BY <2>2, <2>3
<1>4. /\ fr \in Seq(Frame) /\ Len(fr) \in Nat
      /\ \A i \in 0..Len(fr) : FirstIn(fr, i) # NULL =>
             FirstIn(fr, i) \in 1..Len(h) /\ LastIn(fr, i) \in FirstIn(fr, i)..Len(h)
      /\ \A i \in 1..Len(fr) : fr[i].item \in 1..Len(h)
  BY <1>1, <1>2, ListBounds
<1>5. ASSUME NEW i \in 0..Len(fr), FirstIn(fr, i) # NULL
      PROVE  FirstIn(fr, i) \in 1..Len(h) /\ LastIn(fr, i) \in 1..Len(h)
  BY <1>2, <1>4, <1>5
<1>6. QED
  BY <1>2, <1>3, <1>4, <1>5 DEF Inside

\* One token further.
LEMMA ReadToken ==
    ASSUME NEW h, NEW fr, Inside(h, fr), NEW y, NEW tx, NEW p, NEW from, NEW to, NEW until,
           Spelled(h, fr, y, tx, p, from, to, until), NEW ty, NEW t, OneToken(tx, ty, p, t)
    PROVE  /\ Spelled(h, fr, y, ty, p, from, to, until)
           /\ Spelled(h, fr, y, ty, p + 1, from, to, until)
<1>1. p \in Nat
  BY DEF Spelled, Placed
<1>2. /\ ty \in Seq(Tok) /\ Len(ty) = p + 1 /\ \A i \in 1..p : ty[i] = tx[i]
      /\ p + 1 \in Nat /\ p <= p /\ p <= p + 1 /\ p + 1 <= p + 1 /\ p + 1 <= (p + 1) + 1
  BY <1>1 DEF OneToken
<1>3. /\ \A m \in 1..Len(h) : h[m].child \in {NULL} \union 1..Len(h) /\ h[m].next \in {NULL} \union 1..Len(h)
      /\ \A i \in 1..Len(fr) : fr[i].item \in 1..Len(h)
      /\ Len(h) \in Nat
  BY DEF Inside
<1>4. QED
  BY <1>1, <1>2, <1>3, ReadFurther

\* While the youngest node is the last of the innermost list, nothing follows it,
\* and it is not the item of a list.
LEMMA YoungestIs ==
    ASSUME NEW h, NEW e, NEW fr, Tree(h, e, fr, Len(h)),
           LastIn(fr, Len(fr)) = Len(h), FirstIn(fr, Len(fr)) # NULL
    PROVE  /\ Len(h) \in 1..Len(h) /\ Len(h) # NULL /\ h[Len(h)].next = NULL /\ h[Len(h)].child = NULL
           /\ \A i \in 1..Len(fr) : fr[i].item # Len(h)
           /\ \A i \in 0..Len(fr) : i # Len(fr) => LastIn(fr, i) # Len(h)
<1>1. TextOrder(h, e) /\ Nested(h, e, fr, Len(h)) /\ Len(h) \in 1..Len(h)
  BY DEF Tree
<1>2. h \in Seq(Node) /\ Len(h) \in Nat
  BY <1>1 DEF TextOrder
<1>3. /\ Len(fr) \in Nat /\ FirstIn(fr, Len(fr)) \in 1..Len(h)
  <2>1. /\ Len(fr) \in Nat
        /\ \A i \in 0..Len(fr) : FirstIn(fr, i) # NULL => FirstIn(fr, i) \in 1..Len(h)
    BY <1>1, <1>2, ListBounds
  <2>2. Len(fr) \in 0..Len(fr)
    BY <2>1
  <2>3. QED
    BY <2>1, <2>2
<1>4. h[Len(h)].next = NULL
  <2>1. Growing(h, e, FirstIn(fr, Len(fr)), LastIn(fr, Len(fr)), Len(h))
    <3>1. Len(fr) \in 0..Len(fr)
      BY <1>3
    <3>2. QED
      BY <1>1, <3>1 DEF Nested
  <2>2. QED
    BY <2>1 DEF Growing
<1>5. h[Len(h)].child = NULL
  <2>1. Upward(h)
    BY <1>1, OrderIsUpward
  <2>2. h[Len(h)].child = NULL \/ h[Len(h)].child \in (Len(h) + 1)..Len(h)
    BY <1>1, <2>1 DEF Upward
  <2>3. (Len(h) + 1)..Len(h) = {}
    BY <1>2
  <2>4. QED
    BY <2>2, <2>3
<1>6. /\ \A i \in 0..Len(fr) : i # Len(fr) => LastIn(fr, i) < FirstIn(fr, Len(fr))
      /\ \A i \in 1..Len(fr) : fr[i].item < FirstIn(fr, Len(fr))
  BY <1>1, ListApart
<1>7. ~(Len(h) < FirstIn(fr, Len(fr))) /\ Len(h) # NULL
  BY <1>1, <1>2, <1>3 DEF NULL
<1>8. QED
  BY <1>1, <1>4, <1>5, <1>6, <1>7

\* A literal, a number or a string: the youngest node stands for it and is done.
LEMMA ValueSpelled ==
    ASSUME NEW h, NEW e, NEW fr, Tree(h, e, fr, Len(h)),
           LastIn(fr, Len(fr)) = Len(h), FirstIn(fr, Len(fr)) # NULL,
           NEW tx, NEW p, NEW from, NEW to, NEW until,
           Spelled(h, fr, Len(h), tx, p, from, to, until),
           p = ValueAt(h, from, Len(h)), Labelled(h, tx, from, Len(h)),
           NEW g, Len(g) = Len(h), \A m \in 1..Len(h) : m # Len(h) => g[m] = h[m],
           g[Len(h)].string = h[Len(h)].string,
           g[Len(h)].child = h[Len(h)].child, g[Len(h)].next = h[Len(h)].next,
           NEW ty, NEW t, OneToken(tx, ty, p, t),
           \/ t = "v" /\ g[Len(h)].type = "Value"
           \/ t = "s" /\ g[Len(h)].type = "String"
    PROVE  \E u : /\ Spelled(g, fr, NULL, ty, p + 1, from, u, until)
                  /\ u[Len(h)] = p + 1
<1> DEFINE N == Len(h)
           u == [to EXCEPT ![N] = p + 1]
<1>1. /\ N \in 1..N /\ N # NULL /\ h[N].next = NULL /\ h[N].child = NULL
      /\ \A i \in 1..Len(fr) : fr[i].item # N
      /\ \A i \in 0..Len(fr) : i # Len(fr) => LastIn(fr, i) # N
  BY YoungestIs
<1>2. Inside(h, fr)
  BY TreeInside
<1>3. Spelled(h, fr, N, ty, p, from, to, until) /\ Spelled(h, fr, N, ty, p + 1, from, to, until)
  BY <1>2, ReadToken
<1>4. /\ p \in Nat /\ p + 1 \in Nat /\ from \in [1..N -> 0..(p + 1)] /\ to \in [1..N -> 0..(p + 1)]
      /\ until \in [1..N -> 0..(p + 1)] /\ from[Root] = 0
      /\ ty \in Seq(Tok) /\ p + 1 <= Len(ty) /\ Len(ty) <= (p + 1) + 1
  <2>1. p \in Nat
    BY DEF Spelled, Placed
  <2>2. QED
    BY <1>3, <2>1 DEF Spelled, Placed
<1>5. u[N] = p + 1 /\ \A m \in 1..N : m # N => u[m] = to[m]
  BY <1>1, <1>4
<1>6. u \in [1..N -> 0..(p + 1)]
  <2>1. p + 1 \in 0..(p + 1)
    BY <1>4
  <2> DEFINE R == 0..(p + 1)
             q == p + 1
             D == 1..N
  <2>2. q \in R /\ to \in [D -> R] /\ u = [to EXCEPT ![N] = q]
    BY <1>4, <2>1
  <2> HIDE DEF R, q, D, u
  <2>3. u \in [D -> R]
    BY <2>2
  <2>4. QED
    BY <2>3 DEF R, D
<1> HIDE DEF u
<1>7. Placed(g, ty, p + 1, from, u, until)
  BY <1>4, <1>6 DEF Placed
<1>8. \A m \in 1..N : g[m].child = h[m].child /\ g[m].next = h[m].next /\ g[m].string = h[m].string
  OBVIOUS
<1>9. \A m \in 1..N : ValueAt(g, from, m) = ValueAt(h, from, m)
  BY <1>8 DEF ValueAt
<1>10. \A m \in 1..N : Labelled(h, ty, from, m) => Labelled(g, ty, from, m)
  BY <1>8 DEF Labelled
<1>11. ASSUME NEW m \in 1..N, m # N, Done(fr, NULL, m)
       PROVE  Written(g, ty, from, u, until, m)
  <2>1. Written(h, ty, from, to, until, m)
    BY <1>3, <1>11 DEF Spelled, Done
  <2>2. g[m] = h[m] /\ u[m] = to[m] /\ ValueAt(g, from, m) = ValueAt(h, from, m)
    BY <1>5, <1>9, <1>11
  <2>3. QED
    BY <1>10, <2>1, <2>2 DEF Written, Scalars, Brackets, IsList
<1>12. Written(g, ty, from, u, until, N)
  <2>1. ValueAt(g, from, N) = p
    BY <1>1, <1>9
  <2>2. Labelled(g, ty, from, N)
    <3>1. Labelled(h, ty, from, N)
      <4>1. from[N] \in Nat /\ (h[N].string => from[N] + 2 = p)
        BY <1>1, <1>4 DEF ValueAt
      <4> SUFFICES ASSUME h[N].string
                   PROVE  ty[from[N] + 1] = "s" /\ ty[from[N] + 2] = ":"
        BY DEF Labelled
      <4>2. tx[from[N] + 1] = "s" /\ tx[from[N] + 2] = ":"
        BY DEF Labelled
      <4>3. from[N] + 1 \in 1..p /\ from[N] + 2 \in 1..p
        <5> DEFINE a == from[N]
        <5>1. a \in Nat /\ a + 2 = p
          BY <4>1
        <5> HIDE DEF a
        <5>2. a + 1 \in 1..p /\ a + 2 \in 1..p
          BY <5>1
        <5>3. QED
          BY <5>2 DEF a
      <4>4. QED
        BY <4>2, <4>3 DEF OneToken
    <3>2. QED
      BY <1>1, <1>10, <3>1
  <2>3. ty[p + 1] = t
    BY DEF OneToken
  <2>4. Scalars(g, ty, p, u, N)
    BY <1>5, <2>3 DEF Scalars
  <2>5. Brackets(g, ty, p, from, u, until, N)
    BY DEF Brackets, IsList
  <2>6. p < u[N]
    BY <1>4, <1>5
  <2>7. QED
    BY <2>1, <2>2, <2>4, <2>5, <2>6 DEF Written
<1>13. ASSUME NEW m \in 1..N
       PROVE  Linked(g, ty, from, u, until, m)
  <2>1. Linked(h, ty, from, to, until, m)
    BY <1>3 DEF Spelled
  <2>2. QED
    BY <1>1, <1>5, <1>8, <2>1 DEF Linked
<1>14. until[N] = 0
  <2>1. Len(fr) \in 0..Len(fr)
    BY <1>2 DEF Inside
  <2>2. QED
    BY <1>3, <2>1 DEF Spelled, StillOpen
<1>15. ASSUME NEW m \in 1..N
       PROVE  Ended(g, fr, NULL, u, until, m)
  <2>1. Ended(h, fr, N, to, until, m)
    BY <1>3 DEF Spelled
  <2>2. until[m] # 0 => m # N
    BY <1>14
  <2>3. m # NULL
    BY DEF NULL
  <2>4. QED
    BY <1>5, <1>8, <2>1, <2>2, <2>3 DEF Ended, Done
<1>16. ASSUME NEW i \in 1..Len(fr)
       PROVE  Begun(g, fr, ty, p + 1, from, i)
  <2>1. Begun(h, fr, ty, p + 1, from, i)
    BY <1>3 DEF Spelled
  <2>2. fr[i].item \in 1..N
    BY <1>2 DEF Inside
  <2>3. QED
    BY <1>9, <1>10, <2>1, <2>2 DEF Begun
<1>17. \A i \in 0..Len(fr) : StillOpen(fr, until, i)
  BY <1>3 DEF Spelled
<1>18. Spelled(g, fr, NULL, ty, p + 1, from, u, until)
  BY <1>7, <1>11, <1>12, <1>13, <1>15, <1>16, <1>17 DEF Spelled
<1>19. QED
  BY <1>5, <1>18

\* A name: the youngest node has it, and its value is still to come.
LEMMA NameSpelled ==
    ASSUME NEW h, NEW e, NEW fr, Tree(h, e, fr, Len(h)),
           LastIn(fr, Len(fr)) = Len(h), FirstIn(fr, Len(fr)) # NULL,
           NEW tx, NEW p, NEW from, NEW to, NEW until,
           Spelled(h, fr, Len(h), tx, p, from, to, until),
           NEW g, Len(g) = Len(h), \A m \in 1..Len(h) : m # Len(h) => g[m] = h[m],
           g[Len(h)].child = h[Len(h)].child, g[Len(h)].next = h[Len(h)].next,
           NEW ty, NEW t, OneToken(tx, ty, p, t)
    PROVE  Spelled(g, fr, Len(h), ty, p + 1, from, to, until)
<1> DEFINE N == Len(h)
<1>1. /\ N \in 1..N /\ N # NULL /\ h[N].next = NULL /\ h[N].child = NULL
      /\ \A i \in 1..Len(fr) : fr[i].item # N
  BY YoungestIs
<1>2. Inside(h, fr)
  BY TreeInside
<1>3. Spelled(h, fr, N, ty, p + 1, from, to, until)
  BY <1>2, ReadToken
<1>4. Placed(g, ty, p + 1, from, to, until)
  BY <1>3 DEF Spelled, Placed
<1>5. \A m \in 1..N : g[m].child = h[m].child /\ g[m].next = h[m].next
  OBVIOUS
<1>6. ASSUME NEW m \in 1..N, Done(fr, N, m)
      PROVE  Written(g, ty, from, to, until, m)
  <2>1. Written(h, ty, from, to, until, m)
    BY <1>3, <1>6 DEF Spelled
  <2>2. g[m] = h[m]
    BY <1>6 DEF Done
  <2>3. QED
    BY <2>1, <2>2 DEF Written, Scalars, Brackets, IsList, ValueAt, Labelled
<1>7. ASSUME NEW m \in 1..N
      PROVE  Linked(g, ty, from, to, until, m) /\ Ended(g, fr, N, to, until, m)
  <2>1. Linked(h, ty, from, to, until, m) /\ Ended(h, fr, N, to, until, m)
    BY <1>3 DEF Spelled
  <2>2. QED
    BY <1>5, <2>1 DEF Linked, Ended
<1>8. ASSUME NEW i \in 1..Len(fr)
      PROVE  Begun(g, fr, ty, p + 1, from, i)
  <2>1. Begun(h, fr, ty, p + 1, from, i)
    BY <1>3 DEF Spelled
  <2>2. fr[i].item \in 1..N /\ fr[i].item # N
    BY <1>1, <1>2 DEF Inside
  <2>3. g[fr[i].item] = h[fr[i].item]
    BY <2>2
  <2>4. QED
    BY <2>1, <2>3 DEF Begun, ValueAt, Labelled
<1>9. \A i \in 0..Len(fr) : StillOpen(fr, until, i)
  BY <1>3 DEF Spelled
<1>10. QED
  BY <1>4, <1>6, <1>7, <1>8, <1>9 DEF Spelled

\* A colon: the value of the youngest node comes next.
LEMMA ColonSpelled ==
    ASSUME NEW h, NEW tx, NEW from, from[Len(h)] \in Nat, NEW p,
           p = from[Len(h)] + 1, tx[p] = "s", h[Len(h)].string,
           NEW ty, OneToken(tx, ty, p, ":")
    PROVE  p + 1 = ValueAt(h, from, Len(h)) /\ Labelled(h, ty, from, Len(h))
<1>2. p + 1 = from[Len(h)] + 2 /\ p \in 1..p
  <2> DEFINE a == from[Len(h)]
  <2>1. a \in Nat /\ p = a + 1
    OBVIOUS
  <2> HIDE DEF a
  <2>2. p + 1 = a + 2 /\ p \in 1..p
    BY <2>1
  <2>3. QED
    BY <2>2 DEF a
<1>3. ty[p] = "s" /\ ty[p + 1] = ":"
  BY <1>2 DEF OneToken
<1>4. QED
  BY <1>2, <1>3 DEF ValueAt, Labelled

\* A list is opened: the youngest node is its item.
LEMMA OpenSpelled ==
    ASSUME NEW h, NEW fr \in Seq(Frame), Inside(h, fr), Len(h) \in 1..Len(h),
           NEW tx, NEW p, NEW from, NEW to, NEW until,
           Spelled(h, fr, Len(h), tx, p, from, to, until),
           Stands(h, fr, tx, p, "value", from, to),
           NEW k \in {"Array", "Object"},
           NEW fn, fn = Append(fr, [item |-> Len(h), kind |-> k, head |-> NULL, last |-> NULL]),
           NEW ty, OneToken(tx, ty, p, Opener(k))
    PROVE  Spelled(h, fn, NULL, ty, p + 1, from, to, until)
<1> DEFINE N == Len(h)
           K == Len(fr)
           f == [item |-> N, kind |-> k, head |-> NULL, last |-> NULL]
<1>0. p = ValueAt(h, from, Len(h)) /\ Labelled(h, tx, from, Len(h))
  BY DEF Stands
<1>1. f \in Frame
  BY DEF Frame, NULL
<1>2. f.item = N /\ f.kind = k /\ f.head = NULL
  OBVIOUS
<1> HIDE DEF f
<1>3. /\ Len(fn) = K + 1 /\ K \in Nat /\ fn[K + 1] = f
      /\ \A i \in 1..K : fn[i] = fr[i]
  BY <1>1 DEF f
<1>4. \A i \in 1..(K + 1) : i \in 1..K \/ i = K + 1
  BY <1>3
<1>5. Spelled(h, fr, N, ty, p + 1, from, to, until)
  BY ReadToken
<1>6. \A i \in 0..K : FirstIn(fn, i) = FirstIn(fr, i) /\ LastIn(fn, i) = LastIn(fr, i)
  BY <1>3 DEF FirstIn, LastIn
<1>7. FirstIn(fn, K + 1) = NULL
  <2>1. K + 1 # 0
    BY <1>3
  <2>2. QED
    BY <1>2, <1>3, <2>1 DEF FirstIn
<1>8. \A m \in 1..N : Done(fn, NULL, m) <=> Done(fr, N, m)
  <2>1. \A i \in 1..K : i \in 1..(K + 1)
    BY <1>3
  <2>2. K + 1 \in 1..(K + 1)
    BY <1>3
  <2>3. \A m \in 1..N : m # NULL
    BY DEF NULL
  <2>4. QED
    BY <1>2, <1>3, <1>4, <2>1, <2>2, <2>3 DEF Done
<1>9. ASSUME NEW m \in 1..N
      PROVE  /\ Done(fn, NULL, m) => Written(h, ty, from, to, until, m)
             /\ Linked(h, ty, from, to, until, m)
             /\ Ended(h, fn, NULL, to, until, m)
  <2>1. /\ Done(fr, N, m) => Written(h, ty, from, to, until, m)
        /\ Linked(h, ty, from, to, until, m)
        /\ Ended(h, fr, N, to, until, m)
    BY <1>5 DEF Spelled
  <2>2. \A i \in 0..K : i \in 0..Len(fn)
    BY <1>3
  <2>3. Ended(h, fn, NULL, to, until, m)
    BY <1>6, <1>8, <2>1, <2>2 DEF Ended
  <2>4. QED
    BY <1>8, <2>1, <2>3
<1>10. ASSUME NEW i \in 1..Len(fn)
       PROVE  Begun(h, fn, ty, p + 1, from, i)
  <2>1. CASE i \in 1..K
    <3>1. Begun(h, fr, ty, p + 1, from, i)
      BY <1>5, <2>1 DEF Spelled
    <3>2. QED
      BY <1>3, <2>1, <3>1 DEF Begun
  <2>2. CASE i = K + 1
    <3>1. fn[i].item = N /\ fn[i].kind = k /\ fn[i].head = NULL
      BY <1>2, <1>3, <2>2
    <3>2. p \in Nat /\ from[N] \in Nat
      BY DEF Spelled, Placed
    <3>3. ty[p + 1] = Opener(k) /\ p + 1 <= p + 1 /\ p = ValueAt(h, from, N)
      BY <1>0, <3>2 DEF OneToken
    <3>4. Labelled(h, ty, from, N)
      <4> SUFFICES ASSUME h[N].string
                   PROVE  ty[from[N] + 1] = "s" /\ ty[from[N] + 2] = ":"
        BY DEF Labelled
      <4>1. tx[from[N] + 1] = "s" /\ tx[from[N] + 2] = ":" /\ from[N] + 2 = p
        BY <1>0 DEF Labelled, ValueAt
      <4> DEFINE a == from[N]
      <4>2. a \in Nat /\ a + 2 = p
        BY <3>2, <4>1
      <4> HIDE DEF a
      <4>3. a + 1 \in 1..p /\ a + 2 \in 1..p
        BY <4>2
      <4>4. QED
        BY <4>1, <4>3 DEF OneToken, a
    <3>5. QED
      BY <3>1, <3>3, <3>4 DEF Begun
  <2>3. QED
    BY <1>3, <1>4, <2>1, <2>2
<1>11. ASSUME NEW i \in 0..Len(fn)
       PROVE  StillOpen(fn, until, i)
  <2>1. CASE i \in 0..K
    <3>1. StillOpen(fr, until, i)
      BY <1>5, <2>1 DEF Spelled
    <3>2. QED
      BY <1>6, <2>1, <3>1 DEF StillOpen
  <2>2. CASE i = K + 1
    BY <1>7, <2>2 DEF StillOpen
  <2>3. QED
    BY <1>3, <2>1, <2>2
<1>12. QED
  BY <1>5, <1>9, <1>10, <1>11 DEF Spelled

\* A new item: it begins where the text has been read up to.
LEMMA ElementSpelled ==
    ASSUME NEW h, NEW e, NEW fr, Tree(h, e, fr, Len(h)), fr # <<>>,
           NEW tx, NEW p, NEW from, NEW to, NEW until,
           Spelled(h, fr, NULL, tx, p, from, to, until), Behind(h, fr, tx, p, from, to),
           NEW g, Lengthened(h, g, fr[Len(fr)].last),
           \A m \in 1..Len(h) : g[m].type = h[m].type /\ g[m].string = h[m].string
    PROVE  \E f, u, w : /\ Spelled(g, NextItem(fr, Len(h) + 1), Len(h) + 1, tx, p, f, u, w)
                        /\ f[Len(h) + 1] = p
<1> DEFINE N == Len(h)
           K == Len(fr)
           top == fr[K]
           l == top.last
           fn == NextItem(fr, N + 1)
           f == [m \in 1..(N + 1) |-> IF m = N + 1 THEN p ELSE from[m]]
           u == [m \in 1..(N + 1) |-> IF m = N + 1 THEN 0 ELSE to[m]]
           w == [m \in 1..(N + 1) |-> IF m = N + 1 THEN 0 ELSE until[m]]
<1>1. Inside(h, fr)
  BY TreeInside
<1>2. /\ N \in Nat /\ N \in 1..N /\ K \in 1..K /\ K \in Nat /\ K # 0 /\ fr \in Seq(Frame)
      /\ TextOrder(h, e) /\ Nested(h, e, fr, N)
      /\ top.head = NULL => l = NULL
  <2>2. K \in 1..K /\ fr \in Seq(Frame) /\ TextOrder(h, e) /\ N \in 1..N
    BY Innermost
  <2>3. Nested(h, e, fr, N)
    BY DEF Tree
  <2>4. N \in Nat /\ K \in Nat
    BY <1>1 DEF Inside
  <2>5. K # 0
    BY <2>2, <2>4
  <2>6. top.head = NULL => l = NULL
    BY Innermost
  <2>7. QED
    BY <2>2, <2>3, <2>4, <2>5, <2>6
<1>3. FirstIn(fr, K) = top.head /\ LastIn(fr, K) = l
  BY <1>2 DEF FirstIn, LastIn
<1>4. top.head # NULL => top.head \in 1..N /\ l \in 1..N /\ until[top.head] = 0 /\ until[l] = 0
  <2>1. K \in 0..K
    BY <1>2
  <2>2. StillOpen(fr, until, K)
    BY <2>1 DEF Spelled
  <2>3. QED
    BY <1>1, <1>3, <2>1, <2>2 DEF StillOpen, Inside
<1>5. ASSUME NEW i \in 0..K, i # K, l # NULL
      PROVE  LastIn(fr, i) # l
  <2>1. top.head # NULL
    BY <1>2, <1>5
  <2>2. LastIn(fr, i) < FirstIn(fr, K)
    BY <1>2, <1>3, <1>5, <2>1, ListApart
  <2>3. l \in FirstIn(fr, K)..N /\ FirstIn(fr, K) \in 1..N
    <3>1. h \in Seq(Node)
      BY <1>2 DEF TextOrder
    <3>2. \A j \in 0..K : FirstIn(fr, j) # NULL =>
             FirstIn(fr, j) \in 1..N /\ LastIn(fr, j) \in FirstIn(fr, j)..N
      BY <1>2, <3>1, ListBounds
    <3>3. K \in 0..K /\ FirstIn(fr, K) # NULL
      BY <1>2, <1>3, <2>1
    <3>4. QED
      BY <1>3, <3>2, <3>3
  <2>4. QED
    BY <2>2, <2>3
<1>6. /\ fn \in Seq(Frame) /\ Len(fn) = K
      /\ \A i \in 1..K : i # K => fn[i] = fr[i]
      /\ fn[K].item = top.item /\ fn[K].kind = top.kind /\ fn[K].last = N + 1
      /\ fn[K].head = IF top.head = NULL THEN N + 1 ELSE top.head
  <2>1. N + 1 \in Nat
    BY <1>2
  <2>2. QED
    BY <1>2, <2>1, NextItemIs
<1>7. /\ tx \in Seq(Tok) /\ p \in Nat /\ p <= Len(tx) /\ Len(tx) <= p + 1
      /\ from \in [1..N -> 0..p] /\ to \in [1..N -> 0..p] /\ until \in [1..N -> 0..p]
      /\ from[Root] = 0
  BY DEF Spelled, Placed
<1>8. /\ Len(g) = N + 1
      /\ \A m \in 1..N : g[m].child = h[m].child /\ (m # l => g[m].next = h[m].next)
      /\ l # NULL => g[l].next = N + 1
      /\ g[N + 1].child = NULL /\ g[N + 1].next = NULL
  BY DEF Lengthened
<1>9. /\ \A m \in 1..N : m \in 1..(N + 1) /\ m # N + 1 /\ m # NULL
      /\ \A m \in 1..(N + 1) : m \in 1..N \/ m = N + 1
      /\ N + 1 \in 1..(N + 1) /\ N + 1 # NULL
  BY <1>2 DEF NULL
<1>10. /\ \A m \in 1..N : f[m] = from[m] /\ u[m] = to[m] /\ w[m] = until[m]
       /\ f[N + 1] = p /\ w[N + 1] = 0
  BY <1>9
<1>11. /\ f \in [1..(N + 1) -> 0..p] /\ u \in [1..(N + 1) -> 0..p] /\ w \in [1..(N + 1) -> 0..p]
  <2>1. p \in 0..p /\ 0 \in 0..p
    BY <1>7
  <2> DEFINE R == 0..p
  <2>2. /\ p \in R /\ 0 \in R
        /\ \A m \in 1..N : from[m] \in R /\ to[m] \in R /\ until[m] \in R
    BY <1>7, <2>1
  <2> HIDE DEF R
  <2>3. /\ f \in [1..(N + 1) -> R] /\ u \in [1..(N + 1) -> R] /\ w \in [1..(N + 1) -> R]
    BY <1>9, <2>2
  <2>4. QED
    BY <2>3 DEF R
<1> HIDE DEF f, u, w, fn
<1>12. Placed(g, tx, p, f, u, w)
  <2>1. f[Root] = 0
    BY <1>7, <1>10, <1>2 DEF Root
  <2>2. QED
    BY <1>7, <1>8, <1>11, <2>1 DEF Placed
<1>13. \A m \in 1..N : ValueAt(g, f, m) = ValueAt(h, from, m)
                       /\ (Labelled(h, tx, from, m) => Labelled(g, tx, f, m))
  BY <1>10 DEF ValueAt, Labelled
<1>14. \A i \in 1..K : fn[i].item = fr[i].item /\ fn[i].kind = fr[i].kind
  BY <1>6
<1>15. \A m \in 1..N : Done(fn, N + 1, m) <=> Done(fr, NULL, m)
  BY <1>6, <1>9, <1>14 DEF Done
<1>16. ~Done(fn, N + 1, N + 1)
  BY DEF Done
<1>17. ASSUME NEW m \in 1..N, Done(fn, N + 1, m)
       PROVE  Written(g, tx, f, u, w, m)
  <2> DEFINE c == h[m].child
  <2>1. Written(h, tx, from, to, until, m)
    BY <1>15, <1>17 DEF Spelled
  <2>2. c # NULL => f[c] = from[c] /\ w[c] = until[c]
    BY <1>1, <1>10 DEF Inside
  <2>3. g[m].type = h[m].type /\ g[m].child = c /\ u[m] = to[m]
    BY <1>8, <1>10
  <2> DEFINE v == ValueAt(h, from, m)
  <2>4. v = ValueAt(g, f, m) /\ Labelled(g, tx, f, m) /\ v < u[m]
    BY <1>13, <2>1, <2>3 DEF Written
  <2> HIDE DEF v
  <2>5. Scalars(g, tx, v, u, m)
    BY <2>1, <2>3 DEF Written, Scalars, v
  <2>6. Brackets(h, tx, v, from, to, until, m)
    BY <2>1 DEF Written, v
  <2>7. Brackets(g, tx, v, f, u, w, m)
    BY <2>2, <2>3, <2>6 DEF Brackets, IsList
  <2>8. QED
    BY <2>1, <2>3, <2>4, <2>5, <2>7 DEF Written
<1>18. ASSUME NEW m \in 1..(N + 1)
       PROVE  Linked(g, tx, f, u, w, m)
  <2>1. CASE m = N + 1
    BY <1>8, <2>1 DEF Linked
  <2>2. CASE m # N + 1 /\ m = l
    <3>1. m \in 1..N /\ l # NULL
      BY <1>9, <2>2
    <3>2. top.head # NULL
      BY <1>2, <3>1
    <3>3. p = to[l] + 1 /\ tx[p] = ","
      BY <3>2 DEF Behind
    <3>4. g[m].next = N + 1 /\ u[m] = to[l] /\ w[m] = 0
      BY <1>4, <1>8, <1>10, <2>2, <3>1, <3>2
    <3>5. QED
      BY <1>10, <3>3, <3>4 DEF Linked
  <2>3. CASE m # N + 1 /\ m # l
    <3>1. m \in 1..N
      BY <1>9, <2>3
    <3>2. Linked(h, tx, from, to, until, m)
      BY <3>1 DEF Spelled
    <3>3. g[m].next = h[m].next /\ u[m] = to[m] /\ w[m] = until[m]
      BY <1>8, <1>10, <2>3, <3>1
    <3>4. h[m].next # NULL => f[h[m].next] = from[h[m].next] /\ w[h[m].next] = until[h[m].next]
      BY <1>1, <1>10, <3>1 DEF Inside
    <3>5. QED
      BY <3>2, <3>3, <3>4 DEF Linked
  <2>4. QED
    BY <2>1, <2>2, <2>3
<1>19. \A i \in 0..K : i # K => FirstIn(fn, i) = FirstIn(fr, i) /\ LastIn(fn, i) = LastIn(fr, i)
  BY <1>2, <1>6 DEF FirstIn, LastIn
<1>20. FirstIn(fn, K) = fn[K].head /\ LastIn(fn, K) = N + 1 /\ fn[K].head # NULL /\ K \in 0..K
  BY <1>2, <1>6, <1>9 DEF FirstIn, LastIn
<1>21. ASSUME NEW m \in 1..(N + 1)
       PROVE  Ended(g, fn, N + 1, u, w, m)
  <2>1. CASE m = N + 1
    <3>1. \E i \in 0..Len(fn) : FirstIn(fn, i) # NULL /\ m = LastIn(fn, i)
      BY <1>6, <1>20, <2>1
    <3>2. QED
      BY <1>10, <2>1, <3>1 DEF Ended
  <2>2. CASE m # N + 1 /\ m = l
    <3>1. g[m].next # NULL
      BY <1>8, <1>9, <2>2
    <3>2. QED
      BY <3>1 DEF Ended
  <2>3. CASE m # N + 1 /\ m # l
    <3>1. m \in 1..N
      BY <1>9, <2>3
    <3>2. Ended(h, fr, NULL, to, until, m)
      BY <3>1 DEF Spelled
    <3>3. g[m].next = h[m].next /\ u[m] = to[m] /\ w[m] = until[m]
      BY <1>8, <1>10, <2>3, <3>1
    <3>4. ASSUME NEW i \in 0..K, FirstIn(fr, i) # NULL, m = LastIn(fr, i)
          PROVE  FirstIn(fn, i) # NULL /\ m = LastIn(fn, i)
      <4>1. i # K
        BY <1>3, <2>3, <3>4
      <4>2. QED
        BY <1>19, <3>4, <4>1
    <3>5. QED
      BY <1>6, <1>15, <3>1, <3>2, <3>3, <3>4 DEF Ended
  <2>4. QED
    BY <2>1, <2>2, <2>3
<1>22. ASSUME NEW i \in 1..K
       PROVE  Begun(g, fn, tx, p, f, i)
  <2> DEFINE t == fr[i].item
             v == ValueAt(h, from, t)
  <2>1. Begun(h, fr, tx, p, from, i)
    BY DEF Spelled
  <2>2. t \in 1..N /\ fn[i].item = t /\ fn[i].kind = fr[i].kind
    BY <1>1, <1>14 DEF Inside
  <2>3. v = ValueAt(g, f, t) /\ Labelled(g, tx, f, t) /\ v + 1 <= p /\ tx[v + 1] = Opener(fr[i].kind)
    BY <1>13, <2>1, <2>2 DEF Begun
  <2>4. fn[i].head # NULL => f[fn[i].head] = v + 1
    <3>1. fr[i].head # NULL => f[fr[i].head] = v + 1
      <4> SUFFICES ASSUME fr[i].head # NULL
                   PROVE  f[fr[i].head] = v + 1
        OBVIOUS
      <4>1. i \in 0..K /\ FirstIn(fr, i) = fr[i].head
        BY <1>2 DEF FirstIn
      <4>2. fr[i].head \in 1..N
        BY <1>1, <4>1 DEF Inside
      <4>3. QED
        BY <1>10, <2>1, <4>2 DEF Begun
    <3>2. CASE i # K
      BY <1>6, <3>1, <3>2
    <3>3. CASE i = K /\ top.head # NULL
      BY <1>6, <3>1, <3>3
    <3>4. CASE i = K /\ top.head = NULL
      <4>1. p = v + 1
        BY <3>4 DEF Behind
      <4>2. QED
        BY <1>6, <1>10, <3>4, <4>1
    <3>5. QED
      BY <3>2, <3>3, <3>4
  <2> HIDE DEF v
  <2>5. QED
    BY <2>2, <2>3, <2>4 DEF Begun
<1>23. ASSUME NEW i \in 0..K
       PROVE  StillOpen(fn, w, i)
  <2>1. CASE i # K
    <3>1. StillOpen(fr, until, i)
      BY DEF Spelled
    <3>2. FirstIn(fr, i) # NULL => FirstIn(fr, i) \in 1..N /\ LastIn(fr, i) \in 1..N
      BY <1>1 DEF Inside
    <3>3. QED
      BY <1>10, <1>19, <2>1, <3>1, <3>2 DEF StillOpen
  <2>2. CASE i = K
    BY <1>4, <1>6, <1>10, <1>20, <2>2 DEF StillOpen
  <2>3. QED
    BY <2>1, <2>2
<1>24. ASSUME NEW m \in 1..(N + 1), Done(fn, N + 1, m)
       PROVE  Written(g, tx, f, u, w, m)
  BY <1>9, <1>16, <1>17, <1>24
<1>25. Spelled(g, fn, N + 1, tx, p, f, u, w)
  BY <1>6, <1>8, <1>12, <1>18, <1>21, <1>22, <1>23, <1>24 DEF Spelled
<1>26. QED
  BY <1>10, <1>25 DEF fn

\* The text has been read to the end of the last item of a list, if there is one,
\* and the item of the list takes it.
Complete(h, top, p, from, to) ==
    /\ top.head = NULL => p = ValueAt(h, from, top.item) + 1
    /\ top.head # NULL => p = to[top.last]
Taken(h, g, top) ==
    /\ Len(g) = Len(h)
    /\ \A m \in 1..Len(h) : /\ g[m].next = h[m].next /\ g[m].string = h[m].string
                            /\ g[m].child = IF m = top.item THEN top.head ELSE h[m].child
                            /\ g[m].type = IF m = top.item THEN top.kind ELSE h[m].type

\* A list is complete: its item has it, and it ends where the text has been read to.
LEMMA CloseSpelled ==
    ASSUME NEW h, NEW e, NEW fr, Tree(h, e, fr, Len(h)), fr # <<>>,
           NEW tx, NEW p, NEW from, NEW to, NEW until,
           Spelled(h, fr, NULL, tx, p, from, to, until),
           NEW top, top = fr[Len(fr)], Complete(h, top, p, from, to),
           NEW g, Taken(h, g, top),
           NEW ty, OneToken(tx, ty, p, Close[top.kind])
    PROVE  \E u, w : /\ Spelled(g, Front(fr), NULL, ty, p + 1, from, u, w)
                     /\ u[top.item] = p + 1
<1> USE DEF Complete, Taken
<1> DEFINE N == Len(h)
           K == Len(fr)
           ft == Front(fr)
           t == top.item
           q == p + 1
           u == [m \in 1..N |-> IF m = t THEN q ELSE to[m]]
           w == [m \in 1..N |-> IF m > t /\ until[m] = 0 THEN p ELSE until[m]]
<1>1. Inside(h, fr)
  BY TreeInside
<1>2. /\ N \in Nat /\ N \in 1..N /\ K \in Nat
      /\ TextOrder(h, e) /\ h \in Seq(Node) /\ Nested(h, e, fr, N)
  <2>1. N \in 1..N /\ TextOrder(h, e) /\ h \in Seq(Node)
    BY Innermost
  <2>2. Nested(h, e, fr, N)
    BY DEF Tree
  <2>3. QED
    BY <1>1, <2>1, <2>2 DEF Inside
<1>3. /\ fr \in Seq(Frame) /\ K \in 1..K /\ top \in Frame /\ t \in 1..N
      /\ \A m \in 1..t : e[m] <= t
      /\ Nested(h, e, ft, t)
      /\ FirstIn(ft, Len(ft)) # NULL /\ LastIn(ft, Len(ft)) = t
      /\ ft \in Seq(Frame) /\ Len(ft) = K - 1
  BY Innermost
<1>4. /\ top.head = NULL => t = N
      /\ top.head # NULL => top.head = t + 1 /\ top.head \in 1..N
  BY Innermost
<1>5. \A i \in 1..(K - 1) : ft[i] = fr[i]
  BY <1>3, FrontIs
<1>6. K - 1 \in 0..(K - 1) /\ K - 1 \in 0..K /\ t \in Nat /\ K # 0 /\ K \in 0..K
  BY <1>2, <1>3
<1>7. FirstIn(fr, K) = top.head /\ LastIn(fr, K) = top.last
  BY <1>6 DEF FirstIn, LastIn
<1>8. \A i \in 0..(K - 1) : FirstIn(ft, i) = FirstIn(fr, i) /\ LastIn(ft, i) = LastIn(fr, i)
  BY <1>2, <1>5 DEF FirstIn, LastIn
<1>9. ASSUME NEW i \in 0..(K - 1), FirstIn(fr, i) # NULL
      PROVE  FirstIn(fr, i) \in 1..N /\ FirstIn(fr, i) <= t /\ LastIn(fr, i) \in 1..N /\ LastIn(fr, i) <= t
  <2>1. \A j \in 0..Len(ft) : FirstIn(ft, j) # NULL =>
            FirstIn(ft, j) \in 1..t /\ LastIn(ft, j) \in FirstIn(ft, j)..t
    <3>1. t \in 1..Len(h)
      BY <1>3
    <3> HIDE DEF t, ft
    <3>2. QED
      BY <1>2, <1>3, <3>1, ListBounds
  <2>2. FirstIn(fr, i) \in 1..t /\ LastIn(fr, i) \in FirstIn(fr, i)..t
    BY <1>3, <1>8, <1>9, <2>1
  <2> DEFINE a == FirstIn(fr, i)
             b == LastIn(fr, i)
  <2>3. a \in 1..t /\ b \in a..t /\ t \in 1..N
    BY <1>3, <2>2
  <2> HIDE DEF a, b, t
  <2>4. a \in 1..N /\ a <= t /\ b \in 1..N /\ b <= t
    BY <1>2, <2>3
  <2>5. QED
    BY <2>4 DEF a, b
<1>10. \A i \in 1..(K - 1) : fr[i].item \in 1..N /\ fr[i].item # t /\ fr[i].item < t
  <2> TAKE i \in 1..(K - 1)
  <2>1. i \in 1..K /\ i - 1 \in 0..K /\ i \in 0..(K - 1) /\ i # 0
    BY <1>2
  <2>2. fr[i].item \in 1..N /\ t \in Nat
    BY <1>1, <1>6, <2>1 DEF Inside
  <2>3. fr[i].head # NULL
    BY <1>2, <2>1 DEF Nested
  <2>4. fr[i].head = fr[i].item + 1
    BY <1>2, <2>1, <2>3 DEF Nested
  <2>5. FirstIn(fr, i) = fr[i].head
    BY <2>1 DEF FirstIn
  <2>6. fr[i].item + 1 <= t
    BY <1>9, <2>1, <2>3, <2>4, <2>5
  <2>7. QED
    BY <2>2, <2>6
<1>11. /\ h[t].next = NULL
  <2>1. Growing(h, e, FirstIn(ft, Len(ft)), LastIn(ft, Len(ft)), t)
    <3>1. Len(ft) \in 0..Len(ft)
      BY <1>3, <1>6
    <3>2. QED
      BY <1>3, <3>1 DEF Nested
  <2>2. QED
    BY <1>3, <2>1 DEF Growing
<1>12. /\ Spelled(h, fr, NULL, ty, p, from, to, until)
       /\ Spelled(h, fr, NULL, ty, q, from, to, until)
  BY <1>1, ReadToken
<1>13. /\ p \in Nat /\ q \in Nat /\ p \in 0..q /\ q \in 0..q
       /\ ty \in Seq(Tok) /\ q <= Len(ty) /\ Len(ty) <= q + 1
       /\ from \in [1..N -> 0..q] /\ to \in [1..N -> 0..q] /\ until \in [1..N -> 0..q]
       /\ from[Root] = 0
  <2>1. p \in Nat
    BY DEF Spelled, Placed
  <2>2. p \in 0..q /\ q \in 0..q
    BY <2>1
  <2>3. QED
    BY <1>12, <2>1, <2>2 DEF Spelled, Placed
<1>130. \A m \in 1..N : from[m] \in Nat /\ to[m] \in Nat /\ until[m] \in Nat
  <2> HIDE DEF q
  <2>1. 0..q \subseteq Nat
    BY <1>13
  <2> DEFINE R == 0..q
  <2> HIDE DEF R
  <2>2. \A m \in 1..N : from[m] \in R /\ to[m] \in R /\ until[m] \in R
    BY <1>13 DEF R
  <2>3. QED
    BY <2>1, <2>2 DEF R
<1>14. u[t] = q /\ \A m \in 1..N : m # t => u[m] = to[m]
  BY <1>3
<1>15. /\ \A m \in 1..N : m <= t => w[m] = until[m]
       /\ \A m \in 1..N : until[m] # 0 => w[m] = until[m]
       /\ \A m \in 1..N : m > t /\ until[m] = 0 => w[m] = p
  BY <1>3, <1>6
<1>16. Placed(g, ty, q, from, u, w)
  <2> DEFINE R == 0..q
  <2>1. u \in [1..N -> R] /\ w \in [1..N -> R]
    <3>1. p \in R /\ q \in R /\ \A m \in 1..N : to[m] \in R /\ until[m] \in R
      BY <1>13
    <3> HIDE DEF R, q
    <3>2. QED
      BY <3>1
  <2> HIDE DEF u, w, q
  <2>2. QED
    BY <1>13, <2>1 DEF Placed
<1> HIDE DEF u, w, q, ft, t
<1>17. \A m \in 1..N : ValueAt(g, from, m) = ValueAt(h, from, m)
                       /\ (Labelled(h, ty, from, m) => Labelled(g, ty, from, m))
  BY DEF ValueAt, Labelled
<1>18. \A m \in 1..N : /\ g[m].next = h[m].next
                       /\ g[m].child = IF m = t THEN top.head ELSE h[m].child
                       /\ g[m].type = IF m = t THEN top.kind ELSE h[m].type
  BY DEF t
<1>19. ASSUME NEW m \in 1..N
       PROVE  /\ m # t /\ Done(ft, NULL, m) => Done(fr, NULL, m)
              /\ Done(fr, NULL, m) => Done(ft, NULL, m) /\ m # t
  <2>1. \A i \in 1..K : i \in 1..(K - 1) \/ i = K
    BY <1>2
  <2>2. \A i \in 1..(K - 1) : i \in 1..K
    BY <1>2
  <2>3. \A i \in 1..(K - 1) : ft[i].item = fr[i].item
    BY <1>5 DEF ft
  <2>4. fr[K].item = t /\ K \in 1..K /\ Len(ft) = K - 1
    BY <1>3 DEF t
  <2>5. m # NULL
    BY DEF NULL
  <2>6. ASSUME m # t, Done(ft, NULL, m)
        PROVE  Done(fr, NULL, m)
    BY <2>1, <2>3, <2>4, <2>5, <2>6 DEF Done
  <2>7. ASSUME Done(fr, NULL, m)
        PROVE  Done(ft, NULL, m) /\ m # t
    BY <2>2, <2>3, <2>4, <2>7 DEF Done
  <2>8. QED
    BY <2>6, <2>7
<1>20. ASSUME NEW m \in 1..N, m # t, Done(ft, NULL, m)
       PROVE  Written(g, ty, from, u, w, m)
  <2> DEFINE v == ValueAt(h, from, m)
             c == h[m].child
  <2>1. Written(h, ty, from, to, until, m)
    BY <1>12, <1>19, <1>20 DEF Spelled
  <2>2. v = ValueAt(g, from, m) /\ Labelled(g, ty, from, m) /\ v < u[m] /\ u[m] = to[m]
    BY <1>14, <1>17, <1>20, <2>1 DEF Written
  <2>3. g[m].type = h[m].type /\ g[m].child = c
    BY <1>18, <1>20
  <2>4. v \in Nat /\ to[m] \in Nat
    BY <1>130 DEF ValueAt
  <2>5. h[m].type \in {"Value", "String", "Array", "Object"} /\ Scalars(h, ty, v, to, m)
        /\ Brackets(h, ty, v, from, to, until, m)
    BY <2>1 DEF Written
  <2> HIDE DEF v
  <2>6. Scalars(g, ty, v, u, m)
    BY <2>2, <2>3, <2>5 DEF Scalars
  <2>7. IsList(h[m]) /\ c # NULL => w[c] = until[c]
    <3> SUFFICES ASSUME IsList(h[m]), c # NULL
                 PROVE  w[c] = until[c]
      OBVIOUS
    <3>1. until[c] = to[m] - 1 /\ v + 2 <= to[m]
      BY <2>5 DEF Brackets
    <3>2. until[c] # 0
      BY <2>4, <3>1
    <3>3. c \in 1..N
      BY <1>1 DEF Inside
    <3>4. QED
      BY <1>15, <3>2, <3>3
  <2>8. Brackets(g, ty, v, from, u, w, m)
    BY <2>2, <2>3, <2>5, <2>7 DEF Brackets, IsList
  <2>9. QED
    BY <2>2, <2>3, <2>5, <2>6, <2>8 DEF Written
<1>21. /\ Begun(h, fr, ty, q, from, K) /\ Begun(h, fr, ty, p, from, K)
  BY <1>3, <1>12 DEF Spelled
<1>22. until[t] = 0
  <2>1. StillOpen(fr, until, K - 1)
    BY <1>6, <1>12 DEF Spelled
  <2>2. FirstIn(fr, K - 1) # NULL /\ LastIn(fr, K - 1) = t
    BY <1>3, <1>6, <1>8
  <2>3. QED
    BY <2>1, <2>2 DEF StillOpen
<1>23. top.head # NULL => until[top.head] = 0 /\ until[top.last] = 0
  BY <1>6, <1>7, <1>12 DEF Spelled, StillOpen
<1>24. Written(g, ty, from, u, w, t)
  <2> DEFINE v == ValueAt(h, from, t)
  <2>1. /\ Labelled(g, ty, from, t) /\ v + 1 <= p /\ ty[v + 1] = Opener(top.kind)
        /\ top.head # NULL => from[top.head] = v + 1
    BY <1>3, <1>17, <1>21 DEF Begun, t
  <2>2. v \in Nat /\ v = ValueAt(g, from, t)
    BY <1>3, <1>13, <1>17 DEF ValueAt
  <2>3. top.kind \in {"Array", "Object"} /\ g[t].type = top.kind /\ g[t].child = top.head
    BY <1>3, <1>18 DEF Frame
  <2>35. top.head = NULL => p = v + 1
    BY DEF t
  <2> HIDE DEF v
  <2>4. v < q /\ v + 2 <= q /\ (top.head = NULL => q = v + 2) /\ q - 1 = p
    BY <1>13, <2>1, <2>2, <2>35 DEF q
  <2>5. ty[q] = Close[top.kind]
    BY DEF OneToken, q
  <2>6. top.head # NULL => w[top.head] = p
    <3> SUFFICES ASSUME top.head # NULL
                 PROVE  w[top.head] = p
      OBVIOUS
    <3>1. top.head \in 1..N /\ top.head > t
      BY <1>4, <1>6
    <3>2. QED
      BY <1>15, <1>23, <3>1
  <2>7. Scalars(g, ty, v, u, t)
    BY <2>3 DEF Scalars
  <2>8. Brackets(g, ty, v, from, u, w, t)
    BY <1>14, <2>1, <2>3, <2>4, <2>5, <2>6 DEF Brackets
  <2>9. QED
    BY <1>14, <2>1, <2>2, <2>3, <2>4, <2>7, <2>8 DEF Written
<1>25. ASSUME NEW m \in 1..N
       PROVE  Linked(g, ty, from, u, w, m)
  <2> DEFINE n == h[m].next
  <2> SUFFICES ASSUME n # NULL
               PROVE  Linked(g, ty, from, u, w, m)
    BY <1>18 DEF Linked
  <2>1. m # t /\ u[m] = to[m] /\ n \in 1..N
    BY <1>1, <1>11, <1>14 DEF Inside
  <2>2. ty[to[m] + 1] = "," /\ from[n] = to[m] + 1 /\ until[n] = until[m]
    BY <1>12 DEF Spelled, Linked
  <2>3. n > m
    <3>1. Upward(h)
      BY <1>2, OrderIsUpward
    <3>2. n \in (m + 1)..N
      BY <3>1 DEF Upward, NULL
    <3> HIDE DEF n
    <3>3. QED
      BY <1>2, <3>2
  <2>4. m <= t => n <= t
    <3> SUFFICES ASSUME m <= t
                 PROVE  n <= t
      OBVIOUS
    <3>1. m \in 1..t
      BY <1>6
    <3>2. e[m] <= t
      BY <1>3, <3>1 DEF t
    <3>3. e[n] = e[m] /\ e[n] \in n..N
      BY <1>2, <2>1 DEF TextOrder, InTextOrder
    <3> HIDE DEF n
    <3>4. QED
      BY <1>2, <1>6, <2>1, <3>2, <3>3
  <2> HIDE DEF n
  <2>5. w[n] = w[m]
    <3>1. CASE until[m] # 0
      BY <1>15, <2>1, <2>2, <3>1
    <3>2. CASE until[m] = 0 /\ m <= t
      BY <1>15, <2>1, <2>2, <2>4, <3>2
    <3>3. CASE until[m] = 0 /\ ~(m <= t)
      <4>1. m > t /\ n > t
        BY <1>2, <1>6, <2>1, <2>3, <3>3
      <4>2. QED
        BY <1>15, <2>1, <2>2, <3>3, <4>1
    <3>4. QED
      BY <3>1, <3>2, <3>3
  <2>6. QED
    BY <1>18, <2>1, <2>2, <2>5 DEF Linked, n
<1>26. ASSUME NEW m \in 1..N
       PROVE  Ended(g, ft, NULL, u, w, m)
  <2> SUFFICES ASSUME h[m].next = NULL
               PROVE  Ended(g, ft, NULL, u, w, m)
    BY <1>18 DEF Ended
  <2>1. /\ until[m] = 0 => \E i \in 0..K : FirstIn(fr, i) # NULL /\ m = LastIn(fr, i)
        /\ until[m] # 0 => until[m] = to[m] /\ Done(fr, NULL, m)
    BY <1>12 DEF Spelled, Ended
  <2>2. CASE until[m] # 0
    <3>1. m # t /\ w[m] = until[m] /\ u[m] = to[m] /\ Done(ft, NULL, m)
      BY <1>14, <1>15, <1>19, <1>22, <2>1, <2>2
    <3>2. QED
      BY <2>1, <2>2, <3>1 DEF Ended
  <2>3. CASE until[m] = 0
    <3>1. PICK i \in 0..K : FirstIn(fr, i) # NULL /\ m = LastIn(fr, i)
      BY <2>1, <2>3
    <3>2. CASE i \in 0..(K - 1)
      <4>1. m <= t
        BY <1>9, <3>1, <3>2
      <4>2. w[m] = 0
        BY <1>15, <2>3, <4>1
      <4>3. i \in 0..Len(ft) /\ FirstIn(ft, i) # NULL /\ m = LastIn(ft, i)
        BY <1>3, <1>8, <3>1, <3>2 DEF ft
      <4>4. QED
        BY <4>2, <4>3 DEF Ended
    <3>3. CASE i = K
      <4>1. top.head # NULL /\ m = top.last
        BY <1>7, <3>1, <3>3
      <4>2. m >= top.head
        <5>1. \A j \in 0..K : FirstIn(fr, j) # NULL => LastIn(fr, j) \in FirstIn(fr, j)..N
          BY <1>2, ListBounds
        <5>2. m \in top.head..N
          BY <1>6, <1>7, <4>1, <5>1
        <5>3. top.head \in Nat
          BY <1>4, <4>1
        <5>4. QED
          BY <1>2, <5>2, <5>3
      <4>3. m > t
        BY <1>4, <1>6, <4>1, <4>2 DEF t
      <4>4. w[m] = p /\ u[m] = p
        <5>1. m # t
          BY <1>6, <4>3
        <5>2. QED
          BY <1>14, <1>15, <2>3, <4>1, <4>3, <5>1
      <4>5. Done(ft, NULL, m)
        <5>1. \A j \in 1..(K - 1) : ft[j].item # m
          BY <1>5, <1>6, <1>10, <4>3 DEF t, ft
        <5>2. QED
          BY <1>3, <5>1 DEF Done, NULL, ft
      <4>6. p # 0
        <5>1. Begun(h, fr, ty, p, from, K)
          BY <1>21
        <5>2. ValueAt(h, from, t) \in Nat
          BY <1>3, <1>130 DEF ValueAt, t
        <5>3. ValueAt(h, from, t) + 1 <= p
          BY <5>1 DEF Begun, t
        <5>4. QED
          BY <1>13, <5>2, <5>3
      <4>7. QED
        BY <4>4, <4>5, <4>6 DEF Ended
    <3>4. QED
      BY <1>2, <3>2, <3>3
  <2>4. QED
    BY <2>2, <2>3
<1>27. ASSUME NEW i \in 1..Len(ft)
       PROVE  Begun(g, ft, ty, q, from, i)
  <2>1. i \in 1..(K - 1) /\ i \in 1..K
    BY <1>2, <1>3 DEF ft
  <2>2. Begun(h, fr, ty, q, from, i)
    BY <1>12, <2>1 DEF Spelled
  <2>3. ft[i] = fr[i] /\ fr[i].item \in 1..N
    BY <1>5, <1>10, <2>1 DEF ft
  <2>4. QED
    BY <1>17, <2>2, <2>3 DEF Begun
<1>28. ASSUME NEW i \in 0..Len(ft)
       PROVE  StillOpen(ft, w, i)
  <2>1. i \in 0..(K - 1) /\ i \in 0..K
    BY <1>2, <1>3 DEF ft
  <2>2. StillOpen(fr, until, i)
    BY <1>12, <2>1 DEF Spelled
  <2>3. FirstIn(ft, i) = FirstIn(fr, i) /\ LastIn(ft, i) = LastIn(fr, i)
    BY <1>8, <2>1 DEF ft
  <2>4. FirstIn(fr, i) # NULL => w[FirstIn(fr, i)] = until[FirstIn(fr, i)]
                                 /\ w[LastIn(fr, i)] = until[LastIn(fr, i)]
    BY <1>9, <1>15, <2>1 DEF t
  <2>5. QED
    BY <2>2, <2>3, <2>4 DEF StillOpen
<1>29. ASSUME NEW m \in 1..N, Done(ft, NULL, m)
       PROVE  Written(g, ty, from, u, w, m)
  BY <1>20, <1>24, <1>29
<1>30. Spelled(g, ft, NULL, ty, q, from, u, w)
  BY <1>16, <1>25, <1>26, <1>27, <1>28, <1>29 DEF Spelled
<1>31. QED
  BY <1>14, <1>30 DEF q, ft, t

-----------------------------------------------------------------------------
(* The steps of the parser and the text *)

\* What is known of the text while it is read.
LEMMA WhileSpelled ==
    ASSUME ParseInv, SpellInv, pc \in Reading
    PROVE  /\ text \in Seq(Tok) /\ pos \in Nat /\ pos <= Len(text) /\ Len(text) <= pos + 1
           /\ \E e : Tree(heap, e, frames, Len(heap))
           /\ Inside(heap, frames)
           /\ pc \in {"value", "name", "colon"} =>
                  /\ LastIn(frames, Len(frames)) = Len(heap) /\ FirstIn(frames, Len(frames)) # NULL
                  /\ Current = Len(heap)
           /\ frames # <<>> => Top = frames[Len(frames)]
           /\ heap \in Seq(Node) /\ frames \in Seq(Frame)
           /\ Len(heap) \in Nat /\ Len(heap) \in 1..Len(heap)
           /\ NULL \notin 1..Len(heap)
<1>1. PICK from, to, until : Spelled(heap, frames, Young(pc, heap), text, pos, from, to, until)
  BY DEF SpellInv
<1>2. text \in Seq(Tok) /\ pos \in Nat /\ pos <= Len(text) /\ Len(text) <= pos + 1
  BY <1>1 DEF Spelled, Placed
<1>3. PICK e : Tree(heap, e, frames, Len(heap))
  BY WhileReading
<1>4. Inside(heap, frames)
  BY <1>3, TreeInside
<1>5. /\ heap \in Seq(Node) /\ Len(heap) \in Nat /\ Len(heap) # 0 /\ Len(heap) \in 1..Len(heap)
      /\ frames \in Seq(Frame)
      /\ Current = LastIn(frames, Len(frames))
      /\ frames # <<>> => Top = frames[Len(frames)]
      /\ Current # NULL => FirstIn(frames, Len(frames)) # NULL
  BY WhileReading
<1>6. pc \in {"value", "name", "colon"} => Current = Len(heap) /\ Len(heap) # NULL
  BY <1>5 DEF ParseInv, NULL
<1>7. QED
  BY <1>2, <1>3, <1>4, <1>5, <1>6 DEF NULL

\* The text after one more token.
LEMMA TokenRead ==
    ASSUME ParseInv, SpellInv, pc \in Reading, NEW t, Peek(t)
    PROVE  OneToken(text, text', pos, t)
BY WhileSpelled, Peeked

\* The root, before anything is read.
LEMMA StartSpells ==
    ASSUME ParseInv, SpellInv, Start
    PROVE  SpellInv'
<1>1. pc = "start" /\ text = <<>> /\ pos = 0 /\ frames = <<>> /\ UNCHANGED <<text, pos, frames>>
  BY DEF Start, SpellInv, ParseInv
<1>2. CASE pc' = "refused"
  BY <1>2 DEF SpellInv, Reading
<1>3. CASE heap' = <<Blank>> /\ pc' = "value"
  <2> DEFINE z == [m \in 1..1 |-> 0]
             h == <<Blank>>
  <2>1. /\ Len(h) = 1 /\ h[1].next = NULL /\ h[1].child = NULL /\ h[1].string = FALSE
    BY DEF Blank
  <2>2. z[1] = 0 /\ z \in [1..1 -> 0..0] /\ 1..1 = {1} /\ Len(<<>>) = 0 /\ 1..0 = {} /\ 0..0 = {0}
        /\ 0 <= 0 /\ 0 <= 0 + 1
    OBVIOUS
  <2> HIDE DEF z, h
  <2>3. Placed(h, <<>>, 0, z, z, z)
    <3>1. <<>> \in Seq(Tok)
      OBVIOUS
    <3>2. QED
      BY <2>1, <2>2, <3>1 DEF Placed, Root
  <2>4. ~Done(<<>>, 1, 1)
    BY DEF Done
  <2>5. Linked(h, <<>>, z, z, z, 1)
    BY <2>1 DEF Linked
  <2>6. FirstIn(<<>>, 0) # NULL /\ 1 = LastIn(<<>>, 0) /\ FirstIn(<<>>, 0) = 1
    BY DEF FirstIn, LastIn, Root, NULL
  <2>7. Ended(h, <<>>, 1, z, z, 1)
    BY <2>2, <2>6 DEF Ended
  <2>8. StillOpen(<<>>, z, 0)
    BY <2>2, <2>6 DEF StillOpen
  <2>9. Spelled(h, <<>>, 1, <<>>, 0, z, z, z)
    BY <2>1, <2>2, <2>3, <2>4, <2>5, <2>7, <2>8 DEF Spelled
  <2>10. Stands(h, <<>>, <<>>, 0, "value", z, z)
    BY <2>1, <2>2 DEF Stands, ValueAt, Labelled
  <2>11. Young("value", h) = 1
    BY <2>1 DEF Young
  <2>12. Spelled(h, <<>>, Young("value", h), <<>>, 0, z, z, z)
    BY <2>9, <2>11
  <2>13. heap' = h /\ frames' = <<>> /\ text' = <<>> /\ pos' = 0
    BY <1>1, <1>3 DEF h
  <2>14. QED
    BY <1>3, <2>10, <2>12, <2>13 DEF SpellInv
<1>4. QED
  BY <1>2, <1>3 DEF Start

\* A failure.
LEMMA FailSpells ==
    ASSUME pc' \notin Reading \union {"start"}
    PROVE  SpellInv'
BY DEF SpellInv

\* A literal, a number or a string.
LEMMA ValueSpells ==
    ASSUME ParseInv, SpellInv, pc = "value", NEW t, Consume(t), pc' = Returned, frames' = frames,
           Len(heap') = Len(heap), \A m \in 1..Len(heap) : m # Len(heap) => heap'[m] = heap[m],
           heap'[Len(heap)].string = heap[Len(heap)].string,
           heap'[Len(heap)].child = heap[Len(heap)].child,
           heap'[Len(heap)].next = heap[Len(heap)].next,
           \/ t = "v" /\ heap'[Len(heap)].type = "Value"
           \/ t = "s" /\ heap'[Len(heap)].type = "String"
    PROVE  SpellInv'
<1>0. pc \in Reading
  BY DEF Reading
<1>1. PICK from, to, until : /\ Spelled(heap, frames, Young(pc, heap), text, pos, from, to, until)
                             /\ Stands(heap, frames, text, pos, pc, from, to)
  BY <1>0 DEF SpellInv
<1>2. Young(pc, heap) = Len(heap) /\ pos = ValueAt(heap, from, Len(heap))
      /\ Labelled(heap, text, from, Len(heap))
  BY <1>1 DEF Young, Stands
<1>3. /\ \E e : Tree(heap, e, frames, Len(heap))
      /\ LastIn(frames, Len(frames)) = Len(heap) /\ FirstIn(frames, Len(frames)) # NULL
      /\ Inside(heap, frames) /\ pos \in Nat
  BY <1>0, WhileSpelled
<1>4. OneToken(text, text', pos, t) /\ pos' = pos + 1
  BY <1>0, TokenRead DEF Consume
<1>5. PICK e : Tree(heap, e, frames, Len(heap))
  BY <1>3
<1>6. PICK u : /\ Spelled(heap', frames, NULL, text', pos + 1, from, u, until)
               /\ u[Len(heap)] = pos + 1
  BY <1>1, <1>2, <1>3, <1>4, <1>5, ValueSpelled
<1>7. pc' \in {"accepted", "after"} /\ (pc' = "accepted" <=> frames = <<>>)
  BY DEF Returned
<1>8. Young(pc', heap') = NULL
  BY <1>7 DEF Young
<1>9. Stands(heap', frames, text', pos + 1, pc', from, u)
  <2>1. pc' = "after" => pos + 1 = u[frames[Len(frames)].last]
    <3> SUFFICES ASSUME frames # <<>>
                 PROVE  pos + 1 = u[frames[Len(frames)].last]
      BY <1>7
    <3>1. Len(frames) # 0
      <4>1. frames \in Seq(Frame)
        BY <1>0, WhileSpelled
      <4>2. QED
        BY <4>1
    <3>2. frames[Len(frames)].last = Len(heap)
      BY <1>3, <3>1 DEF LastIn
    <3>3. QED
      BY <1>6, <3>2
  <2>2. pc' = "accepted" => pos + 1 = u[Root] /\ Len(text') = pos + 1
    <3> SUFFICES ASSUME frames = <<>>
                 PROVE  pos + 1 = u[Root] /\ Len(text') = pos + 1
      BY <1>7
    <3>1. Root = Len(heap)
      BY <1>3 DEF LastIn
    <3>2. QED
      BY <1>4, <1>6, <3>1 DEF OneToken
  <2>3. QED
    BY <1>7, <2>1, <2>2 DEF Stands
<1>10. Spelled(heap', frames', Young(pc', heap'), text', pos', from, u, until)
  BY <1>4, <1>6, <1>8
<1>11. Stands(heap', frames', text', pos', pc', from, u)
  BY <1>4, <1>9
<1>12. pc' # "start"
  BY <1>7
<1>13. QED
  BY <1>10, <1>11, <1>12 DEF SpellInv

\* A literal or a number.
LEMMA ScalarSpells ==
    ASSUME ParseInv, SpellInv, Scalar
    PROVE  SpellInv'
<1> DEFINE N == Len(heap)
<1>1. pc = "value" /\ Consume("v") /\ pc' = Returned /\ frames' = frames /\ pc \in Reading
      /\ heap' = [heap EXCEPT ![Current].type = "Value"]
  BY DEF Scalar, Reading
<1>2. Current = N /\ heap \in Seq(Node) /\ N \in 1..N /\ N \in Nat
  BY <1>1, WhileSpelled
<1>3. heap[N] \in Node
  BY <1>2
<1>4. Len(heap') = N /\ \A m \in 1..N : m # N => heap'[m] = heap[m]
  BY <1>1, <1>2
<1>5. heap'[N] = [heap[N] EXCEPT !.type = "Value"]
  BY <1>1, <1>2
<1>6. /\ heap'[N].string = heap[N].string /\ heap'[N].child = heap[N].child
      /\ heap'[N].next = heap[N].next /\ heap'[N].type = "Value"
  BY <1>3, <1>5 DEF Node
<1>7. QED
  BY <1>1, <1>4, <1>6, ValueSpells

\* A string, or no memory for it.
LEMMA StringSpells ==
    ASSUME ParseInv, SpellInv, StringValue
    PROVE  SpellInv'
<1> DEFINE N == Len(heap)
<1>1. pc = "value" /\ frames' = frames /\ pc \in Reading
  BY DEF StringValue, Reading
<1>2. CASE Fail("memory")
  BY <1>2, FailSpells DEF Fail, Reading
<1>3. CASE /\ Consume("s") /\ pc' = Returned
           /\ heap' = [heap EXCEPT ![Current].type = "String", ![Current].valuestring = TRUE]
  <2>2. Current = N /\ heap \in Seq(Node) /\ N \in 1..N /\ N \in Nat
    BY <1>1, WhileSpelled
  <2>3. heap[N] \in Node
    BY <2>2
  <2> DEFINE x == [heap[N] EXCEPT !.type = "String", !.valuestring = TRUE]
  <2>4. heap' = [heap EXCEPT ![N] = x]
    BY <1>3, <2>2, <2>3
  <2>5. x.string = heap[N].string /\ x.child = heap[N].child /\ x.next = heap[N].next /\ x.type = "String"
    BY <2>3 DEF Node
  <2> HIDE DEF x
  <2>6. Len(heap') = N /\ heap'[N] = x /\ \A m \in 1..N : m # N => heap'[m] = heap[m]
    BY <2>2, <2>4
  <2>7. QED
    BY <1>1, <1>3, <2>5, <2>6, ValueSpells
<1>4. QED
  BY <1>2, <1>3 DEF StringValue

\* A name, which a list of an object expects, or anything else.
LEMMA NameSpells ==
    ASSUME ParseInv, SpellInv, Name
    PROVE  SpellInv'
<1> DEFINE N == Len(heap)
<1>1. pc = "name" /\ frames' = frames /\ pc \in Reading
  BY DEF Name, Reading
<1>2. CASE Fail("memory") \/ Fail("syntax")
  BY <1>2, FailSpells DEF Fail, Reading
<1>3. CASE /\ Consume("s") /\ pc' = "colon"
           /\ heap' = [heap EXCEPT ![Current].type = "String", ![Current].string = TRUE]
  <2>1. /\ Current = N /\ heap \in Seq(Node) /\ N \in 1..N /\ N \in Nat /\ pos \in Nat
        /\ \E e : Tree(heap, e, frames, Len(heap))
        /\ LastIn(frames, Len(frames)) = Len(heap) /\ FirstIn(frames, Len(frames)) # NULL
    BY <1>1, WhileSpelled
  <2>2. PICK from, to, until : /\ Spelled(heap, frames, Young(pc, heap), text, pos, from, to, until)
                               /\ Stands(heap, frames, text, pos, pc, from, to)
    BY <1>1 DEF SpellInv
  <2>3. heap[N] \in Node
    BY <2>1
  <2> DEFINE x == [heap[N] EXCEPT !.type = "String", !.string = TRUE]
  <2>4. heap' = [heap EXCEPT ![N] = x]
    BY <1>3, <2>1, <2>3
  <2>5. x.string /\ x.child = heap[N].child /\ x.next = heap[N].next
    BY <2>3 DEF Node
  <2> HIDE DEF x
  <2>6. Len(heap') = N /\ heap'[N] = x /\ \A m \in 1..N : m # N => heap'[m] = heap[m]
    BY <2>1, <2>4
  <2>7. Young(pc, heap) = N /\ pos = from[N] /\ Young(pc', heap') = N
    BY <1>1, <1>3, <2>2, <2>6 DEF Young, Stands
  <2>8. OneToken(text, text', pos, "s") /\ pos' = pos + 1
    BY <1>1, <1>3, TokenRead DEF Consume
  <2>9. PICK e : Tree(heap, e, frames, Len(heap))
    BY <2>1
  <2>10. Spelled(heap', frames, N, text', pos + 1, from, to, until)
    BY <2>1, <2>2, <2>5, <2>6, <2>7, <2>8, <2>9, NameSpelled
  <2>11. Stands(heap', frames, text', pos + 1, "colon", from, to)
    BY <2>1, <2>5, <2>6, <2>7, <2>8 DEF Stands, OneToken
  <2>12. /\ Spelled(heap', frames', Young(pc', heap'), text', pos', from, to, until)
         /\ Stands(heap', frames', text', pos', pc', from, to)
    BY <1>1, <1>3, <2>7, <2>8, <2>10, <2>11
  <2>13. QED
    BY <1>3, <2>12 DEF SpellInv
<1>4. QED
  BY <1>2, <1>3 DEF Name

\* The colon behind a name.
LEMMA ColonSpells ==
    ASSUME ParseInv, SpellInv, Colon
    PROVE  SpellInv'
<1> DEFINE N == Len(heap)
<1>1. pc = "colon" /\ frames' = frames /\ heap' = heap /\ pc \in Reading
  BY DEF Colon, Reading
<1>2. CASE Fail("syntax")
  BY <1>2, FailSpells DEF Fail, Reading
<1>3. CASE Consume(":") /\ pc' = "value"
  <2>1. N \in 1..N /\ N \in Nat /\ Inside(heap, frames)
    BY <1>1, WhileSpelled
  <2>2. PICK from, to, until : /\ Spelled(heap, frames, Young(pc, heap), text, pos, from, to, until)
                               /\ Stands(heap, frames, text, pos, pc, from, to)
    BY <1>1 DEF SpellInv
  <2>3. Young(pc, heap) = N /\ Young(pc', heap') = N
        /\ pos = from[N] + 1 /\ text[pos] = "s" /\ heap[N].string
    BY <1>1, <1>3, <2>2 DEF Young, Stands
  <2>4. OneToken(text, text', pos, ":") /\ pos' = pos + 1
    BY <1>1, <1>3, TokenRead DEF Consume
  <2>5. Spelled(heap, frames, N, text', pos + 1, from, to, until)
    BY <2>1, <2>2, <2>3, <2>4, ReadToken
  <2>6. pos + 1 = ValueAt(heap, from, N) /\ Labelled(heap, text', from, N)
    <3>0. from \in [1..N -> 0..pos] /\ pos \in Nat
      BY <2>2 DEF Spelled, Placed
    <3>1. from[N] \in Nat
      BY <2>1, <3>0
    <3>2. QED
      BY <2>3, <2>4, <3>1, ColonSpelled
  <2>7. Stands(heap, frames, text', pos + 1, "value", from, to)
    BY <2>6 DEF Stands
  <2>8. /\ Spelled(heap', frames', Young(pc', heap'), text', pos', from, to, until)
        /\ Stands(heap', frames', text', pos', pc', from, to)
    BY <1>1, <1>3, <2>3, <2>4, <2>5, <2>7
  <2>9. QED
    BY <1>3, <2>8 DEF SpellInv
<1>4. QED
  BY <1>2, <1>3 DEF Colon

\* A list is opened, or lies too deep.
LEMMA OpenSpells ==
    ASSUME ParseInv, SpellInv, NEW k \in {"Array", "Object"}, OpenList(k)
    PROVE  SpellInv'
<1> DEFINE N == Len(heap)
<1>1. pc = "value" /\ heap' = heap /\ pc \in Reading
  BY DEF OpenList, Reading
<1>2. CASE Fail("depth")
  BY <1>2, FailSpells DEF Fail, Reading
<1>3. CASE /\ Consume(IF k = "Array" THEN "[" ELSE "{") /\ pc' = "first"
           /\ frames' = Append(frames, [item |-> Current, kind |-> k, head |-> NULL, last |-> NULL])
  <2>1. /\ Current = N /\ N \in 1..N /\ N \in Nat /\ Inside(heap, frames) /\ frames \in Seq(Frame)
        /\ pos \in Nat
    BY <1>1, WhileSpelled
  <2>2. PICK from, to, until : /\ Spelled(heap, frames, Young(pc, heap), text, pos, from, to, until)
                               /\ Stands(heap, frames, text, pos, pc, from, to)
    BY <1>1 DEF SpellInv
  <2>3. Young(pc, heap) = N /\ Young(pc', heap') = NULL
        /\ pos = ValueAt(heap, from, N) /\ Labelled(heap, text, from, N)
    BY <1>1, <1>3, <2>2 DEF Young, Stands
  <2>4. OneToken(text, text', pos, Opener(k)) /\ pos' = pos + 1
    BY <1>1, <1>3, TokenRead DEF Consume, Opener
  <2>5. frames' = Append(frames, [item |-> N, kind |-> k, head |-> NULL, last |-> NULL])
    BY <1>3, <2>1
  <2>55. /\ Spelled(heap, frames, Len(heap), text, pos, from, to, until)
         /\ Stands(heap, frames, text, pos, "value", from, to)
    BY <1>1, <2>2, <2>3
  <2>56. /\ OneToken(text, text', pos, Opener(k))
         /\ Len(heap) \in 1..Len(heap) /\ Inside(heap, frames) /\ frames \in Seq(Frame)
    BY <2>1, <2>4
  <2>6. /\ Spelled(heap, frames', NULL, text', pos + 1, from, to, until)
    BY <2>5, <2>55, <2>56, OpenSpelled
  <2>61. frames'[Len(frames')].head = NULL /\ frames'[Len(frames')].item = N
    <3> DEFINE x == [item |-> N, kind |-> k, head |-> NULL, last |-> NULL]
    <3>1. x \in Frame /\ x.head = NULL /\ x.item = N
      BY <2>1 DEF Frame, NULL
    <3> HIDE DEF x
    <3>2. frames' = Append(frames, x)
      BY <2>5 DEF x
    <3>3. frames'[Len(frames')] = x
      BY <2>56, <3>1, <3>2
    <3>4. QED
      BY <3>1, <3>3
  <2>7. Stands(heap, frames', text', pos + 1, "first", from, to)
    BY <2>3, <2>61 DEF Stands, Behind
  <2>8. /\ Spelled(heap', frames', Young(pc', heap'), text', pos', from, to, until)
        /\ Stands(heap', frames', text', pos', pc', from, to)
    BY <1>1, <1>3, <2>3, <2>4, <2>6, <2>7
  <2>9. QED
    BY <1>3, <2>8 DEF SpellInv
<1>4. QED
  BY <1>2, <1>3 DEF OpenList

\* A look that finds no end of the list.
LEMMA NotClosedSpells ==
    ASSUME ParseInv, SpellInv, NotClosed
    PROVE  SpellInv'
<1>1. /\ pc = "first" /\ pc' = "element" /\ pos' = pos /\ frames' = frames /\ heap' = heap
      /\ pc \in Reading
  BY DEF NotClosed, Reading
<1>2. PICK t \in Tok : Peek(t)
  BY DEF NotClosed
<1>3. PICK from, to, until : /\ Spelled(heap, frames, Young(pc, heap), text, pos, from, to, until)
                             /\ Stands(heap, frames, text, pos, pc, from, to)
  BY <1>1 DEF SpellInv
<1>4. frames # <<>> /\ Top = frames[Len(frames)] /\ Inside(heap, frames) /\ Top.head = NULL
  BY <1>1, WhileSpelled DEF ParseInv
<1>5. OneToken(text, text', pos, t)
  BY <1>1, <1>2, TokenRead
<1>6. Young(pc, heap) = NULL /\ Young(pc', heap') = NULL
  BY <1>1 DEF Young
<1>7. Spelled(heap, frames, NULL, text', pos, from, to, until)
  BY <1>3, <1>4, <1>5, <1>6, ReadToken
<1>8. Behind(heap, frames, text, pos, from, to)
  BY <1>1, <1>3 DEF Stands
<1>9. Behind(heap, frames, text', pos, from, to)
  BY <1>4, <1>8 DEF Behind
<1>10. Stands(heap, frames, text', pos, "element", from, to)
  BY <1>9 DEF Stands
<1>11. /\ Spelled(heap', frames', Young(pc', heap'), text', pos', from, to, until)
       /\ Stands(heap', frames', text', pos', pc', from, to)
  BY <1>1, <1>6, <1>7, <1>10
<1>12. QED
  BY <1>1, <1>11 DEF SpellInv

\* A comma behind an element.
LEMMA CommaSpells ==
    ASSUME ParseInv, SpellInv, Comma
    PROVE  SpellInv'
<1>1. pc = "after" /\ frames' = frames /\ heap' = heap /\ pc \in Reading
  BY DEF Comma, Reading
<1>2. CASE Fail("syntax")
  BY <1>2, FailSpells DEF Fail, Reading
<1>3. CASE Consume(",") /\ pc' = "element"
  <2>1. PICK from, to, until : /\ Spelled(heap, frames, Young(pc, heap), text, pos, from, to, until)
                               /\ Stands(heap, frames, text, pos, pc, from, to)
    BY <1>1 DEF SpellInv
  <2>2. /\ frames # <<>> /\ Top = frames[Len(frames)] /\ Inside(heap, frames) /\ Top.head # NULL
        /\ pos \in Nat
    BY <1>1, WhileSpelled DEF ParseInv
  <2>3. OneToken(text, text', pos, ",") /\ pos' = pos + 1
    BY <1>1, <1>3, TokenRead DEF Consume
  <2>4. Young(pc, heap) = NULL /\ Young(pc', heap') = NULL
    BY <1>1, <1>3 DEF Young
  <2>5. Spelled(heap, frames, NULL, text', pos + 1, from, to, until)
    BY <2>1, <2>2, <2>3, <2>4, ReadToken
  <2>6. pos = to[frames[Len(frames)].last]
    BY <1>1, <2>1 DEF Stands
  <2>7. text'[pos + 1] = ","
    BY <2>3 DEF OneToken
  <2>8. Behind(heap, frames, text', pos + 1, from, to)
    BY <2>2, <2>6, <2>7 DEF Behind
  <2>9. Stands(heap, frames, text', pos + 1, "element", from, to)
    BY <2>8 DEF Stands
  <2>10. /\ Spelled(heap', frames', Young(pc', heap'), text', pos', from, to, until)
         /\ Stands(heap', frames', text', pos', pc', from, to)
    BY <1>1, <1>3, <2>3, <2>4, <2>5, <2>9
  <2>11. QED
    BY <1>3, <2>10 DEF SpellInv
<1>4. QED
  BY <1>2, <1>3 DEF Comma

\* A new item.
LEMMA ElementSpells ==
    ASSUME ParseInv, SpellInv, Element
    PROVE  SpellInv'
<1> DEFINE N == Len(heap)
<1>1. pc = "element" /\ pc \in Reading /\ text' = text /\ pos' = pos
  BY DEF Element, Reading
<1>2. CASE pc' = "fail"
  BY <1>2, FailSpells DEF Reading
<1>3. CASE pc' # "fail"
  <2>1. /\ Lengthened(heap, heap', LastIn(frames, Len(frames)))
        /\ \A m \in 1..N : heap'[m].type = heap[m].type /\ heap'[m].string = heap[m].string
        /\ ~heap'[N + 1].string
        /\ frames' = NextItem(frames, N + 1)
        /\ LastIn(frames, Len(frames)) = frames[Len(frames)].last
        /\ pc' \in {"value", "name"}
    BY <1>3, ElementAdded
  <2>2. Len(heap') = N + 1
    BY <2>1 DEF Lengthened
  <2>3. Lengthened(heap, heap', frames[Len(frames)].last)
    BY <2>1
  <2>4. PICK from, to, until : /\ Spelled(heap, frames, Young(pc, heap), text, pos, from, to, until)
                               /\ Stands(heap, frames, text, pos, pc, from, to)
    BY <1>1 DEF SpellInv
  <2>5. Young(pc, heap) = NULL /\ Behind(heap, frames, text, pos, from, to)
    BY <1>1, <2>4 DEF Young, Stands
  <2>6. frames # <<>>
    BY <1>1 DEF ParseInv
  <2>7. PICK e : Tree(heap, e, frames, Len(heap))
    BY <1>1, WhileSpelled
  <2>8. Spelled(heap, frames, NULL, text, pos, from, to, until)
    BY <2>4, <2>5
  <2>9. PICK f, u, w : /\ Spelled(heap', NextItem(frames, Len(heap) + 1), Len(heap) + 1, text, pos, f, u, w)
                       /\ f[Len(heap) + 1] = pos
    BY <2>1, <2>3, <2>5, <2>6, <2>7, <2>8, ElementSpelled
  <2>10. Young(pc', heap') = N + 1
    BY <2>1, <2>2 DEF Young
  <2>11. /\ pos = ValueAt(heap', f, N + 1) /\ Labelled(heap', text, f, N + 1)
    BY <2>1, <2>9 DEF ValueAt, Labelled
  <2>12. Stands(heap', frames', text', pos', pc', f, u)
    BY <1>1, <2>1, <2>2, <2>9, <2>11 DEF Stands
  <2>13. Spelled(heap', frames', Young(pc', heap'), text', pos', f, u, w)
    BY <1>1, <2>1, <2>9, <2>10
  <2>14. QED
    BY <2>1, <2>12, <2>13 DEF SpellInv
<1>4. QED
  BY <1>2, <1>3

\* A list is complete.
LEMMA CloseSpells ==
    ASSUME ParseInv, SpellInv, CloseList
    PROVE  SpellInv'
<1> DEFINE N == Len(heap)
           K == Len(frames)
<1>1. /\ pc \in {"first", "after"} /\ pc \in Reading /\ frames' = Front(frames)
      /\ Consume(Close[Top.kind])
      /\ pc' = IF Len(frames) = 1 THEN "accepted" ELSE "after"
  BY DEF CloseList, Reading
<1>2. PICK from, to, until : /\ Spelled(heap, frames, Young(pc, heap), text, pos, from, to, until)
                             /\ Stands(heap, frames, text, pos, pc, from, to)
  BY <1>1 DEF SpellInv
<1>3. /\ frames # <<>> /\ Top = frames[K] /\ pos \in Nat
      /\ pc = "first" => Top.head = NULL
      /\ pc = "after" => Top.head # NULL
  BY <1>1, WhileSpelled DEF ParseInv
<1>4. PICK e : Tree(heap, e, frames, Len(heap))
  BY <1>1, WhileSpelled
<1>5. OneToken(text, text', pos, Close[Top.kind]) /\ pos' = pos + 1
  BY <1>1, TokenRead DEF Consume
<1>6. Young(pc, heap) = NULL /\ Young(pc', heap') = NULL
  BY <1>1 DEF Young
<1>7. /\ Top.head = NULL => pos = ValueAt(heap, from, Top.item) + 1
      /\ Top.head # NULL => pos = to[Top.last]
  BY <1>1, <1>2, <1>3 DEF Stands, Behind
<1>8. /\ Len(heap') = Len(heap)
      /\ \A m \in 1..Len(heap) :
            /\ heap'[m].next = heap[m].next /\ heap'[m].string = heap[m].string
            /\ heap'[m].child = IF m = Top.item THEN Top.head ELSE heap[m].child
            /\ heap'[m].type = IF m = Top.item THEN Top.kind ELSE heap[m].type
  BY ListTaken
<1>9. PICK u, w : /\ Spelled(heap', Front(frames), NULL, text', pos + 1, from, u, w)
                  /\ u[Top.item] = pos + 1
  <2>1. Spelled(heap, frames, NULL, text, pos, from, to, until)
    BY <1>2, <1>6
  <2> DEFINE g == heap'
             ty == text'
             fr == frames
             top == Top
  <2>2. /\ Tree(heap, e, fr, Len(heap)) /\ fr # <<>> /\ top = fr[Len(fr)]
        /\ Spelled(heap, fr, NULL, text, pos, from, to, until)
        /\ OneToken(text, ty, pos, Close[top.kind])
    BY <2>1, <1>3, <1>4, <1>5
  <2>3. Complete(heap, top, pos, from, to) /\ Taken(heap, g, top)
    BY <1>7, <1>8 DEF Complete, Taken
  <2> HIDE DEF g, ty, fr, top
  <2>4. \E u, w : /\ Spelled(g, Front(fr), NULL, ty, pos + 1, from, u, w)
                  /\ u[top.item] = pos + 1
    <3>1. /\ Tree(heap, e, fr, Len(heap)) /\ fr # <<>>
          /\ Spelled(heap, fr, NULL, text, pos, from, to, until)
          /\ top = fr[Len(fr)] /\ Complete(heap, top, pos, from, to)
          /\ Taken(heap, g, top)
          /\ OneToken(text, ty, pos, Close[top.kind])
      BY <2>2, <2>3
    <3>2. QED
      BY ONLY <3>1, CloseSpelled
  <2>5. QED
    BY <2>4 DEF g, ty, fr, top
<1>10. Spelled(heap', frames', Young(pc', heap'), text', pos', from, u, w)
  BY <1>1, <1>5, <1>6, <1>9
<1>11. LastIn(Front(frames), Len(Front(frames))) = Top.item /\ Len(Front(frames)) = K - 1 /\ K \in Nat
       /\ K \in 1..K
  BY <1>3, <1>4, Innermost
<1>12. CASE K = 1
  <2>1. pc' = "accepted" /\ Top.item = Root
    <3>1. Len(Front(frames)) = 0
      BY <1>11, <1>12
    <3>2. QED
      BY <1>1, <1>11, <1>12, <3>1 DEF LastIn
  <2>2. Len(text') = pos + 1
    BY <1>5 DEF OneToken
  <2>3. Stands(heap', frames', text', pos', pc', from, u)
    BY <1>5, <1>9, <2>1, <2>2 DEF Stands
  <2>4. QED
    BY <1>10, <2>1, <2>3 DEF SpellInv
<1>13. CASE K # 1
  <2>1. pc' = "after"
    BY <1>1, <1>13
  <2>2. Front(frames)[Len(Front(frames))].last = Top.item
    <3>1. Len(Front(frames)) # 0
      BY <1>11, <1>13
    <3>2. QED
      BY <1>11, <3>1 DEF LastIn
  <2>3. Stands(heap', frames', text', pos', pc', from, u)
    BY <1>1, <1>5, <1>9, <2>1, <2>2 DEF Stands
  <2>4. QED
    BY <1>10, <2>1, <2>3 DEF SpellInv
<1>14. QED
  BY <1>12, <1>13

\* Every step of the parser.
LEMMA SpellKeeps ==
    ASSUME ParseInv, SpellInv, [ParseNext]_parseVars
    PROVE  SpellInv'
<1>1. CASE UNCHANGED parseVars
  <2>1. UNCHANGED <<pc, heap, frames, text, pos>>
    BY <1>1 DEF parseVars
  <2>2. \A from, to, until :
            /\ Spelled(heap, frames, Young(pc, heap), text, pos, from, to, until)' =
               Spelled(heap, frames, Young(pc, heap), text, pos, from, to, until)
            /\ Stands(heap, frames, text, pos, pc, from, to)' =
               Stands(heap, frames, text, pos, pc, from, to)
    BY <2>1
  <2>3. QED
    BY <2>1, <2>2 DEF SpellInv
<1>2. CASE NoValue
  BY <1>2, FailSpells DEF NoValue, Fail, Reading
<1>3. CASE Unwind
  <2>1. pc = "fail" /\ (pc' = "refused" \/ pc' = pc)
    BY <1>3 DEF Unwind
  <2>2. QED
    BY <2>1, FailSpells DEF Reading
<1>4. CASE DeleteRoot
  BY <1>4, FailSpells DEF DeleteRoot, Reading
<1>5. CASE \E k \in {"Array", "Object"} : OpenList(k)
  BY <1>5, OpenSpells
<1>6. QED
  BY <1>1, <1>2, <1>3, <1>4, <1>5, StartSpells, ScalarSpells, StringSpells, NameSpells, ColonSpells,
     NotClosedSpells, CommaSpells, ElementSpells, CloseSpells DEF ParseNext

-----------------------------------------------------------------------------
(* What is printed of a tree *)

\* A piece that asks for its characters and a zero.
LEMMA PieceFits ==
    ASSUME NEW token \in Tok \union {NoToken}, NEW n \in Nat,
           NEW p, \E zero \in BOOLEAN : p = Piece(token, n, n + 1, zero)
    PROVE  p \in Fitting /\ p.token = token
<1>1. PICK zero \in BOOLEAN : p = Piece(token, n, n + 1, zero)
  OBVIOUS
<1> DEFINE k == n + 1
<1>0. k \in Nat /\ n <= k /\ k <= n + 1
  OBVIOUS
<1>2. p = [token |-> token, chars |-> n, needed |-> k, zero |-> zero]
  BY <1>1 DEF Piece
<1> HIDE DEF k
<1>3. p \in [token : Tok \union {NoToken}, chars : Nat, needed : Nat, zero : BOOLEAN]
  BY <1>0, <1>2
<1>4. p.chars = n /\ p.needed = k /\ p.token = token
  BY <1>2
<1>5. QED
  BY <1>0, <1>3, <1>4 DEF Fitting

\* A length with a space or a line break.
LEMMA PlusIsNumber ==
    ASSUME NEW format, NEW n \in Nat
    PROVE  plus(format, n) \in Nat
<1>1. CASE format
  BY <1>1 DEF plus
<1>2. CASE ~format
  BY <1>2 DEF plus
<1>3. QED
  BY <1>1, <1>2

\* A name in front of a value.
LEMMA LabelSpells ==
    ASSUME NEW node \in Node, NEW format, NEW depth \in Nat, NEW tx, NEW a \in Nat,
           node.string => tx[a + 1] = "s" /\ tx[a + 2] = ":"
    PROVE  Spells(Label(node, format, depth), tx, a, IF node.string THEN a + 2 ELSE a)
<1> DEFINE tab == Piece(NoToken, depth, depth, FALSE)
           colon == Piece(":", plus(format, 1), plus(format, 1), FALSE)
<1>1. tab \in Fitting /\ tab.token = NoToken
  BY DEF Piece, Fitting
<1>2. quoted \in Fitting /\ quoted.token = "s" /\ quoted.token # NoToken
  BY SizesAssumption DEF quoted, Piece, Fitting, Tok, NoToken
<1>3. colon \in Fitting /\ colon.token = ":" /\ colon.token # NoToken
  BY DEF Piece, Fitting, Tok, NoToken, plus
<1>4. Label(node, format, depth) =
          IF node.string THEN (IF format THEN <<tab>> ELSE <<>>) \o <<quoted, colon>> ELSE <<>>
  BY DEF Label
<1> HIDE DEF tab, colon
<1>5. CASE ~node.string
  BY <1>4, <1>5, SpellsNone
<1>6. CASE node.string
  <2>1. Spells(IF format THEN <<tab>> ELSE <<>>, tx, a, a)
    BY <1>1, SpellsNone, SpellsBlank
  <2>2. Spells(<<quoted>>, tx, a, a + 1)
    BY <1>2, <1>6, SpellsToken
  <2>3. Spells(<<colon>>, tx, a + 1, a + 2)
    <3>1. a + 1 \in Nat /\ (a + 1) + 1 = a + 2
      OBVIOUS
    <3>2. Spells(<<colon>>, tx, a + 1, (a + 1) + 1)
      BY <1>3, <1>6, <3>1, SpellsToken
    <3>3. QED
      BY <3>1, <3>2
  <2>4. <<quoted, colon>> = <<quoted>> \o <<colon>>
    OBVIOUS
  <2>5. Spells(<<quoted, colon>>, tx, a, a + 2)
    BY <2>2, <2>3, <2>4, SpellsJoined
  <2>6. QED
    BY <1>4, <1>6, <2>1, <2>5, SpellsJoined
<1>7. QED
  BY <1>5, <1>6

\* The bracket that opens a list.
LEMMA OpeningSpells ==
    ASSUME NEW node, node.type \in {"Array", "Object"}, NEW format, NEW tx, NEW a \in Nat,
           tx[a + 1] = Opener(node.type)
    PROVE  Spells(Opening(node, format), tx, a, a + 1)
<1> DEFINE open == IF node.type = "Array" THEN Piece("[", 1, 1, FALSE)
                   ELSE Piece("{", plus(format, 1), plus(format, 1) + 1, FALSE)
<1>1. open \in Fitting /\ open.token = Opener(node.type) /\ open.token # NoToken
  <2>1. CASE node.type = "Array"
    BY <2>1 DEF Piece, Fitting, Tok, NoToken, Opener
  <2>2. CASE node.type = "Object"
    <3> DEFINE n == plus(format, 1)
    <3>1. open = Piece("{", n, n + 1, FALSE)
      BY <2>2
    <3>2. n \in Nat /\ "{" \in Tok \union {NoToken}
      BY PlusIsNumber DEF Tok
    <3> HIDE DEF n, open
    <3>3. \E zero \in BOOLEAN : open = Piece("{", n, n + 1, zero)
      BY <3>1
    <3>4. open \in Fitting /\ open.token = "{"
      BY <3>2, <3>3, PieceFits
    <3>5. QED
      BY <2>2, <3>4 DEF Opener, NoToken
  <2>3. QED
    BY <2>1, <2>2
<1>2. Opening(node, format) = <<open>>
  BY DEF Opening
<1> HIDE DEF open
<1>3. QED
  BY <1>1, <1>2, SpellsToken

\* The bracket that closes a list.
LEMMA ClosingSpells ==
    ASSUME NEW node, node.type \in {"Array", "Object"}, NEW format, NEW depth \in Nat,
           NEW tx, NEW a \in Nat, tx[a + 1] = Close[node.type]
    PROVE  Spells(Closing(node, format, depth), tx, a, a + 1)
<1> DEFINE tabs == IF format THEN depth ELSE 0
           close == IF node.type = "Array" THEN Piece("]", 1, 2, TRUE)
                    ELSE Piece("}", tabs + 1, tabs + 2, TRUE)
<1>1. tabs \in Nat
  OBVIOUS
<1>2. Closing(node, format, depth) = <<close>>
  BY DEF Closing
<1> HIDE DEF tabs
<1>3. close \in Fitting /\ close.token = Close[node.type] /\ close.token # NoToken
  <2>1. CASE node.type = "Array"
    BY <2>1 DEF Piece, Fitting, Tok, NoToken, Close
  <2>2. CASE node.type = "Object"
    <3>1. close = Piece("}", tabs + 1, (tabs + 1) + 1, TRUE)
      BY <1>1, <2>2
    <3>2. tabs + 1 \in Nat /\ "}" \in Tok \union {NoToken}
      BY <1>1 DEF Tok
    <3> HIDE DEF close
    <3>3. \E zero \in BOOLEAN : close = Piece("}", tabs + 1, (tabs + 1) + 1, zero)
      BY <3>1
    <3>4. close \in Fitting /\ close.token = "}"
      BY <3>2, <3>3, PieceFits
    <3>5. Close["Object"] = "}"
      BY DEF Close
    <3>6. QED
      BY <2>2, <3>4, <3>5 DEF NoToken
  <2>3. QED
    BY <2>1, <2>2
<1> HIDE DEF close
<1>4. QED
  BY <1>2, <1>3, SpellsToken

\* What separates an element from the next.
LEMMA BetweenSpells ==
    ASSUME NEW node \in Node, NEW format, NEW tx, NEW a \in Nat,
           node.next # NULL => tx[a + 1] = ","
    PROVE  Spells(Between(node, format), tx, a, IF node.next = NULL THEN a ELSE a + 1)
<1> DEFINE token == IF node.next = NULL THEN NoToken ELSE ","
           length == plus(format, IF node.next = NULL THEN 0 ELSE 1)
           piece == Piece(token, length, length + 1, TRUE)
<1>1. length \in Nat
  <2> DEFINE n == IF node.next = NULL THEN 0 ELSE 1
  <2>1. n \in Nat
    OBVIOUS
  <2> HIDE DEF n
  <2>2. plus(format, n) \in Nat
    BY <2>1, PlusIsNumber
  <2>3. QED
    BY <2>2 DEF n
<1>11. token \in Tok \union {NoToken}
  BY DEF Tok
<1>12. Between(node, format) = IF ~node.string /\ node.next = NULL THEN <<>> ELSE <<piece>>
  BY DEF Between
<1>13. node.next = NULL => token = NoToken
  OBVIOUS
<1>14. node.next # NULL => token = ","
  OBVIOUS
<1> HIDE DEF length, token
<1>2. piece \in Fitting /\ piece.token = token
  <2>2. \E zero \in BOOLEAN : piece = Piece(token, length, length + 1, zero)
    OBVIOUS
  <2> HIDE DEF piece
  <2>3. QED
    BY <1>1, <1>11, <2>2, PieceFits
<1> HIDE DEF piece
<1>4. CASE node.next = NULL
  BY <1>2, <1>12, <1>13, <1>4, SpellsNone, SpellsBlank
<1>5. CASE node.next # NULL
  <2>1. token = "," /\ token # NoToken
    BY <1>5, <1>14 DEF NoToken
  <2>2. Between(node, format) = <<piece>>
    BY <1>12, <1>5
  <2>3. QED
    BY <1>2, <1>5, <2>1, <2>2, SpellsToken
<1>6. QED
  BY <1>4, <1>5

\* A scalar.
LEMMA ScalarSpelled ==
    ASSUME NEW tx, NEW a \in Nat
    PROVE  /\ tx[a + 1] = "v" => Spells(<<Piece("v", 4, 5, TRUE)>>, tx, a, a + 1)
           /\ tx[a + 1] = "s" => Spells(<<quoted>>, tx, a, a + 1)
<1> DEFINE value == Piece("v", 4, 5, TRUE)
<1>1. value \in Fitting /\ value.token = "v" /\ value.token # NoToken
  BY DEF Piece, Fitting, Tok, NoToken
<1>2. quoted \in Fitting /\ quoted.token = "s" /\ quoted.token # NoToken
  BY SizesAssumption DEF quoted, Piece, Fitting, Tok, NoToken
<1> HIDE DEF value
<1>3. tx[a + 1] = "v" => Spells(<<value>>, tx, a, a + 1)
  BY <1>1, SpellsToken
<1>4. tx[a + 1] = "s" => Spells(<<quoted>>, tx, a, a + 1)
  BY <1>2, SpellsToken
<1>5. QED
  BY <1>3, <1>4 DEF value

\* A node and what is behind it are printed as they were written, if what is
\* below it and behind it is; it ends where its list ends.
LEMMA NodeSpells ==
    ASSUME NEW f, NEW format, heap \in Seq(Node), Len(heap) \in Nat,
           NEW tx, NEW from, NEW to, NEW until,
           NEW m \in 1..Len(heap),
           Written(heap, tx, from, to, until, m), Linked(heap, tx, from, to, until, m),
           from[m] \in Nat, to[m] \in Nat, m = Root => heap[m].next = NULL,
           m # Root /\ heap[m].next = NULL => until[m] = to[m],
           f[NULL] = [depth \in Nat |-> <<>>],
           NEW c, c = heap[m].child,
           c # NULL => \A depth \in Nat : Spells(f[c][depth], tx, from[c], until[c]),
           NEW n, n = heap[m].next,
           n # NULL => \A depth \in Nat : Spells(f[n][depth], tx, from[n], until[n]),
           NEW depth \in Nat
    PROVE  /\ Spells(NodePieces(f, m, format, depth), tx, from[m], IF m = Root THEN to[m] ELSE until[m])
           /\ from[m] < to[m]
<1> DEFINE node == heap[m]
           a == from[m]
           v == ValueAt(heap, from, m)
           b == to[m]
           end == IF m = Root THEN to[m] ELSE until[m]
           label == Label(node, format, depth)
           own == OwnPieces(f, m, format, depth)
           rest == IF m = Root THEN <<>> ELSE Between(node, format)
<1>1. node \in Node
  OBVIOUS
<1>2. /\ a \in Nat /\ b \in Nat /\ v \in Nat /\ v < b /\ a <= v
      /\ v = (IF node.string THEN a + 2 ELSE a)
  <2>1. a \in Nat /\ b \in Nat /\ v < b
    BY DEF Written
  <2>2. v = (IF node.string THEN a + 2 ELSE a)
    BY DEF ValueAt
  <2>3. CASE node.string
    BY <2>1, <2>2, <2>3
  <2>4. CASE ~node.string
    BY <2>1, <2>2, <2>4
  <2>5. QED
    BY <2>3, <2>4
<1>3. Spells(label, tx, a, v)
  <2>1. node.string => tx[a + 1] = "s" /\ tx[a + 2] = ":"
    BY DEF Written, Labelled
  <2> HIDE DEF a, node, v
  <2>2. QED
    BY <1>1, <1>2, <2>1, LabelSpells DEF label
<1>4. Spells(own, tx, v, b)
  <2>1. /\ node.type \in {"Value", "String", "Array", "Object"}
        /\ Scalars(heap, tx, v, to, m) /\ Brackets(heap, tx, v, from, to, until, m)
    BY DEF Written
  <2>2. CASE node.type = "Value"
    <3>1. own = <<Piece("v", 4, 5, TRUE)>>
      BY <2>2 DEF OwnPieces
    <3>2. tx[v + 1] = "v" /\ b = v + 1
      BY <2>1, <2>2 DEF Scalars
    <3> HIDE DEF v, b, own
    <3>3. Spells(<<Piece("v", 4, 5, TRUE)>>, tx, v, v + 1)
      BY <1>2, <3>2, ScalarSpelled
    <3>4. QED
      BY <3>1, <3>2, <3>3
  <2>3. CASE node.type = "String"
    <3>1. own = <<quoted>>
      BY <2>3 DEF OwnPieces
    <3>2. tx[v + 1] = "s" /\ b = v + 1
      BY <2>1, <2>3 DEF Scalars
    <3> HIDE DEF v, b, own
    <3>3. QED
      BY <1>2, <3>1, <3>2, ScalarSpelled
  <2>4. CASE node.type \in {"Array", "Object"}
    <3> DEFINE open == Opening(node, format)
               inner == f[c][depth + 1]
               close == Closing(node, format, depth)
    <3>1. own = open \o inner \o close
      BY <2>4 DEF OwnPieces
    <3>2. /\ tx[v + 1] = Opener(node.type) /\ tx[b] = Close[node.type] /\ v + 2 <= b
          /\ c = NULL => b = v + 2
          /\ c # NULL => from[c] = v + 1 /\ until[c] = b - 1
      BY <2>1, <2>4 DEF Brackets, IsList
    <3>3. b - 1 \in Nat /\ (b - 1) + 1 = b /\ depth + 1 \in Nat
      BY <1>2, <3>2
    <3>4. Spells(inner, tx, v + 1, b - 1)
      <4>1. CASE c = NULL
        <5>1. inner = <<>>
          BY <3>3, <4>1
        <5>2. v + 1 = b - 1 /\ v + 1 \in Nat
          BY <1>2, <3>2, <4>1
        <5>3. QED
          BY <5>1, <5>2, SpellsNone
      <4>2. CASE c # NULL
        BY <3>2, <3>3, <4>2
      <4>3. QED
        BY <4>1, <4>2
    <3> DEFINE z == b - 1
    <3> HIDE DEF node, v, open, inner, close, own, b, z
    <3>5. Spells(open, tx, v, v + 1)
      <4>1. v \in Nat /\ depth \in Nat /\ node.type \in {"Array", "Object"} /\ tx[v + 1] = Opener(node.type)
        BY <1>2, <2>4, <3>2
      <4>2. Spells(Opening(node, format), tx, v, v + 1)
        BY <4>1, OpeningSpells
      <4>3. QED
        BY <4>2 DEF open
    <3>6. Spells(close, tx, z, b)
      <4>1. z \in Nat /\ z + 1 = b
        BY <3>3 DEF z
      <4>2. tx[z + 1] = Close[node.type]
        BY <3>2, <4>1
      <4>3. Spells(close, tx, z, z + 1)
        BY <2>4, <4>1, <4>2, ClosingSpells DEF close
      <4>4. QED
        BY <4>1, <4>3
    <3>7. Spells(open \o inner, tx, v, z)
      BY <3>4, <3>5, SpellsJoined DEF z
    <3>8. QED
      BY <3>1, <3>6, <3>7, SpellsJoined
  <2> HIDE DEF own, v, b
  <2>5. QED
    BY <2>1, <2>2, <2>3, <2>4
<1>5. \E r : Spells(rest, tx, b, r) /\ Spells(f[n][depth], tx, r, end)
  <2>1. CASE n = NULL
    <3>1. f[n][depth] = <<>>
      BY <2>1
    <3>2. end = b
      BY <2>1
    <3>3. Spells(rest, tx, b, b)
      <4>1. CASE m = Root
        BY <1>2, <4>1, SpellsNone
      <4>2. CASE m # Root
        <5> HIDE DEF b, node
        <5>1. node.next = NULL
          BY <2>1 DEF node
        <5>2. Spells(Between(node, format), tx, b, b)
          BY <1>1, <1>2, <5>1, BetweenSpells
        <5>3. QED
          BY <4>2, <5>2
      <4>3. QED
        BY <4>1, <4>2
    <3> HIDE DEF rest, end, b
    <3>4. Spells(<<>>, tx, b, b)
      BY <1>2, SpellsNone
    <3>5. QED
      BY <3>1, <3>2, <3>3, <3>4
  <2>2. CASE n # NULL
    <3>1. m # Root /\ end = until[m] /\ rest = Between(node, format)
      BY <2>2
    <3>2. tx[b + 1] = "," /\ from[n] = b + 1 /\ until[n] = until[m]
      BY <2>2 DEF Linked
    <3>3. Spells(rest, tx, b, b + 1)
      <4>1. node.next # NULL
        BY <2>2
      <4> HIDE DEF b, node, rest
      <4>2. Spells(Between(node, format), tx, b, b + 1)
        BY <1>1, <1>2, <3>2, <4>1, BetweenSpells
      <4>3. QED
        BY <3>1, <4>2
    <3>4. Spells(f[n][depth], tx, b + 1, end)
      BY <2>2, <3>1, <3>2
    <3> HIDE DEF rest, end, b
    <3>5. QED
      BY <3>3, <3>4
  <2>3. QED
    BY <2>1, <2>2
<1>6. NodePieces(f, m, format, depth) = label \o own \o rest \o f[n][depth]
  <2>1. m # NULL
    BY DEF NULL
  <2>2. QED
    BY <2>1, Zenon DEF NodePieces
<1>7. PICK r : Spells(rest, tx, b, r) /\ Spells(f[n][depth], tx, r, end)
  BY <1>5
<1> HIDE DEF label, own, rest, a, b, v, end
<1>8. Spells(label \o own, tx, a, b)
  BY <1>3, <1>4, SpellsJoined
<1>9. Spells(label \o own \o rest, tx, a, r)
  BY <1>7, <1>8, SpellsJoined
<1>10. Spells(label \o own \o rest \o f[n][depth], tx, a, end)
  BY <1>7, <1>9, SpellsJoined
<1>11. a < b
  BY <1>2
<1>12. QED
  BY <1>6, <1>10, <1>11 DEF a, b, end

\* print_value: what is printed of the tree are the tokens that were parsed.
LEMMA TreeSpells ==
    ASSUME ParseInv, SpellInv, pc = "accepted", NEW format
    PROVE  /\ text \in Seq(Tok) /\ Pieces(format) # <<>>
           /\ Spells(Pieces(format), text, 0, Len(text))
<1> DEFINE N == Len(heap)
<1>1. PICK from, to, until : /\ Spelled(heap, frames, Young(pc, heap), text, pos, from, to, until)
                             /\ Stands(heap, frames, text, pos, pc, from, to)
  BY DEF SpellInv, Reading
<1>2. frames = <<>> /\ Young(pc, heap) = NULL /\ pos = to[Root] /\ Len(text) = pos
  BY <1>1 DEF ParseInv, Young, Stands
<1>3. PICK e : Tree(heap, e, frames, Len(heap))
  BY WhileSpelled DEF Reading
<1>4. /\ heap \in Seq(Node) /\ N \in Nat /\ N \in 1..N /\ text \in Seq(Tok) /\ Inside(heap, frames)
      /\ TextOrder(heap, e) /\ Nested(heap, e, frames, N) /\ pos \in Nat
  <2>1. /\ heap \in Seq(Node) /\ N \in Nat /\ N \in 1..N /\ text \in Seq(Tok) /\ Inside(heap, frames)
        /\ pos \in Nat
    BY WhileSpelled DEF Reading
  <2>2. QED
    BY <1>3, <2>1 DEF Tree
<1>5. Upward(heap)
  BY <1>4, OrderIsUpward
<1>6. Len(frames) = 0 /\ 0 \in 0..0 /\ 0..0 = {0} /\ 1..0 = {} /\ Root \in 1..N
  BY <1>2, <1>4 DEF Root
<1>7. heap[Root].next = NULL
  <2>1. FirstIn(frames, 0) # NULL /\ LastIn(frames, 0) = Root
    BY DEF FirstIn, LastIn, Root, NULL
  <2>2. Growing(heap, e, FirstIn(frames, 0), LastIn(frames, 0), N)
    BY <1>4, <1>6, <2>1 DEF Nested
  <2>3. QED
    BY <2>1, <2>2 DEF Growing
<1>8. \A m \in 1..N : from[m] \in Nat /\ to[m] \in Nat
  <2> DEFINE R == 0..pos
  <2>1. from \in [1..N -> R] /\ to \in [1..N -> R]
    BY <1>1 DEF Spelled, Placed
  <2>2. R \subseteq Nat
    BY <1>4
  <2> HIDE DEF R
  <2>3. QED
    BY <2>1, <2>2
<1>9. \A m \in 1..N : /\ Written(heap, text, from, to, until, m)
                      /\ Linked(heap, text, from, to, until, m)
                      /\ m # Root /\ heap[m].next = NULL => until[m] = to[m]
  <2> TAKE m \in 1..N
  <2>1. Done(frames, NULL, m)
    BY <1>6 DEF Done, NULL
  <2>2. /\ Written(heap, text, from, to, until, m) /\ Linked(heap, text, from, to, until, m)
        /\ Ended(heap, frames, NULL, to, until, m)
    BY <1>1, <1>2, <2>1 DEF Spelled
  <2>3. \A i \in 0..Len(frames) : LastIn(frames, i) = Root
    BY <1>6 DEF LastIn
  <2>4. QED
    BY <2>2, <2>3 DEF Ended
<1>10. PICK f : /\ \A m \in 0..Len(heap) : f[m] = [depth \in Nat |-> NodePieces(f, m, format, depth)]
                /\ Pieces(format) = f[Root][0]
  BY <1>5, PiecesFollow
<1>11. f[NULL] = [depth \in Nat |-> <<>>]
  <2>1. NULL \in 0..N /\ \A depth \in Nat : NodePieces(f, NULL, format, depth) = <<>>
    BY <1>4 DEF NULL, NodePieces
  <2>2. f[NULL] = [depth \in Nat |-> NodePieces(f, NULL, format, depth)]
    BY <1>10, <2>1
  <2>3. QED
    BY <2>1, <2>2
<1>12. \A m \in 1..N, depth \in Nat : f[m][depth] = NodePieces(f, m, format, depth)
  <2>1. \A m \in 1..N : m \in 0..N
    BY <1>4
  <2> TAKE m \in 1..N, depth \in Nat
  <2>2. f[m] = [d \in Nat |-> NodePieces(f, m, format, d)]
    BY <1>10, <2>1
  <2>3. QED
    BY <2>2
<1> DEFINE End(m) == IF m = Root THEN to[m] ELSE until[m]
           Good(m) == \A depth \in Nat : Spells(f[m][depth], text, from[m], End(m))
           S == {k \in Nat : \A m \in 1..N : m > N - k => Good(m)}
<1>13. ASSUME NEW m \in 1..N, \A x \in 1..N : x > m => Good(x)
       PROVE  Good(m) /\ from[m] < to[m]
  <2> DEFINE c == heap[m].child
             n == heap[m].next
  <2>1. /\ c # NULL => c \in 1..N /\ c > m /\ c # Root
        /\ n # NULL => n \in 1..N /\ n > m /\ n # Root
    <3>1. /\ c # NULL => c \in (m + 1)..N
          /\ n # NULL => n \in (m + 1)..N
      BY <1>5 DEF Upward
    <3>2. \A x \in (m + 1)..N : x \in 1..N /\ x > m /\ x # Root
      BY <1>4 DEF Root
    <3> HIDE DEF c, n
    <3>3. QED
      BY <3>1, <3>2
  <2>2. /\ c # NULL => \A depth \in Nat : Spells(f[c][depth], text, from[c], until[c])
        /\ n # NULL => \A depth \in Nat : Spells(f[n][depth], text, from[n], until[n])
    BY <1>13, <2>1
  <2>3. /\ Written(heap, text, from, to, until, m) /\ Linked(heap, text, from, to, until, m)
        /\ from[m] \in Nat /\ to[m] \in Nat /\ (m = Root => heap[m].next = NULL)
        /\ m # Root /\ heap[m].next = NULL => until[m] = to[m]
    BY <1>7, <1>8, <1>9
  <2>4. /\ c = heap[m].child
        /\ n = heap[m].next
    OBVIOUS
  <2> HIDE DEF c, n
  <2>5. ASSUME NEW depth \in Nat
        PROVE  /\ Spells(NodePieces(f, m, format, depth), text, from[m], End(m))
               /\ from[m] < to[m]
    BY <1>4, <1>11, <2>2, <2>3, <2>4, NodeSpells
  <2>6. QED
    BY <1>12, <2>5
<1>14. Nat \subseteq S
  <2>1. 0 \in S
    BY <1>4
  <2>2. ASSUME NEW k \in S \intersect Nat
        PROVE  k + 1 \in S
    <3> SUFFICES ASSUME NEW m \in 1..N, m > N - (k + 1)
                 PROVE  Good(m)
      OBVIOUS
    <3>1. \A x \in 1..N : x > m => x > N - k
      BY <1>4
    <3>2. \A x \in 1..N : x > m => Good(x)
      BY <3>1
    <3> HIDE DEF Good
    <3>3. QED
      BY <1>13, <3>2
  <2> HIDE DEF S
  <2>3. QED
    BY <2>1, <2>2, SetInduction
<1>15. \A x \in 1..N : Good(x)
  <2>1. N \in S
    BY <1>4, <1>14
  <2>2. \A x \in 1..N : x > N - N
    BY <1>4
  <2> HIDE DEF Good
  <2>3. QED
    BY <2>1, <2>2
<1>16. Spells(Pieces(format), text, 0, Len(text))
  <2>1. from[Root] = 0
    BY <1>1 DEF Spelled, Placed
  <2>2. End(Root) = Len(text)
    BY <1>2
  <2>3. Spells(f[Root][0], text, from[Root], End(Root))
    BY <1>6, <1>15
  <2>4. QED
    BY <1>10, <2>1, <2>2, <2>3
<1>17. Len(text) # 0
  <2>1. from[Root] < to[Root] /\ from[Root] \in Nat
    BY <1>6, <1>8, <1>13, <1>15
  <2>2. QED
    BY <1>2, <1>4, <2>1
<1>18. Pieces(format) # <<>>
  <2> SUFFICES ASSUME Pieces(format) = <<>>
               PROVE  FALSE
    OBVIOUS
  <2>1. Spells(<<>>, text, 0, Len(text))
    BY <1>16
  <2>2. Len(<<>>) = 0
    OBVIOUS
  <2>3. QED
    BY <1>17, <2>1, <2>2 DEF Spells
<1>19. QED
  BY <1>4, <1>16, <1>18

-----------------------------------------------------------------------------
(* The calls that print *)

\* What is printed is that of the tree.
LEMMA SamePrint ==
    ASSUME UNCHANGED parseVars
    PROVE  \A size, format, noalloc, grows :
               PrintValue(size, format, noalloc, grows)' = PrintValue(size, format, noalloc, grows)
<1>1. heap' = heap
  BY DEF parseVars
<1>2. \A format : Pieces(format)' = Pieces(format)
  BY <1>1 DEF Pieces
<1> TAKE size, format, noalloc, grows
<1>3. Pieces(format)' = Pieces(format)
  BY <1>2
<1>4. QED
  BY <1>3 DEF PrintValue

\* What holds of any buffer that print_value leaves.
LEMMA ValuePrinted ==
    ASSUME ParseInv, SpellInv, pc = "accepted",
           NEW size \in Nat, NEW format, NEW noalloc, NEW grows,
           NEW p, p = PrintValue(size, format, noalloc, grows)
    PROVE  /\ p \in Buffer /\ ~p.beyond
           /\ p.ok => p.offset < p.length /\ p.out = text
<1>1. text \in Seq(Tok) /\ Pieces(format) # <<>> /\ Spells(Pieces(format), text, 0, Len(text))
  BY TreeSpells
<1>2. QED
  BY <1>1, PrintedRight

\* What the caller is told by each of the calls.
RightlyPrinted(p) ==
    /\ ~p.beyond
    /\ p.ok => p.offset < p.length /\ p.out = text

\* cJSON_PrintPreallocated: the buffer is the caller's and never grows.
LEMMA PreallocatedPrints ==
    ASSUME ParseInv, SpellInv, pc = "accepted", NEW size \in Sizes, NEW format, PrintPreallocated(size, format)
    PROVE  /\ RightlyPrinted(printed'.buffer)
           /\ printed'.call = "preallocated" /\ printed'.size = size /\ printed'.format = format
           /\ size > PrintValue(0, format, FALSE, TRUE).offset + 1 => printed'.buffer.ok
<1> DEFINE p == PrintValue(size, format, Yes, No)
           w == PrintValue(0, format, No, Yes)
<1>1. printed' = [call |-> "preallocated", size |-> size, format |-> format, buffer |-> p]
  BY DEF PrintPreallocated, Result, Yes, No
<1>2. size \in Nat
  BY SizesAssumption
<1>3. p.beyond = FALSE /\ (p.ok => p.offset < p.length /\ p.out = text)
  BY <1>2, ValuePrinted
<1>4. Pieces(format) \in Seq(Fitting)
  BY TreeSpells DEF Spells
<1>5. size > w.offset + 1 => p.ok
  BY <1>2, <1>4, RoomSuffices
<1>6. w = PrintValue(0, format, FALSE, TRUE)
  BY DEF Yes, No
<1> HIDE DEF p, w
<1>7. QED
  BY <1>1, <1>3, <1>5, <1>6 DEF RightlyPrinted

\* cJSON_PrintBuffered: the buffer may grow.
LEMMA BufferedPrints ==
    ASSUME ParseInv, SpellInv, pc = "accepted", NEW size \in Sizes, NEW format, PrintBuffered(size, format)
    PROVE  RightlyPrinted(printed'.buffer) /\ printed'.call = "buffered"
<1>1. PICK grows \in BOOLEAN :
          printed' = Result("buffered", size, format, PrintValue(size, format, FALSE, grows))
  BY DEF PrintBuffered
<1> DEFINE p == PrintValue(size, format, No, grows)
<1>2. printed' = [call |-> "buffered", size |-> size, format |-> format, buffer |-> p]
  BY <1>1 DEF Result, No
<1>3. size \in Nat
  BY SizesAssumption
<1>4. p.beyond = FALSE /\ (p.ok => p.offset < p.length /\ p.out = text)
  BY <1>3, ValuePrinted
<1> HIDE DEF p
<1>5. QED
  BY <1>2, <1>4 DEF RightlyPrinted

\* print: the buffer is cut to the text, if there is the memory for it.
LEMMA CutPrints ==
    ASSUME ParseInv, SpellInv, pc = "accepted", NEW format, print(format)
    PROVE  RightlyPrinted(printed'.buffer) /\ printed'.call = "print"
<1>1. PICK grows \in BOOLEAN :
          LET p == PrintValue(Default, format, FALSE, grows)
          IN  printed' = Result("print", Default, format,
                  IF ~p.ok THEN p
                  ELSE IF grows THEN [p EXCEPT !.length = p.offset + 1]
                  ELSE [p EXCEPT !.ok = FALSE, !.freed = TRUE])
  BY DEF print
<1> DEFINE p == PrintValue(Default, format, No, grows)
           cut == [p EXCEPT !.length = p.offset + 1]
           dropped == [p EXCEPT !.ok = FALSE, !.freed = TRUE]
           q == IF ~p.ok THEN p ELSE IF grows THEN cut ELSE dropped
<1>2. printed' = [call |-> "print", size |-> Default, format |-> format, buffer |-> q]
  BY <1>1 DEF Result, No
<1>3. /\ p \in Buffer /\ p.beyond = FALSE
      /\ p.ok => p.offset < p.length /\ p.out = text
  BY SizesAssumption, ValuePrinted
<1> HIDE DEF p
<1>4. /\ cut.beyond = p.beyond /\ cut.out = p.out /\ cut.offset = p.offset /\ cut.length = p.offset + 1
      /\ cut.ok = p.ok /\ p.offset < p.offset + 1
  BY <1>3 DEF Buffer
<1>5. dropped.beyond = p.beyond /\ ~dropped.ok
  BY <1>3 DEF Buffer
<1> HIDE DEF cut, dropped
<1>6. RightlyPrinted(q)
  BY <1>3, <1>4, <1>5 DEF RightlyPrinted
<1> HIDE DEF q
<1>7. QED
  BY <1>2, <1>6

\* The invariant: where the tokens of the tree are in the text, and what has
\* been printed of it.
PrintInv == ParseInv /\ SpellInv /\ PrintsWhatWasParsed /\ BufferSuffices

\* A call that prints.
LEMMA PrintTreeKeeps ==
    ASSUME PrintInv, PrintTree
    PROVE  PrintInv'
<1>1. pc = "accepted" /\ UNCHANGED parseVars /\ ParseInv /\ SpellInv
  BY DEF PrintTree, PrintInv
<1>2. ParseInv' /\ SpellInv' /\ text' = text
  BY <1>1, ParseKeeps, SpellKeeps DEF parseVars
<1>3. /\ RightlyPrinted(printed'.buffer)
      /\ printed'.call = "preallocated" =>
             (printed'.size > PrintValue(0, printed'.format, FALSE, TRUE).offset + 1 => printed'.buffer.ok)
  <2>1. PICK format \in BOOLEAN :
            \/ print(format)
            \/ \E size \in Sizes : PrintPreallocated(size, format) \/ PrintBuffered(size, format)
    BY DEF PrintTree
  <2>2. CASE print(format)
    BY <1>1, <2>2, CutPrints
  <2>3. ASSUME NEW size \in Sizes, PrintBuffered(size, format)
        PROVE  RightlyPrinted(printed'.buffer) /\ printed'.call = "buffered"
    BY <1>1, <2>3, BufferedPrints
  <2>4. ASSUME NEW size \in Sizes, PrintPreallocated(size, format)
        PROVE  <1>3
    BY <1>1, <2>4, PreallocatedPrints
  <2>5. QED
    BY <2>1, <2>2, <2>3, <2>4
<1>4. PrintsWhatWasParsed'
  BY <1>2, <1>3 DEF PrintsWhatWasParsed, Returns, RightlyPrinted
<1>5. BufferSuffices'
  BY <1>1, <1>3, SamePrint DEF BufferSuffices, RightlyPrinted
<1>6. QED
  BY <1>2, <1>4, <1>5 DEF PrintInv

\* A behaviour that edits a list leaves the parser and the printer alone.
LEMMA LibraryPrintInv == LibrarySpec => []PrintInv
<1>1. LibraryInit => PrintInv
  <2> SUFFICES ASSUME LibraryInit
               PROVE  PrintInv
    OBVIOUS
  <2>1. Init /\ printed = Idle
    BY DEF LibraryInit, PrintInit
  <2>2. ParseInv /\ SpellInv
    BY <2>1 DEF Init, ParseInv, SpellInv, Reading
  <2>3. QED
    BY <2>1, <2>2 DEF PrintInv, PrintsWhatWasParsed, BufferSuffices, Returns
<1>2. PrintInv /\ [LibraryNext]_<<printVars, listVars>> => PrintInv'
  <2> SUFFICES ASSUME PrintInv, [LibraryNext]_<<printVars, listVars>>
               PROVE  PrintInv'
    OBVIOUS
  <2>1. CASE PrintTree
    BY <2>1, PrintTreeKeeps
  <2>2. CASE ParseNext /\ printed = Idle /\ UNCHANGED printed
    <3>1. ParseInv' /\ SpellInv'
      BY <2>2, ParseKeeps, SpellKeeps DEF PrintInv
    <3>2. printed' = Idle
      BY <2>2
    <3>3. PrintsWhatWasParsed' /\ BufferSuffices'
      BY <3>2 DEF PrintsWhatWasParsed, BufferSuffices, Returns, Idle
    <3>4. QED
      BY <3>1, <3>3 DEF PrintInv
  <2>3. CASE UNCHANGED printVars
    <3>1. UNCHANGED parseVars /\ UNCHANGED printed /\ text' = text
      BY <2>3 DEF printVars, parseVars
    <3>2. ParseInv' /\ SpellInv'
      BY <3>1, ParseKeeps, SpellKeeps DEF PrintInv
    <3>3. PrintsWhatWasParsed'
      BY <3>1 DEF PrintInv, PrintsWhatWasParsed, Returns, Idle
    <3>4. BufferSuffices'
      BY <3>1, SamePrint DEF PrintInv, BufferSuffices, Idle
    <3>5. QED
      BY <3>2, <3>3, <3>4 DEF PrintInv
  <2>4. QED
    BY <2>1, <2>2, <2>3 DEF LibraryNext, PrintNext
<1>3. QED
  BY <1>1, <1>2, PTL DEF LibrarySpec

\* cJSON_Print, cJSON_PrintUnformatted, cJSON_PrintBuffered and
\* cJSON_PrintPreallocated return the tokens that cJSON_Parse has read, however
\* long the text and wherever the buffer had to grow.
THEOREM TextComesBack == LibrarySpec => []PrintsWhatWasParsed
<1>1. PrintInv => PrintsWhatWasParsed
  BY DEF PrintInv
<1>2. QED
  BY <1>1, LibraryPrintInv, PTL

\* No piece is written past the end of the buffer that ensure has made room in,
\* a text that is returned ends within it, and cJSON_PrintPreallocated prints
\* whatever leaves one byte of its buffer free, whatever the tree and the sizes.
THEOREM NothingIsBeyond == LibrarySpec => []BufferSuffices
<1>1. PrintInv => BufferSuffices
  BY DEF PrintInv
<1>2. QED
  BY <1>1, LibraryPrintInv, PTL

=============================================================================
