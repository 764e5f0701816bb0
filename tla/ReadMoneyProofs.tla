-------------------------- MODULE ReadMoneyProofs --------------------------
(* Proofs about ReadMoney: whoever listens to the clips of readMoney hears  *)
(* the amount it was called with, for every amount.                         *)
EXTENDS ReadMoney, SequenceTheorems, WellFoundedInduction, TLAPS

(* A proof by induction over a number is one by the least number for which  *)
(* the claim is false.                                                      *)

\* A set of numbers has a least one, unless it is empty.
LEMMA LeastOf ==
    ASSUME NEW S \in SUBSET Nat, S # {}
    PROVE  \E x \in S : \A y \in S : x <= y
<1> DEFINE R == {ss \in Nat \X Nat : ss[1] < ss[2]}
<1>1. IsWellFoundedOn(R, Nat)
  BY NatLessThanWellFounded DEF OpToRel
<1> HIDE DEF R
<1>2. PICK x \in S : \A y \in S : ~(<<y, x>> \in R)
  BY <1>1, WFMin
<1>3. \A y \in S : y \in Nat /\ x \in Nat /\ (<<y, x>> \in R <=> y < x)
  BY DEF R
<1>4. \A y \in S : x <= y
  <2> SUFFICES ASSUME NEW y \in S
               PROVE  x <= y
    OBVIOUS
  <2>1. y \in Nat /\ x \in Nat /\ ~(y < x)
    BY <1>2, <1>3
  <2>2. QED
    BY <2>1
<1>5. QED
  BY <1>4

-----------------------------------------------------------------------------
(* The listener *)

\* f is what is on the listener's mind after each of the first n clips.
Follows(f, clips, n) ==
    f = [k \in 0..n |-> IF k = 0 THEN Listening ELSE Hear(clips[k], f[k - 1])]

\* Such an f starts with nothing and hears one clip after the other.
LEMMA FollowsMeans ==
    ASSUME NEW f, NEW clips, NEW n \in Nat, Follows(f, clips, n)
    PROVE  f[0] = Listening /\ \A k \in 1..n : f[k] = Hear(clips[k], f[k - 1])
<1> DEFINE Value(k) == IF k = 0 THEN Listening ELSE Hear(clips[k], f[k - 1])
<1>1. f = [k \in 0..n |-> Value(k)]
  BY DEF Follows
<1> HIDE DEF Value
<1>2. \A k \in 0..n : f[k] = Value(k)
  BY <1>1
<1>3. 0 \in 0..n /\ \A k \in 1..n : k \in 0..n /\ k # 0
  OBVIOUS
<1>4. f[0] = Value(0) /\ \A k \in 1..n : f[k] = Value(k)
  BY <1>2, <1>3
<1>5. QED
  BY <1>3, <1>4 DEF Value

\* The recursion of Ear has a solution, however many clips there are.
LEMMA SomeoneFollows ==
    ASSUME NEW clips
    PROVE  \A n \in Nat : \E f : Follows(f, clips, n)
<1> DEFINE S == {n \in Nat : ~ \E f : Follows(f, clips, n)}
<1> SUFFICES ASSUME S # {}
             PROVE  FALSE
  OBVIOUS
<1>1. PICK n \in S : \A y \in S : n <= y
  BY LeastOf
<1>2. n # 0
  <2>1. Follows([k \in 0..0 |-> Listening], clips, 0)
    <3>1. [k \in 0..0 |-> Listening]
          = [k \in 0..0 |-> IF k = 0 THEN Listening
                            ELSE Hear(clips[k], [j \in 0..0 |-> Listening][k - 1])]
      OBVIOUS
    <3>2. QED
      BY <3>1 DEF Follows
  <2>2. QED
    BY <2>1
<1>3. n \in Nat /\ n - 1 \in Nat
  BY <1>2
<1>4. PICK f : Follows(f, clips, n - 1)
  <2>1. n - 1 \notin S
    BY <1>1, <1>3
  <2>2. QED
    BY <2>1, <1>3
<1>5. f[0] = Listening /\ \A k \in 1..(n - 1) : f[k] = Hear(clips[k], f[k - 1])
  BY <1>3, <1>4, FollowsMeans
<1> DEFINE g == [k \in 0..n |-> IF k = n THEN Hear(clips[n], f[n - 1]) ELSE f[k]]
           Value(k) == IF k = 0 THEN Listening ELSE Hear(clips[k], g[k - 1])
<1>6. \A k \in 0..n : g[k] = Value(k)
  <2> SUFFICES ASSUME NEW k \in 0..n
               PROVE  g[k] = Value(k)
    OBVIOUS
  <2>0. \A j \in 0..(n - 1) : g[j] = f[j]
    BY <1>3
  <2>1. CASE k = 0
    BY <2>0, <2>1, <1>3, <1>5
  <2>2. CASE k # 0 /\ k # n
    <3>1. k \in 1..(n - 1) /\ k - 1 \in 0..(n - 1) /\ k \in 0..(n - 1)
      BY <1>3, <2>2
    <3>2. g[k] = Hear(clips[k], f[k - 1])
      BY <3>1, <1>5, <2>0
    <3>3. g[k - 1] = f[k - 1]
      BY <3>1, <2>0
    <3>4. QED
      BY <3>2, <3>3, <2>2
  <2>3. CASE k = n
    <3>1. g[k] = Hear(clips[n], f[n - 1])
      BY <2>3, <1>3
    <3>2. g[n - 1] = f[n - 1]
      BY <2>0, <1>3
    <3>3. QED
      BY <3>1, <3>2, <2>3, <1>2
  <2>4. QED
    BY <2>1, <2>2, <2>3
<1>7. g = [k \in 0..n |-> Value(k)]
  <2>1. g = [k \in 0..n |-> g[k]]
    OBVIOUS
  <2> HIDE DEF g, Value
  <2>2. QED
    BY <1>6, <2>1
<1>8. Follows(g, clips, n)
  BY <1>7 DEF Follows
<1> HIDE DEF g
<1>9. QED
  BY <1>1, <1>8

\* Whoever hears the same first clips has the same on the mind.
LEMMA AllFollowAlike ==
    ASSUME NEW f, NEW clips, NEW n \in Nat, Follows(f, clips, n),
           NEW g, NEW others, NEW m \in Nat, Follows(g, others, m),
           n <= m, \A k \in 1..n : clips[k] = others[k]
    PROVE  f[n] = g[n]
<1> DEFINE S == {k \in Nat : k <= n /\ f[k] # g[k]}
<1>1. CASE S = {}
  BY <1>1
<1>2. CASE S # {}
  <2>1. PICK k \in S : \A y \in S : k <= y
    BY <1>2, LeastOf
  <2>2. /\ f[0] = Listening /\ \A j \in 1..n : f[j] = Hear(clips[j], f[j - 1])
        /\ g[0] = Listening /\ \A j \in 1..m : g[j] = Hear(others[j], g[j - 1])
    BY FollowsMeans
  <2>3. k \in 1..n /\ k \in 1..m /\ k - 1 \in Nat /\ k - 1 <= n /\ ~(k <= k - 1)
    BY <2>1, <2>2
  <2>4. f[k - 1] = g[k - 1]
    BY <2>1, <2>3
  <2>5. f[k] = g[k]
    BY <2>2, <2>3, <2>4
  <2>6. QED
    BY <2>1, <2>5
<1>3. QED
  BY <1>1, <1>2

\* Ear is what such an f ends with.
LEMMA EarFollows ==
    ASSUME NEW clips, Len(clips) \in Nat
    PROVE  \E f : Follows(f, clips, Len(clips)) /\ Ear(clips) = f[Len(clips)]
<1> DEFINE f == CHOOSE f : Follows(f, clips, Len(clips))
<1>1. Follows(f, clips, Len(clips))
  BY SomeoneFollows
<1>2. Ear(clips) = f[Len(clips)]
  BY DEF Ear, Follows
<1> HIDE DEF f
<1>3. QED
  BY <1>1, <1>2

\* Nothing is on the mind before the first clip, and each clip adds to what
\* was there.
LEMMA EarOfNothing == Ear(<<>>) = Listening
<1>1. Len(<<>>) = 0
  OBVIOUS
<1>2. PICK f : Follows(f, <<>>, 0) /\ Ear(<<>>) = f[0]
  BY <1>1, EarFollows
<1>3. QED
  BY <1>2, FollowsMeans

LEMMA EarOfOneMore ==
    ASSUME NEW S, NEW s \in Seq(S), NEW c \in S
    PROVE  Ear(s \o <<c>>) = Hear(c, Ear(s))
<1> DEFINE t == s \o <<c>>
<1>1. /\ Len(s) \in Nat /\ Len(t) = Len(s) + 1
      /\ \A k \in 1..Len(s) : s[k] = t[k]
      /\ t[Len(s) + 1] = c
  OBVIOUS
<1> HIDE DEF t
<1>2. PICK f : Follows(f, s, Len(s)) /\ Ear(s) = f[Len(s)]
  BY <1>1, EarFollows
<1>3. PICK g : Follows(g, t, Len(s) + 1) /\ Ear(t) = g[Len(s) + 1]
  BY <1>1, EarFollows
<1>4. f[Len(s)] = g[Len(s)]
  BY <1>1, <1>2, <1>3, AllFollowAlike
<1>5. g[Len(s) + 1] = Hear(t[Len(s) + 1], g[Len(s)])
  <2>1. Len(s) + 1 \in 1..(Len(s) + 1) /\ Len(s) + 1 \in Nat /\ (Len(s) + 1) - 1 = Len(s)
    BY <1>1
  <2>2. g[Len(s) + 1] = Hear(t[Len(s) + 1], g[(Len(s) + 1) - 1])
    BY <2>1, <1>3, FollowsMeans
  <2>3. QED
    BY <2>1, <2>2
<1>6. QED
  BY <1>1, <1>2, <1>3, <1>4, <1>5 DEF t

-----------------------------------------------------------------------------
(* What the clips of a group do to the listener *)

Words == {"lam", "mot2", "tram", "le", "dong", "nghin", "trieu", "ti", "nghinty", "trieuty"}
Clip == {Number(n) : n \in 0..99} \union {Word(w) : w \in Words}
Totals == [1..6 -> Nat]
Mind(number, total) == [number |-> number, total |-> total]

\* The clips that the reader uses.
LEMMA Clips ==
    /\ \A n \in 0..99 : Number(n) \in Clip
    /\ \A w \in Words : Word(w) \in Clip
BY DEF Clip

\* units[] names six places, each differently.
LEMMA Units ==
    /\ Len(units) = 6
    /\ units[1] = "" /\ \A u \in 2..6 : units[u] \in {"nghin", "trieu", "ti", "nghinty", "trieuty"}
    /\ \A u \in 1..6, w \in 1..6 : units[u] = units[w] => u = w
BY DEF units

\* One clip.
LEMMA HearClip ==
    ASSUME NEW m \in Nat, NEW t \in Totals
    PROVE  /\ \A n \in Nat : Hear(Number(n), Mind(m, t)) = Mind(m + n, t)
           /\ Hear(Word("lam"), Mind(m, t)) = Mind(m + 5, t)
           /\ Hear(Word("mot2"), Mind(m, t)) = Mind(m + 1, t)
           /\ Hear(Word("tram"), Mind(m, t)) = Mind(100 * m, t)
           /\ Hear(Word("le"), Mind(m, t)) = Mind(m, t)
           /\ Hear(Word("dong"), Mind(m, t)) = Mind(0, [t EXCEPT ![1] = @ + m])
           /\ \A u \in 2..6 : Hear(Word(units[u]), Mind(m, t)) = Mind(0, [t EXCEPT ![u] = @ + m])
<1>1. ASSUME NEW n \in Nat
      PROVE  Hear(Number(n), Mind(m, t)) = Mind(m + n, t)
  <2>1. Number(n)[1] = "number" /\ Number(n)[2] = n
    BY DEF Number
  <2>2. \A w \in Words : Number(n) # Word(w)
    <3>1. \A w \in Words : Word(w)[1] = w /\ w # "number"
      BY DEF Word, Words
    <3>2. QED
      BY <2>1, <3>1
  <2>3. Hear(Number(n), Mind(m, t)) = [Mind(m, t) EXCEPT !.number = @ + n]
    <3>1. \A w \in {"lam", "mot2", "tram", "le", "dong"} : Number(n) # Word(w)
      BY <2>2 DEF Words
    <3>2. QED
      BY <2>1, <3>1 DEF Hear
  <2>4. QED
    BY <2>3 DEF Mind
<1>2. /\ \A w \in Words \union {units[u] : u \in 2..6} : Word(w)[1] = w /\ w # "number"
      /\ \A v, w : Word(v) = Word(w) <=> v = w
  BY Units DEF Words, Word
<1>3. /\ Hear(Word("lam"), Mind(m, t)) = Mind(m + 5, t)
      /\ Hear(Word("mot2"), Mind(m, t)) = Mind(m + 1, t)
  BY <1>2 DEF Hear, Mind, Words
<1>4. Hear(Word("tram"), Mind(m, t)) = Mind(100 * m, t)
  BY <1>2 DEF Hear, Mind, Words
<1>5. Hear(Word("le"), Mind(m, t)) = Mind(m, t)
  BY <1>2 DEF Hear, Words
<1>6. Hear(Word("dong"), Mind(m, t)) = Mind(0, [t EXCEPT ![1] = @ + m])
  BY <1>2 DEF Hear, Mind, Words, PutAway
<1>7. ASSUME NEW u \in 2..6
      PROVE  Hear(Word(units[u]), Mind(m, t)) = Mind(0, [t EXCEPT ![u] = @ + m])
  <2> DEFINE w == units[u]
             found == CHOOSE v \in 1..Len(units) : units[v] = w
  <2>1. w \in {"nghin", "trieu", "ti", "nghinty", "trieuty"}
    BY Units
  <2>2. w \notin {"lam", "mot2", "tram", "le", "dong", "number"} /\ Word(w)[1] = w
    BY <2>1, <1>2
  <2>3. found = u
    <3>0. Len(units) = 6
      BY Units, Zenon
    <3>1. Len(units) = 6 /\ u \in 1..6
      BY <3>0
    <3>2. \A v \in 1..6 : units[v] = w => v = u
      BY <3>1, Units
    <3>3. QED
      BY <3>1, <3>2
  <2> HIDE DEF w
  <2>4. Hear(Word(w), Mind(m, t))
        = PutAway(Mind(m, t), CHOOSE v \in 1..Len(units) : units[v] = Word(w)[1])
    BY <2>2, <1>2 DEF Hear
  <2>5. Hear(Word(w), Mind(m, t)) = PutAway(Mind(m, t), found)
    BY <2>2, <2>4
  <2>6. PutAway(Mind(m, t), u) = Mind(0, [t EXCEPT ![u] = @ + m])
    BY DEF PutAway, Mind
  <2>7. QED
    BY <2>3, <2>5, <2>6 DEF w
<1>8. QED
  BY <1>1, <1>3, <1>4, <1>5, <1>6, <1>7

\* A word more, for a listener who has heard s.
Told(s, m, t) == s \in Seq(Clip) /\ m \in Nat /\ t \in Totals /\ Ear(s) = Mind(m, t)

LEMMA OneMore ==
    ASSUME NEW s, NEW m, NEW t, Told(s, m, t)
    PROVE  /\ \A n \in 0..99 : Told(s \o <<Number(n)>>, m + n, t)
           /\ Told(s \o <<Word("lam")>>, m + 5, t)
           /\ Told(s \o <<Word("mot2")>>, m + 1, t)
           /\ Told(s \o <<Word("tram")>>, 100 * m, t)
           /\ Told(s \o <<Word("le")>>, m, t)
           /\ Told(s \o <<Word("dong")>>, 0, [t EXCEPT ![1] = @ + m])
           /\ \A u \in 2..6 : Told(s \o <<Word(units[u])>>, 0, [t EXCEPT ![u] = @ + m])
<1>0. s \in Seq(Clip) /\ m \in Nat /\ t \in Totals /\ Ear(s) = Mind(m, t)
  BY DEF Told
<1>h. /\ \A n \in Nat : Hear(Number(n), Mind(m, t)) = Mind(m + n, t)
      /\ Hear(Word("lam"), Mind(m, t)) = Mind(m + 5, t)
      /\ Hear(Word("mot2"), Mind(m, t)) = Mind(m + 1, t)
      /\ Hear(Word("tram"), Mind(m, t)) = Mind(100 * m, t)
      /\ Hear(Word("le"), Mind(m, t)) = Mind(m, t)
      /\ Hear(Word("dong"), Mind(m, t)) = Mind(0, [t EXCEPT ![1] = @ + m])
      /\ \A u \in 2..6 : Hear(Word(units[u]), Mind(m, t)) = Mind(0, [t EXCEPT ![u] = @ + m])
  BY <1>0, HearClip
<1>1. ASSUME NEW c \in Clip
      PROVE  s \o <<c>> \in Seq(Clip) /\ Ear(s \o <<c>>) = Hear(c, Mind(m, t))
  BY <1>0, EarOfOneMore
<1>2. ASSUME NEW u \in 1..6
      PROVE  [t EXCEPT ![u] = @ + m] \in Totals
  <2>1. t[u] \in Nat
    BY <1>0 DEF Totals
  <2>2. t[u] + m \in Nat
    BY <1>0, <2>1
  <2>3. QED
    BY <1>0, <2>2 DEF Totals
<1>3. \A u \in 2..6 : Word(units[u]) \in Clip
  <2>1. \A u \in 2..6 : units[u] \in Words
    BY Units DEF Words
  <2>2. QED
    BY <2>1, Clips
<1>4. /\ Word("lam") \in Clip /\ Word("mot2") \in Clip /\ Word("tram") \in Clip
      /\ Word("le") \in Clip /\ Word("dong") \in Clip
  BY Clips DEF Words
<1>5. ASSUME NEW n \in 0..99
      PROVE  Told(s \o <<Number(n)>>, m + n, t)
  <2>1. Number(n) \in Clip
    BY Clips
  <2>2. n \in Nat /\ m + n \in Nat
    BY <1>0
  <2>3. Ear(s \o <<Number(n)>>) = Mind(m + n, t)
    <3>1. Hear(Number(n), Mind(m, t)) = Mind(m + n, t)
      BY <1>h, <2>2
    <3>2. QED
      BY <1>1, <2>1, <3>1
  <2>4. QED
    BY <1>0, <1>1, <2>1, <2>2, <2>3 DEF Told
<1>6. /\ Told(s \o <<Word("lam")>>, m + 5, t)
      /\ Told(s \o <<Word("mot2")>>, m + 1, t)
      /\ Told(s \o <<Word("tram")>>, 100 * m, t)
      /\ Told(s \o <<Word("le")>>, m, t)
  <2>1. m + 5 \in Nat /\ m + 1 \in Nat /\ 100 * m \in Nat
    BY <1>0
  <2>2. /\ Hear(Word("lam"), Mind(m, t)) = Mind(m + 5, t)
        /\ Hear(Word("mot2"), Mind(m, t)) = Mind(m + 1, t)
        /\ Hear(Word("tram"), Mind(m, t)) = Mind(100 * m, t)
        /\ Hear(Word("le"), Mind(m, t)) = Mind(m, t)
    BY <1>h
  <2>3. QED
    BY <1>0, <1>1, <1>4, <2>1, <2>2 DEF Told
<1>7. Told(s \o <<Word("dong")>>, 0, [t EXCEPT ![1] = @ + m])
  <2>1. [t EXCEPT ![1] = @ + m] \in Totals
    BY <1>2
  <2>2. Ear(s \o <<Word("dong")>>) = Mind(0, [t EXCEPT ![1] = @ + m])
    <3>1. Hear(Word("dong"), Mind(m, t)) = Mind(0, [t EXCEPT ![1] = @ + m])
      BY <1>h
    <3>2. QED
      BY <1>1, <1>4, <3>1
  <2>3. QED
    BY <1>0, <1>1, <1>4, <2>1, <2>2 DEF Told
<1>8. ASSUME NEW u \in 2..6
      PROVE  Told(s \o <<Word(units[u])>>, 0, [t EXCEPT ![u] = @ + m])
  <2>1. [t EXCEPT ![u] = @ + m] \in Totals
    <3>1. u \in 1..6
      OBVIOUS
    <3>2. QED
      BY <1>2, <3>1
  <2>2. Ear(s \o <<Word(units[u])>>) = Mind(0, [t EXCEPT ![u] = @ + m])
    <3>1. Hear(Word(units[u]), Mind(m, t)) = Mind(0, [t EXCEPT ![u] = @ + m])
      BY <1>h
    <3>2. QED
      BY <1>1, <1>3, <3>1
  <2>3. QED
    BY <1>0, <1>1, <1>3, <2>1, <2>2 DEF Told
<1>9. QED
  BY <1>5, <1>6, <1>7, <1>8
-----------------------------------------------------------------------------
(* The numbers and the groups *)

\* Sequences of clips.
LEMMA PairIsConcat ==
    ASSUME NEW a, NEW b
    PROVE  <<a>> \o <<b>> = <<a, b>>
<1>1. <<a>> \in Seq({a, b}) /\ b \in {a, b}
  OBVIOUS
<1>2. Append(<<a>>, b) = <<a>> \o <<b>>
  BY <1>1, AppendIsConcat
<1>3. /\ Append(<<a>>, b) \in Seq({a, b}) /\ Len(Append(<<a>>, b)) = 2
      /\ Append(<<a>>, b)[1] = a /\ Append(<<a>>, b)[2] = b
  BY <1>1, AppendProperties
<1>4. <<a, b>> \in Seq({a, b}) /\ Len(<<a, b>>) = 2 /\ <<a, b>>[1] = a /\ <<a, b>>[2] = b
  OBVIOUS
<1>5. \A k \in 1..2 : k = 1 \/ k = 2
  OBVIOUS
<1>6. \A k \in 1..2 : Append(<<a>>, b)[k] = <<a, b>>[k]
  BY <1>3, <1>4, <1>5, Zenon
<1>7. Append(<<a>>, b) = <<a, b>>
  BY <1>3, <1>4, <1>6, SeqEqual
<1>8. QED
  BY <1>2, <1>7

\* Putting sequences of clips together.
LEMMA Strings ==
    /\ \A a, b, c \in Seq(Clip) : (a \o b) \o c = a \o (b \o c)
    /\ \A a, b \in Seq(Clip) : a \o b \in Seq(Clip)
    /\ \A a \in Seq(Clip) : a \o <<>> = a
<1>1. \A a, b, c \in Seq(Clip) : (a \o b) \o c = a \o (b \o c)
  BY ConcatAssociative
<1>2. \A a, b \in Seq(Clip) : a \o b \in Seq(Clip)
  BY ConcatProperties
<1>3. \A a \in Seq(Clip) : a \o <<>> = a
  BY ConcatEmptySeq
<1>4. QED
  BY <1>1, <1>2, <1>3

\* What sayNumber says are clips.
LEMMA NumberType ==
    ASSUME NEW n \in 0..99
    PROVE  sayNumber(n) \in Seq(Clip)
<1> DEFINE unit == n % 10
           ten == n \div 10
           rest == CASE unit = 0 -> <<>>
                     [] unit = 5 -> <<Word("lam")>>
                     [] unit = 1 /\ ten > 1 -> <<Word("mot2")>>
                     [] OTHER -> <<Number(unit)>>
<1>1. unit \in 0..9 /\ unit \in 0..99 /\ 10 * ten \in 0..99
  OBVIOUS
<1>2. Number(n) \in Clip /\ Number(10 * ten) \in Clip /\ Number(unit) \in Clip
  BY <1>1, Clips
<1>3. Word("lam") \in Clip /\ Word("mot2") \in Clip
  BY Clips DEF Words
<1> HIDE DEF unit, ten
<1>4. rest \in {<<>>, <<Word("lam")>>, <<Word("mot2")>>, <<Number(unit)>>}
  OBVIOUS
<1>5. rest \in Seq(Clip)
  BY <1>2, <1>3, <1>4
<1>6. sayNumber(n) = IF n < 10 THEN <<Number(n)>> ELSE <<Number(10 * ten)>> \o rest
  BY DEF sayNumber, unit, ten
<1> HIDE DEF rest
<1>7. <<Number(n)>> \in Seq(Clip) /\ <<Number(10 * ten)>> \in Seq(Clip)
  BY <1>2
<1>8. <<Number(10 * ten)>> \o rest \in Seq(Clip)
  BY <1>5, <1>7, ConcatProperties
<1>9. QED
  BY <1>6, <1>7, <1>8

\* sayNumber adds its number to what the listener has in mind.
LEMMA NumberIsHeard ==
    ASSUME NEW s, NEW m, NEW t, Told(s, m, t), NEW n \in 0..99
    PROVE  Told(s \o sayNumber(n), m + n, t)
<1> DEFINE unit == n % 10
           ten == n \div 10
           rest == CASE unit = 0 -> <<>>
                     [] unit = 5 -> <<Word("lam")>>
                     [] unit = 1 /\ ten > 1 -> <<Word("mot2")>>
                     [] OTHER -> <<Number(unit)>>
           tens == s \o <<Number(10 * ten)>>
<1>1. unit \in 0..9 /\ unit \in 0..99 /\ ten \in 0..9 /\ 10 * ten \in 0..99 /\ n = 10 * ten + unit
  OBVIOUS
<1>2. sayNumber(n) = IF n < 10 THEN <<Number(n)>> ELSE <<Number(10 * ten)>> \o rest
  BY DEF sayNumber
<1>3. s \in Seq(Clip) /\ m \in Nat
  BY DEF Told
<1> HIDE DEF unit, ten
<1>4. CASE n < 10
  BY <1>2, <1>4, OneMore
<1>5. CASE ~(n < 10)
  <2>1. Told(tens, m + 10 * ten, t)
    BY <1>1, OneMore
  <2> HIDE DEF tens
  <2>2. Told(tens \o rest, m + n, t)
    <3>1. CASE unit = 0
      <4>1. rest = <<>>
        BY <3>1
      <4>2. tens \in Seq(Clip)
        BY <2>1 DEF Told
      <4>3. tens \o rest = tens
        BY <4>1, <4>2, ConcatEmptySeq
      <4>4. m + n = m + 10 * ten
        BY <1>1, <1>3, <3>1
      <4>5. QED
        BY <2>1, <4>3, <4>4
    <3>2. CASE unit = 5
      <4>1. rest = <<Word("lam")>> /\ m + n = (m + 10 * ten) + 5
        BY <1>1, <1>3, <3>2
      <4>2. QED
        BY <2>1, <4>1, OneMore
    <3>3. CASE unit = 1 /\ ten > 1
      <4>1. rest = <<Word("mot2")>> /\ m + n = (m + 10 * ten) + 1
        BY <1>1, <1>3, <3>3
      <4>2. QED
        BY <2>1, <4>1, OneMore
    <3>4. CASE unit # 0 /\ unit # 5 /\ ~(unit = 1 /\ ten > 1)
      <4>1. rest = <<Number(unit)>>
        <5>1. unit # 0 /\ unit # 5 /\ ~(unit = 1 /\ ten > 1)
          BY <3>4
        <5>2. QED
          BY <5>1
      <4>2. m + n = (m + 10 * ten) + unit
        BY <1>1, <1>3
      <4> HIDE DEF rest
      <4>3. QED
        BY <1>1, <2>1, <4>1, <4>2, OneMore
    <3>5. QED
      BY <3>1, <3>2, <3>3, <3>4
  <2>3. s \o (<<Number(10 * ten)>> \o rest) = tens \o rest
    <3>1. Number(10 * ten) \in Clip /\ Number(unit) \in Clip
      BY <1>1, Clips
    <3>2. Word("lam") \in Clip /\ Word("mot2") \in Clip
      BY Clips DEF Words
    <3>3. rest \in {<<>>, <<Word("lam")>>, <<Word("mot2")>>, <<Number(unit)>>}
      OBVIOUS
    <3>4. rest \in Seq(Clip)
      BY <3>1, <3>2, <3>3
    <3> HIDE DEF rest
    <3>5. <<Number(10 * ten)>> \in Seq(Clip)
      BY <3>1
    <3>6. (s \o <<Number(10 * ten)>>) \o rest = s \o (<<Number(10 * ten)>> \o rest)
      BY <1>3, <3>4, <3>5, ConcatAssociative
    <3>7. QED
      BY <3>6, Zenon DEF tens
  <2>4. QED
    BY <1>2, <1>5, <2>2, <2>3
<1>6. QED
  BY <1>4, <1>5

\* What a listener with t put away has on the mind after the group n of unit u.
Places == 1..6
ToldGroup(s, t, n, u) ==
    IF u = 1 \/ n = 0 THEN Told(s, n, t) ELSE Told(s, 0, [t EXCEPT ![u] = @ + n])

\* sayGroup says the number and puts it away at its unit, if it has one.
LEMMA GroupIsHeard ==
    ASSUME NEW s, NEW t, Told(s, 0, t), NEW n \in Digits, NEW u \in Places, NEW first
    PROVE  ToldGroup(s \o sayGroup(n, units[u], first), t, n, u)
<1> DEFINE num == n \div 100
           chuc_donvi == n % 100
           hundreds == IF num > 0 THEN sayNumber(num) \o <<Word("tram")>>
                       ELSE IF ~first /\ chuc_donvi > 0 THEN <<Number(0), Word("tram")>>
                       ELSE <<>>
           le == IF chuc_donvi < 10 /\ num > 0 THEN <<Word("le")>> ELSE <<>>
           rest == IF chuc_donvi = 0 THEN <<>> ELSE le \o sayNumber(chuc_donvi)
           unit == IF n > 0 /\ units[u] # "" THEN <<Word(units[u])>> ELSE <<>>
<1>0. n \in 0..999 /\ u \in 1..6
  BY DEF Digits, Places
<1>1. sayGroup(n, units[u], first) = hundreds \o rest \o unit
  BY DEF sayGroup
<1>2. num \in 0..9 /\ num \in 0..99 /\ chuc_donvi \in 0..99 /\ n = 100 * num + chuc_donvi
  BY <1>0
<1>3. s \in Seq(Clip) /\ t \in Totals
  BY DEF Told
<1>4. /\ <<Word("tram")>> \in Seq(Clip) /\ <<Number(0)>> \in Seq(Clip) /\ <<>> \in Seq(Clip)
      /\ <<Word("le")>> \in Seq(Clip)
      /\ (<<Word(units[u])>> \in Seq(Clip) \/ u = 1)
      /\ sayNumber(num) \in Seq(Clip) /\ sayNumber(chuc_donvi) \in Seq(Clip)
  <2>1. Word("tram") \in Clip /\ Number(0) \in Clip /\ Word("le") \in Clip
    BY Clips DEF Words
  <2>2. Word(units[u]) \in Clip \/ u = 1
    <3>1. units[u] \in Words \/ u = 1
      <4>1. u = 1 \/ u \in 2..6
        BY <1>0
      <4>2. QED
        BY <4>1, Units DEF Words
    <3>2. QED
      BY <3>1, Clips
  <2>3. sayNumber(num) \in Seq(Clip) /\ sayNumber(chuc_donvi) \in Seq(Clip)
    BY <1>2, NumberType
  <2>4. QED
    BY <2>1, <2>2, <2>3
<1> HIDE DEF num, chuc_donvi
<1>5. hundreds \in Seq(Clip) /\ Told(s \o hundreds, 100 * num, t)
  <2>1. CASE num > 0
    <3>1. Told(s \o sayNumber(num), 0 + num, t)
      BY <1>2, NumberIsHeard
    <3>2. Told((s \o sayNumber(num)) \o <<Word("tram")>>, 100 * (0 + num), t)
      BY <3>1, OneMore
    <3>3. (s \o sayNumber(num)) \o <<Word("tram")>> = s \o (sayNumber(num) \o <<Word("tram")>>)
      BY <1>3, <1>4, Strings
    <3>4. sayNumber(num) \o <<Word("tram")>> \in Seq(Clip)
      BY <1>4, Strings
    <3>5. 0 + num = num
      BY <1>2
    <3>6. QED
      BY <2>1, <3>2, <3>3, <3>4, <3>5
  <2>2. CASE num = 0 /\ ~first /\ chuc_donvi > 0
    <3>1. Told(s \o <<Number(0)>>, 0, t)
      <4>1. \A d \in 0..99 : Told(s \o <<Number(d)>>, 0 + d, t)
        BY OneMore
      <4>2. 0 \in 0..99
        OBVIOUS
      <4>3. Told(s \o <<Number(0)>>, 0 + 0, t)
        BY <4>1, <4>2, Zenon
      <4>4. 0 + 0 = 0
        OBVIOUS
      <4>5. QED
        BY <4>3, <4>4, Zenon
    <3>2. Told((s \o <<Number(0)>>) \o <<Word("tram")>>, 100 * 0, t)
      BY <3>1, OneMore
    <3>3. (s \o <<Number(0)>>) \o <<Word("tram")>> = s \o (<<Number(0)>> \o <<Word("tram")>>)
      BY <1>3, <1>4, Strings
    <3>4. <<Number(0)>> \o <<Word("tram")>> = <<Number(0), Word("tram")>>
      BY PairIsConcat
    <3>5. hundreds = <<Number(0), Word("tram")>>
      BY <2>2
    <3>6. hundreds \in Seq(Clip)
      BY <1>4, <3>4, <3>5, Strings
    <3>7. 100 * 0 = 100 * num
      BY <2>2
    <3> HIDE DEF hundreds
    <3>8. QED
      BY <3>2, <3>3, <3>4, <3>5, <3>6, <3>7
  <2>3. CASE num = 0 /\ ~(~first /\ chuc_donvi > 0)
    <3>1. hundreds = <<>> /\ 100 * num = 0
      BY <2>3
    <3>2. s \o <<>> = s
      BY <1>3, Strings
    <3>3. QED
      BY <1>4, <3>1, <3>2
  <2>4. QED
    BY <1>2, <2>1, <2>2, <2>3
<1> HIDE DEF hundreds
<1>6. rest \in Seq(Clip) /\ Told((s \o hundreds) \o rest, n, t)
  <2>0. s \o hundreds \in Seq(Clip)
    BY <1>5 DEF Told
  <2>1. CASE chuc_donvi = 0
    <3>1. rest = <<>> /\ n = 100 * num
      BY <1>2, <2>1
    <3>2. (s \o hundreds) \o <<>> = s \o hundreds
      BY <2>0, Strings
    <3> HIDE DEF rest
    <3>3. QED
      BY <1>4, <1>5, <3>1, <3>2, Zenon
  <2>2. CASE chuc_donvi # 0
    <3>1. le \in Seq(Clip) /\ Told((s \o hundreds) \o le, 100 * num, t)
      <4>1. CASE chuc_donvi < 10 /\ num > 0
        <5>1. le = <<Word("le")>>
          BY <4>1
        <5>2. Told((s \o hundreds) \o <<Word("le")>>, 100 * num, t)
          BY <1>5, OneMore
        <5> HIDE DEF le
        <5>3. QED
          BY <1>4, <5>1, <5>2, Zenon
      <4>2. CASE ~(chuc_donvi < 10 /\ num > 0)
        <5>1. le = <<>>
          BY <4>2
        <5>2. (s \o hundreds) \o <<>> = s \o hundreds
          BY <2>0, Strings
        <5> HIDE DEF le
        <5>3. QED
          BY <1>4, <1>5, <5>1, <5>2, Zenon
      <4>3. QED
        BY <4>1, <4>2
    <3>2. rest = le \o sayNumber(chuc_donvi)
      BY <2>2
    <3> HIDE DEF le, rest
    <3>3. Told(((s \o hundreds) \o le) \o sayNumber(chuc_donvi), 100 * num + chuc_donvi, t)
      BY <1>2, <3>1, NumberIsHeard
    <3>4. ((s \o hundreds) \o le) \o sayNumber(chuc_donvi) = (s \o hundreds) \o rest
      <4>1. s \o hundreds \in Seq(Clip) /\ le \in Seq(Clip) /\ sayNumber(chuc_donvi) \in Seq(Clip)
        BY <1>4, <2>0, <3>1
      <4> DEFINE a == s \o hundreds
                 b == sayNumber(chuc_donvi)
      <4> HIDE DEF a, b
      <4>2. (a \o le) \o b = a \o (le \o b)
        <5>1. a \in Seq(Clip) /\ b \in Seq(Clip) /\ le \in Seq(Clip)
          BY <4>1 DEF a, b
        <5>2. QED
          BY <5>1, Strings, SMTT(30)
      <4>3. QED
        BY <4>2, <3>2, Zenon DEF a, b
    <3>5. rest \in Seq(Clip)
      BY <1>4, <3>1, <3>2, Strings
    <3>6. QED
      BY <1>2, <3>3, <3>4, <3>5
  <2>3. QED
    BY <2>1, <2>2
<1> HIDE DEF le, rest
<1>7. s \o (hundreds \o rest \o unit) = ((s \o hundreds) \o rest) \o unit /\ unit \in Seq(Clip)
  <2>1. unit \in Seq(Clip)
    <3>1. CASE u = 1
      <4>1. units[u] = ""
        BY <3>1, Units
      <4>2. QED
        BY <4>1, <1>4
    <3>2. CASE u # 1
      BY <3>2, <1>4
    <3>3. QED
      BY <3>1, <3>2
  <2> HIDE DEF unit
  <2>2. hundreds \o rest \in Seq(Clip)
    BY <1>5, <1>6, Strings
  <2>3. (s \o (hundreds \o rest)) \o unit = s \o ((hundreds \o rest) \o unit)
    <3> DEFINE a == hundreds \o rest
    <3>1. s \in Seq(Clip) /\ a \in Seq(Clip) /\ unit \in Seq(Clip)
      BY <1>3, <2>1, <2>2
    <3> HIDE DEF a
    <3>2. (s \o a) \o unit = s \o (a \o unit)
      BY <3>1, Strings
    <3>3. QED
      BY <3>2 DEF a
  <2>4. (s \o hundreds) \o rest = s \o (hundreds \o rest)
    BY <1>3, <1>5, <1>6, Strings, SMTT(30)
  <2>5. QED
    BY <2>1, <2>3, <2>4, Zenon
<1> DEFINE said == (s \o hundreds) \o rest
<1>8. CASE u = 1 \/ n = 0
  <2>1. unit = <<>>
    <3>1. CASE n = 0
      BY <3>1
    <3>2. CASE u = 1
      <4>1. units[u] = ""
        BY <3>2, Units
      <4>2. QED
        BY <4>1
    <3>3. QED
      BY <1>8, <3>1, <3>2
  <2>2. said \o <<>> = said
    <3>1. said \in Seq(Clip)
      BY <1>6 DEF Told
    <3> HIDE DEF said
    <3>2. QED
      BY <3>1, Strings
  <2>3. QED
    BY <1>1, <1>6, <1>7, <1>8, <2>1, <2>2 DEF ToldGroup
<1>9. CASE u # 1 /\ n # 0
  <2>1. u \in 2..6 /\ n > 0
    BY <1>0, <1>9
  <2>2. units[u] \in {"nghin", "trieu", "ti", "nghinty", "trieuty"}
    BY <2>1, Units
  <2>3. unit = <<Word(units[u])>>
    BY <2>1, <2>2
  <2>4. Told(said \o <<Word(units[u])>>, 0, [t EXCEPT ![u] = @ + n])
    BY <1>6, <2>1, OneMore
  <2>5. s \o sayGroup(n, units[u], first) = said \o <<Word(units[u])>>
    BY <1>1, <1>7, <2>3
  <2>6. QED
    BY <1>9, <2>4, <2>5 DEF ToldGroup
<1>10. QED
  BY <1>8, <1>9

-----------------------------------------------------------------------------
(* readMoney *)

\* With the groups above j said, the number at hand and the digits put away:
\* those of nghin and above; the last group waits for dong.
AtHand(j) == IF j = -1 THEN requested[1] ELSE 0
Said(j) == [u \in 1..6 |-> IF u > 1 /\ u > j + 1 /\ u <= Len(requested) THEN requested[u] ELSE 0]

MoneyInv ==
    /\ requested \in Seq(Digits)
    /\ pc \in {"split", "say", "end", "fault"}
    /\ pc = "split" => /\ parts \in Seq(Digits) /\ amount \in Seq(Digits)
                       /\ parts \o amount = requested
                       /\ spoken = <<>>
    /\ pc = "say" => /\ parts = requested /\ requested # <<>>
                     /\ i \in -1..(Len(requested) - 1)
                     /\ IF Len(requested) > 6 THEN i = Len(requested) - 1
                        ELSE Told(spoken, AtHand(i), Said(i))
    /\ MeansTheAmount

\* The amount by its places, missing groups being 0.
LEMMA MeaningIs == Meaning(requested) = [u \in 1..6 |-> IF u <= Len(requested) THEN requested[u] ELSE 0]
<1>1. Len(units) = 6
  BY Units
<1>2. QED
  BY <1>1 DEF Meaning

\* The digits a listener has put away.
LEMMA ToldIsHeard ==
    ASSUME NEW s, NEW t, Told(s, 0, t)
    PROVE  Heard(s) = t
BY DEF Told, Heard, Mind

\* What Split takes off the amount and what it leaves make up the amount.
LEMMA HeadAndTail ==
    ASSUME NEW S, NEW a \in Seq(S), a # <<>>
    PROVE  <<Head(a)>> \o Tail(a) = a
<1> DEFINE b == <<Head(a)>> \o Tail(a)
<1>1. /\ Head(a) = a[1] /\ a[1] \in S /\ Len(a) \in Nat \ {0}
      /\ Tail(a) \in Seq(S) /\ Len(Tail(a)) = Len(a) - 1
      /\ \A k \in 1..(Len(a) - 1) : Tail(a)[k] = a[k + 1]
  OBVIOUS
<1>2. <<Head(a)>> \in Seq(S) /\ Len(<<Head(a)>>) = 1 /\ <<Head(a)>>[1] = a[1]
  BY <1>1
<1>3. /\ b \in Seq(S) /\ Len(b) = 1 + (Len(a) - 1)
      /\ \A k \in 1..(1 + (Len(a) - 1)) : b[k] = IF k <= 1 THEN <<Head(a)>>[k] ELSE Tail(a)[k - 1]
  BY <1>1, <1>2, ConcatProperties
<1> HIDE DEF b
<1>4. Len(b) = Len(a)
  BY <1>1, <1>3
<1>5. \A k \in 1..Len(b) : b[k] = a[k]
  <2> SUFFICES ASSUME NEW k \in 1..Len(b)
               PROVE  b[k] = a[k]
    OBVIOUS
  <2>1. CASE k = 1
    BY <1>1, <1>2, <1>3, <2>1
  <2>2. CASE k # 1
    <3>1. k - 1 \in 1..(Len(a) - 1) /\ (k - 1) + 1 = k /\ ~(k <= 1)
      BY <1>1, <1>4, <2>2
    <3>2. Tail(a)[k - 1] = a[k]
      BY <1>1, <3>1
    <3>3. b[k] = Tail(a)[k - 1]
      BY <1>1, <1>3, <1>4, <3>1
    <3>4. QED
      BY <3>2, <3>3
  <2>3. QED
    BY <2>1, <2>2
<1>6. b = a
  BY <1>3, <1>4, <1>5, SeqEqual
<1>7. QED
  BY <1>6 DEF b

\* Nothing is on the listener's mind before the first clip.
LEMMA NothingTold == Told(<<>>, 0, [u \in 1..6 |-> 0])
<1>1. Listening = Mind(0, [u \in 1..6 |-> 0])
  <2>1. Len(units) = 6
    BY Units
  <2>2. QED
    BY <2>1 DEF Listening, Mind
<1>2. <<>> \in Seq(Clip) /\ [u \in 1..6 |-> 0] \in Totals
  BY DEF Totals
<1>3. QED
  BY <1>1, <1>2, EarOfNothing DEF Told

\* A round of the for loop.
LEMMA RoundIsHeard ==
    ASSUME MoneyInv, SayPart
    PROVE  Len(requested) <= 6 /\ Told(spoken', AtHand(i - 1), Said(i - 1))
<1> DEFINE u == i + 1
           n == requested[u]
           group == sayGroup(n, units[u], i = Len(parts) - 1)
           s == spoken
<1>0. Len(units) = 6
  BY Units
<1>1. i \in 0..5 /\ i \in -1..(Len(requested) - 1) /\ parts = requested /\ requested \in Seq(Digits)
  <2>1. pc = "say" /\ i \in 0..(Len(units) - 1)
    BY DEF SayPart
  <2>2. QED
    BY <1>0, <2>1 DEF MoneyInv
<1>2. Len(requested) <= 6 /\ Told(spoken, AtHand(i), Said(i))
  <2>1. IF Len(requested) > 6 THEN i = Len(requested) - 1 ELSE Told(spoken, AtHand(i), Said(i))
    BY DEF MoneyInv, SayPart
  <2>2. Len(requested) \in Nat
    BY <1>1
  <2>3. QED
    BY <1>1, <2>1, <2>2
<1>3. spoken' = IF n = 0 /\ u # 1 THEN spoken ELSE spoken \o group
  BY <1>1 DEF SayPart
<1>4. u \in 1..6 /\ u \in 1..Len(requested) /\ n \in 0..999 /\ n \in Nat
  <2>1. u \in 1..6 /\ u \in 1..Len(requested)
    BY <1>1
  <2> HIDE DEF u
  <2>2. n \in Digits
    BY <1>1, <2>1, ElementOfSeq
  <2> HIDE DEF n
  <2>3. QED
    BY <2>1, <2>2 DEF Digits
<1>5. AtHand(i) = 0 /\ Told(s, 0, Said(i))
  BY <1>1, <1>2 DEF AtHand
<1>6. Said(i)[u] = 0
  BY <1>1, <1>4 DEF Said
<1>7. /\ Said(i - 1) = IF u = 1 THEN Said(i) ELSE [Said(i) EXCEPT ![u] = @ + n]
      /\ AtHand(i - 1) = IF u = 1 THEN n ELSE 0
  <2>1. AtHand(i - 1) = IF u = 1 THEN n ELSE 0
    BY <1>1 DEF AtHand
  <2>2. CASE u = 1
    <3>1. \A v \in 1..6 : Said(i - 1)[v] = Said(i)[v]
      BY <1>1, <2>2 DEF Said
    <3>2. QED
      BY <2>1, <2>2, <3>1 DEF Said
  <2>3. CASE u # 1
    <3> DEFINE t == [Said(i) EXCEPT ![u] = @ + n]
    <3>1. t = [v \in 1..6 |-> IF v = u THEN n ELSE Said(i)[v]]
      <4> DEFINE f == Said(i)
      <4>1. f = [v \in 1..6 |-> f[v]]
        BY DEF Said
      <4>2. f[u] + n = n
        BY <1>4, <1>6
      <4> HIDE DEF f, n
      <4>3. [f EXCEPT ![u] = @ + n] = [v \in 1..6 |-> IF v = u THEN n ELSE f[v]]
        BY <1>4, <4>1, <4>2
      <4>4. QED
        BY <4>3 DEF f
    <3>2. \A v \in 1..6 : Said(i - 1)[v] = IF v = u THEN n ELSE Said(i)[v]
      BY <1>1, <1>4, <2>3 DEF Said
    <3>3. Said(i - 1) = [v \in 1..6 |-> Said(i - 1)[v]]
      BY DEF Said
    <3>4. QED
      BY <2>1, <2>3, <3>1, <3>2, <3>3
  <2>4. QED
    BY <2>2, <2>3
<1>8. CASE n = 0 /\ u # 1
  <2>1. [Said(i) EXCEPT ![u] = @ + n] = Said(i)
    BY <1>4, <1>6, <1>8 DEF Said
  <2>2. spoken' = spoken /\ AtHand(i - 1) = 0 /\ Said(i - 1) = Said(i)
    BY <1>3, <1>7, <1>8, <2>1
  <2>3. QED
    BY <1>2, <1>5, <2>2
<1>9. CASE ~(n = 0 /\ u # 1)
  <2>1. spoken' = spoken \o group
    BY <1>3, <1>9
  <2> HIDE DEF n, u
  <2>2. ToldGroup(spoken \o group, Said(i), n, u)
    <3>1. n \in Digits /\ u \in Places
      BY <1>4 DEF Digits, Places
    <3>2. \A f : ToldGroup(s \o sayGroup(n, units[u], f), Said(i), n, u)
      BY <3>1, <1>5, GroupIsHeard
    <3>3. QED
      BY <3>2
  <2> HIDE DEF group, s
  <2>3. Told(spoken \o group, AtHand(i - 1), Said(i - 1))
    <3>1. CASE u = 1
      BY <1>7, <2>2, <3>1 DEF ToldGroup
    <3>2. CASE u # 1
      BY <1>7, <1>9, <2>2, <3>2 DEF ToldGroup
    <3>3. QED
      BY <3>1, <3>2
  <2>4. QED
    BY <1>2, <2>1, <2>3
<1>10. QED
  BY <1>8, <1>9

\* The invariant is inductive.
LEMMA MoneyStep == MoneyInv /\ [Next]_vars => MoneyInv'
<1> SUFFICES ASSUME MoneyInv, [Next]_vars
             PROVE  MoneyInv'
  OBVIOUS
<1>0. requested \in Seq(Digits) /\ Len(requested) \in Nat /\ Len(units) = 6
  <2>1. requested \in Seq(Digits)
    BY DEF MoneyInv
  <2>2. Len(units) = 6
    BY Units
  <2>3. QED
    BY <2>1, <2>2
<1>1. CASE ReadZero
  <2>1. requested = <<>> /\ requested' = requested /\ pc' = "end"
        /\ spoken' = <<Number(0), Word("dong")>>
    BY <1>1 DEF ReadZero
  <2>2. Told(<<>> \o <<Number(0)>>, 0, [u \in 1..6 |-> 0])
    <3>1. \A d \in 0..99 : Told(<<>> \o <<Number(d)>>, 0 + d, [u \in 1..6 |-> 0])
      BY NothingTold, OneMore
    <3>2. 0 \in 0..99
      OBVIOUS
    <3>3. Told(<<>> \o <<Number(0)>>, 0 + 0, [u \in 1..6 |-> 0])
      BY <3>1, <3>2, Zenon
    <3>4. 0 + 0 = 0
      OBVIOUS
    <3>5. QED
      BY <3>3, <3>4, Zenon
  <2>3. Told((<<>> \o <<Number(0)>>) \o <<Word("dong")>>, 0, [[u \in 1..6 |-> 0] EXCEPT ![1] = @ + 0])
    BY <2>2, OneMore
  <2>4. (<<>> \o <<Number(0)>>) \o <<Word("dong")>> = <<Number(0), Word("dong")>>
    <3>1. <<Number(0)>> \in Seq({Number(0)})
      OBVIOUS
    <3>2. <<>> \o <<Number(0)>> = <<Number(0)>>
      BY <3>1, ConcatEmptySeq
    <3>3. QED
      BY <3>2, PairIsConcat
  <2>5. [[u \in 1..6 |-> 0] EXCEPT ![1] = @ + 0] = [u \in 1..6 |-> 0]
    OBVIOUS
  <2>6. Heard(<<Number(0), Word("dong")>>) = [u \in 1..6 |-> 0]
    <3>1. Told(<<Number(0), Word("dong")>>, 0, [u \in 1..6 |-> 0])
      BY <2>3, <2>4, <2>5, Zenon
    <3>2. QED
      BY <3>1, ToldIsHeard
  <2>7. Meaning(requested) = [u \in 1..6 |-> 0]
    <3>1. Len(requested) = 0
      BY <2>1
    <3>2. QED
      BY <3>1, MeaningIs
  <2>8. MeansTheAmount'
    BY <2>1, <2>6, <2>7 DEF MeansTheAmount, Meaning
  <2>9. QED
    BY <1>0, <2>1, <2>8 DEF MoneyInv
<1>2. CASE Split
  <2>1. /\ pc = "split" /\ amount # <<>> /\ parts' = Append(parts, Head(amount))
        /\ amount' = Tail(amount) /\ UNCHANGED <<requested, i, pc, spoken>>
    BY <1>2 DEF Split
  <2>2. parts \in Seq(Digits) /\ amount \in Seq(Digits) /\ parts \o amount = requested /\ spoken = <<>>
    BY <2>1 DEF MoneyInv
  <2>3. parts' \in Seq(Digits) /\ amount' \in Seq(Digits)
    BY <2>1, <2>2
  <2>4. Append(parts, Head(amount)) \o Tail(amount) = parts \o amount
    <3>1. Head(amount) \in Digits /\ Tail(amount) \in Seq(Digits) /\ <<Head(amount)>> \in Seq(Digits)
      BY <2>1, <2>2
    <3>2. Append(parts, Head(amount)) = parts \o <<Head(amount)>>
      BY <2>2, <3>1, AppendIsConcat
    <3>3. (parts \o <<Head(amount)>>) \o Tail(amount) = parts \o (<<Head(amount)>> \o Tail(amount))
      BY <2>2, <3>1, ConcatAssociative
    <3>4. <<Head(amount)>> \o Tail(amount) = amount
      BY <2>1, <2>2, HeadAndTail
    <3>5. QED
      BY <3>2, <3>3, <3>4
  <2>5. MeansTheAmount'
    BY <2>1 DEF MeansTheAmount
  <2>6. QED
    BY <1>0, <2>1, <2>2, <2>3, <2>4, <2>5 DEF MoneyInv
<1>3. CASE SplitDone
  <2>1. /\ pc = "split" /\ amount = <<>> /\ requested # <<>> /\ i' = Len(parts) - 1 /\ pc' = "say"
        /\ UNCHANGED <<requested, amount, parts, spoken>>
    BY <1>3 DEF SplitDone
  <2>2. parts = requested /\ spoken = <<>>
    <3>1. parts \in Seq(Digits) /\ parts \o <<>> = requested /\ spoken = <<>>
      BY <2>1 DEF MoneyInv
    <3>2. QED
      BY <3>1, ConcatEmptySeq
  <2>3. Len(requested) \in Nat /\ Len(requested) > 0
    BY <1>0, <2>1
  <2>4. i' \in -1..(Len(requested) - 1) /\ i' = Len(requested) - 1
    BY <2>1, <2>2, <2>3
  <2>5. AtHand(i') = 0
    BY <2>3, <2>4 DEF AtHand
  <2>6. Said(i') = [u \in 1..6 |-> 0]
    BY <2>3, <2>4 DEF Said
  <2>7. Told(spoken', AtHand(i'), Said(i'))
    BY <2>1, <2>2, <2>5, <2>6, NothingTold
  <2>8. (AtHand(i))' = AtHand(i') /\ (Said(i))' = Said(i')
    BY <2>1 DEF AtHand, Said
  <2>9. MeansTheAmount'
    BY <2>1 DEF MeansTheAmount
  <2>10. QED
    BY <1>0, <2>1, <2>2, <2>4, <2>7, <2>8, <2>9 DEF MoneyInv
<1>4. CASE SayPart
  <2>1. /\ pc = "say" /\ i \in 0..5 /\ i' = i - 1 /\ UNCHANGED <<requested, amount, parts, pc>>
    BY <1>0, <1>4 DEF SayPart
  <2>2. parts = requested /\ requested # <<>> /\ i \in -1..(Len(requested) - 1)
    BY <2>1 DEF MoneyInv
  <2>3. Len(requested) <= 6 /\ Told(spoken', AtHand(i - 1), Said(i - 1))
    BY <1>4, RoundIsHeard
  <2>4. (AtHand(i))' = AtHand(i - 1) /\ (Said(i))' = Said(i - 1)
    BY <2>1 DEF AtHand, Said
  <2>5. ~(Len(requested') > 6) /\ i' \in -1..(Len(requested') - 1)
    BY <1>0, <2>1, <2>2, <2>3
  <2>6. MeansTheAmount'
    BY <2>1 DEF MeansTheAmount
  <2>7. QED
    BY <1>0, <2>1, <2>2, <2>3, <2>4, <2>5, <2>6 DEF MoneyInv
<1>5. CASE PastUnits
  <2>1. pc = "say" /\ i >= 6 /\ pc' = "fault" /\ UNCHANGED <<requested, amount, parts, i, spoken>>
    BY <1>0, <1>5 DEF PastUnits
  <2>2. i \in -1..(Len(requested) - 1)
    BY <2>1 DEF MoneyInv
  <2>3. Len(requested) > Len(units)
    BY <1>0, <2>1, <2>2
  <2>4. MeansTheAmount'
    BY <2>1, <2>3 DEF MeansTheAmount
  <2>5. QED
    BY <1>0, <2>1, <2>4 DEF MoneyInv
<1>6. CASE SayDong
  <2>1. /\ pc = "say" /\ i < 0 /\ spoken' = Append(spoken, Word("dong")) /\ pc' = "end"
        /\ UNCHANGED <<requested, amount, parts, i>>
    BY <1>6 DEF SayDong
  <2>2. requested # <<>> /\ i \in -1..(Len(requested) - 1)
        /\ IF Len(requested) > 6 THEN i = Len(requested) - 1 ELSE Told(spoken, AtHand(i), Said(i))
    BY <2>1 DEF MoneyInv
  <2>3. i = -1 /\ Len(requested) > 0
    BY <1>0, <2>1, <2>2
  <2>4. Told(spoken, requested[1], Said(-1))
    BY <1>0, <2>2, <2>3 DEF AtHand
  <2>5. Told(spoken \o <<Word("dong")>>, 0, [Said(-1) EXCEPT ![1] = @ + requested[1]])
    BY <2>4, OneMore
  <2>6. Append(spoken, Word("dong")) = spoken \o <<Word("dong")>>
    <3>1. spoken \in Seq(Clip) /\ Word("dong") \in Clip
      BY <2>4, Clips DEF Told, Words
    <3>2. QED
      BY <3>1, AppendIsConcat
  <2>7. [Said(-1) EXCEPT ![1] = @ + requested[1]] = Meaning(requested)
    <3>1. requested[1] \in Nat
      <4>1. 1 \in 1..Len(requested)
        BY <1>0, <2>3
      <4>2. requested[1] \in Digits
        BY <1>0, <4>1, ElementOfSeq
      <4>3. \A d \in Digits : d \in Nat
        BY DEF Digits
      <4>4. QED
        BY <4>2, <4>3
    <3>2. Said(-1)[1] = 0
      <4>1. 1 \in 1..6 /\ ~(1 > 1)
        OBVIOUS
      <4>2. QED
        BY <4>1 DEF Said
    <3>3. [Said(-1) EXCEPT ![1] = @ + requested[1]]
          = [u \in 1..6 |-> IF u = 1 THEN requested[1] ELSE Said(-1)[u]]
      <4>1. Said(-1)[1] + requested[1] = requested[1]
        BY <3>1, <3>2
      <4>2. Said(-1) = [u \in 1..6 |-> Said(-1)[u]]
        BY DEF Said
      <4>3. QED
        BY <4>1, <4>2
    <3>4. \A u \in 1..6 : (IF u = 1 THEN requested[1] ELSE Said(-1)[u])
                          = IF u <= Len(requested) THEN requested[u] ELSE 0
      BY <1>0, <2>3 DEF Said
    <3>5. QED
      BY <3>3, <3>4, MeaningIs
  <2>8. Heard(spoken') = Meaning(requested)
    <3>1. Told(spoken', 0, Meaning(requested))
      BY <2>1, <2>5, <2>6, <2>7, Zenon
    <3>2. QED
      BY <3>1, ToldIsHeard
  <2>9. MeansTheAmount'
    BY <2>1, <2>8 DEF MeansTheAmount, Meaning
  <2>10. QED
    BY <1>0, <2>1, <2>9 DEF MoneyInv
<1>7. CASE UNCHANGED vars
  BY <1>7 DEF vars, MoneyInv, MeansTheAmount, AtHand, Said, Told
<1>8. QED
  BY <1>1, <1>2, <1>3, <1>4, <1>5, <1>6, <1>7 DEF Next, Over

\* For every amount: whoever listens to readMoney to its end has heard that
\* amount, and only one of seven groups or more leads it past units[]
\* (play_amount_LPB.c:48-131).
THEOREM AmountIsUnderstood == Spec => []MeansTheAmount
<1>1. Init => MoneyInv
  <2> SUFFICES ASSUME Init
               PROVE  MoneyInv
    OBVIOUS
  <2>1. requested \in Seq(Digits) /\ amount = requested /\ parts = <<>> /\ pc = "split" /\ spoken = <<>>
    BY AmountsAssumption DEF Init
  <2>2. <<>> \o requested = requested /\ <<>> \in Seq(Digits)
    BY <2>1, ConcatEmptySeq
  <2>3. QED
    BY <2>1, <2>2 DEF MoneyInv, MeansTheAmount
<1>2. MoneyInv => MeansTheAmount
  BY DEF MoneyInv
<1>3. QED
  BY <1>1, <1>2, MoneyStep, PTL DEF Spec
=============================================================================
