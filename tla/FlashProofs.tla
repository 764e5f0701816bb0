----------------------------- MODULE FlashProofs -----------------------------
(***************************************************************************)
(* Proofs about what a restart finds: the serial that SerialStore keeps,   *)
(* for any serials, any limits and any number of commands, failures and    *)
(* power losses; and the new firmware of FotaDownload, for every set of    *)
(* file lengths and any number of downloads.                               *)
(***************************************************************************)
EXTENDS SerialStore, FotaDownload, SequenceTheorems, WellFoundedInduction, TLAPS

-----------------------------------------------------------------------------
(* The serial number *)

\* The part of the flash that flash_read reads holds n characters of s.
Holds(s, n) == \A i \in 1..ReadLen : flash[i] = IF i <= n THEN Char(s, i) ELSE FF

\* What the content of the flash has to do with the rest of the state, as
\* long as no erase has failed.
Content(s, n) ==
    /\ Holds(s, n)
    /\ n > 0 => s \in Serials
    /\ pc \in {"write", "written", "reset"} => s = target /\ n = k
    /\ told # Nobody => s = told /\ n = told.len
    /\ flaws = {} /\ pc # "write" /\ n > 0 => n = s.len /\ n < ReadLen

\* The inductive invariant on the flash and on the task that writes it.
FlashInv ==
    /\ flash = [i \in Cells |-> flash[i]]
    /\ k \in Nat
    /\ told \in Serials \union {Nobody}
    /\ pc \in {"write", "written", "reset"} => target \in Serials /\ target.len < SNLimit
    /\ pc = "write" => told = Nobody
    /\ pc \in {"written", "reset"} => k = target.len
    /\ "not erased" \notin flaws =>
           \E s \in Serials \union {Nobody}, n \in Nat : Content(s, n)

\* A serial is told apart from an erased and from a zeroed cell.
LEMMA CharIsNoEnd ==
    ASSUME NEW s, NEW i
    PROVE  Char(s, i) # FF /\ Char(s, i) # NUL
BY DEF Char, FF, NUL

\* flash_read returns what the flash holds, cut off at ReadLen (flash.c:67-90).
LEMMA ReadBackOfHolds ==
    ASSUME NEW s, NEW n \in Nat, Holds(s, n)
    PROVE  LET m == IF n < ReadLen THEN n ELSE ReadLen
           IN  ReadBack = [i \in 1..m |-> Char(s, i)] /\ Len(ReadBack) = m
<1> DEFINE m == IF n < ReadLen THEN n ELSE ReadLen
           ends == {i \in 1..ReadLen : flash[i] \in {FF, NUL}}
           size == IF ends = {} THEN ReadLen
                   ELSE (CHOOSE i \in ends : \A j \in ends : i <= j) - 1
<1>1. ReadLen \in Nat /\ m \in Nat /\ m <= ReadLen
  BY LimitsAssumption
<1>2. ends = {i \in 1..ReadLen : i > n}
  <2> SUFFICES ASSUME NEW i \in 1..ReadLen
               PROVE  flash[i] \in {FF, NUL} <=> i > n
    OBVIOUS
  <2>1. CASE i <= n
    <3>1. flash[i] = Char(s, i)
      BY <2>1 DEF Holds
    <3>2. QED
      BY <2>1, <3>1, <1>1, CharIsNoEnd
  <2>2. CASE i > n
    <3>1. flash[i] = FF
      BY <2>2, <1>1 DEF Holds
    <3>2. QED
      BY <2>2, <3>1
  <2>3. QED
    BY <2>1, <2>2, <1>1
<1>3. size = m
  <2>1. CASE n < ReadLen
    <3>1. n + 1 \in ends /\ \A j \in ends : n + 1 <= j
      BY <1>1, <1>2, <2>1
    <3>2. (CHOOSE i \in ends : \A j \in ends : i <= j) = n + 1
      <4> DEFINE least == CHOOSE i \in ends : \A j \in ends : i <= j
      <4>1. least \in ends /\ \A j \in ends : least <= j
        BY <3>1
      <4>2. least <= n + 1 /\ n + 1 <= least
        BY <3>1, <4>1
      <4>3. least \in Int
        BY <4>1
      <4> HIDE DEF least
      <4>4. least = n + 1
        BY <4>2, <4>3
      <4>5. QED
        BY <4>4 DEF least
    <3>3. QED
      BY <2>1, <3>1, <3>2
  <2>2. CASE ~(n < ReadLen)
    BY <2>2, <1>1, <1>2
  <2>3. QED
    BY <2>1, <2>2
<1>4. ReadBack = SubSeq(flash, 1, m)
  BY <1>3 DEF ReadBack
<1>5. \A i \in 1..m : flash[i] = Char(s, i)
  BY <1>1 DEF Holds
<1>6. /\ SubSeq(flash, 1, m) \in Seq({Char(s, i) : i \in 1..m})
      /\ Len(SubSeq(flash, 1, m)) = m
      /\ \A i \in 1..m : SubSeq(flash, 1, m)[i] = flash[i]
  <2> DEFINE S == {Char(s, i) : i \in 1..m}
  <2>1. \A i \in 1..m : flash[i] \in S
    BY <1>5
  <2> HIDE DEF S, m
  <2>2. /\ SubSeq(flash, 1, m) \in Seq(S)
        /\ Len(SubSeq(flash, 1, m)) = IF 1 <= m THEN m - 1 + 1 ELSE 0
        /\ \A i \in 1..(m - 1 + 1) : SubSeq(flash, 1, m)[i] = flash[1 + i - 1]
    BY <1>1, <2>1, SubSeqProperties
  <2>3. \A i \in 1..m : i \in 1..(m - 1 + 1) /\ 1 + i - 1 = i
    BY <1>1
  <2>4. (IF 1 <= m THEN m - 1 + 1 ELSE 0) = m
    BY <1>1
  <2>5. QED
    BY <2>2, <2>3, <2>4 DEF S
<1> HIDE DEF m
<1>7. SubSeq(flash, 1, m) = [i \in 1..m |-> Char(s, i)]
  BY <1>1, <1>5, <1>6
<1>8. QED
  BY <1>4, <1>6, <1>7 DEF m

-----------------------------------------------------------------------------

\* A char over an erased cell is the char: NOR cells only lose bits.
LEMMA OverErased == ASSUME NEW c PROVE Programmed(FF, c) = {c}
<1>1. FF # NUL /\ FF \in {FF, c}
  BY DEF FF, NUL
<1>2. QED
  BY <1>1, Zenon DEF Programmed

LEMMA Limits == ReadLen \in Nat /\ SNLimit \in Nat /\ ReadLen < SNLimit
BY LimitsAssumption

LEMMA Lengths == \A s \in Serials : s.len \in Nat /\ s # Nobody
<1>1. Nobody.name = "mac"
  BY DEF Nobody
<1>2. QED
  BY <1>1, SerialsAssumption

\* A step that leaves the flash, its flaws and what was told alone, and begins
\* nothing, leaves the content as it was.
LEMMA ContentStays ==
    ASSUME NEW s, NEW n, Content(s, n),
           UNCHANGED <<flash, told, flaws>>, pc # "write", pc' # "write",
           \/ pc' \notin {"write", "written", "reset"}
           \/ pc \in {"written", "reset"} /\ UNCHANGED <<target, k>>
    PROVE  Content(s, n)'
BY DEF Content, Holds

\* No step of the device, no command and no power loss breaks FlashInv
\* (mqtt.c:304-346, flash.c:58-65).
LEMMA FlashStep == FlashInv /\ [Next]_vars => FlashInv'
<1> SUFFICES ASSUME FlashInv, [Next]_vars
             PROVE  FlashInv'
  OBVIOUS
<1> USE DEF FlashInv
<1>1. CASE Boot
  <2>1. UNCHANGED <<flash, told, flaws>> /\ pc = "off" /\ pc' = "run" /\ UNCHANGED <<k, target>>
    BY <1>1 DEF Boot
  <2>2. QED
    BY <2>1, ContentStays
<1>2. CASE WriteCell
  <2>1. /\ pc = "write" /\ k < target.len /\ k' = k + 1
        /\ UNCHANGED <<pc, target, told, flaws>>
        /\ \E cell \in Programmed(flash[k + 1], Char(target, k + 1)) :
               flash' = [flash EXCEPT ![k + 1] = cell]
    BY <1>2 DEF WriteCell
  <2>2. k \in Nat /\ target \in Serials /\ target.len \in Nat /\ target.len < SNLimit
    BY <2>1, Lengths
  <2>3. k + 1 \in Cells
    <3> HIDE DEF FlashInv
    <3>1. k + 1 \in Nat /\ 1 <= k + 1 /\ k + 1 <= SNLimit - 1
      BY <2>1, <2>2, Limits
    <3>2. QED
      BY <3>1, Limits DEF Cells
  <2>4. PICK cell \in Programmed(flash[k + 1], Char(target, k + 1)) :
            flash' = [flash EXCEPT ![k + 1] = cell]
    BY <2>1
  <2>5. flash' = [i \in Cells |-> flash'[i]]
    BY <2>4
  <2>6. ASSUME NEW s \in Serials \union {Nobody}, NEW n \in Nat, Content(s, n)
        PROVE  Content(target, k)'
    <3>1. Holds(target, k) /\ told = Nobody
      BY <2>1, <2>6 DEF Content
    <3> HIDE DEF FlashInv
    <3>2. ASSUME NEW i \in 1..ReadLen
          PROVE  flash'[i] = IF i <= k + 1 THEN Char(target, i) ELSE FF
      <4>1. i \in Cells /\ flash[i] = IF i <= k THEN Char(target, i) ELSE FF
        BY <3>1, Limits DEF Holds, Cells
      <4>2. CASE i = k + 1
        <5>1. flash[k + 1] = FF
          BY <4>1, <4>2, <2>2
        <5>2. cell = Char(target, k + 1)
          BY <5>1, OverErased
        <5>3. flash'[k + 1] = cell
          BY <2>3, <2>4, FlashInv DEF FlashInv
        <5>4. QED
          BY <5>2, <5>3, <4>2, <2>2
      <4>3. CASE i # k + 1
        <5>1. flash'[i] = flash[i]
          BY <2>3, <2>4, <4>1, <4>3, FlashInv DEF FlashInv
        <5>2. (i <= k + 1) <=> (i <= k)
          BY <4>3, <2>2
        <5>3. QED
          BY <4>1, <5>1, <5>2
      <4>4. QED
        BY <4>2, <4>3
    <3>3. Holds(target, k)'
      <4>1. UNCHANGED target /\ k' = k + 1
        BY <2>1
      <4>2. QED
        BY <4>1, <3>2 DEF Holds, Char
    <3>4. target' = target /\ k' = k + 1 /\ pc' = "write" /\ told' = Nobody
      BY <2>1, <3>1
    <3>5. QED
      BY <3>3, <3>4, <2>2 DEF Content
  <2>7. k' \in Nat /\ told' \in Serials \union {Nobody} /\ told' = Nobody
    <3>1. told' = told /\ told = Nobody
      BY <2>1
    <3> HIDE DEF FlashInv
    <3>2. k' \in Nat
      BY <2>1, <2>2
    <3>3. QED
      BY <3>1, <3>2
  <2>8. ASSUME "not erased" \notin flaws'
        PROVE  \E s \in Serials \union {Nobody}, n \in Nat : Content(s, n)'
    <3>1. PICK s \in Serials \union {Nobody}, n \in Nat : Content(s, n)
      BY <2>1, <2>8
    <3>2. Content(target, k)'
      BY <3>1, <2>6
    <3>3. target' \in Serials
      BY <2>1, <2>2
    <3> HIDE DEF FlashInv
    <3>4. QED
      BY <3>2, <3>3, <2>7
  <2>9. QED
    BY <2>1, <2>2, <2>5, <2>7, <2>8
<1>3. CASE WriteDone
  <2> USE <1>3 DEF WriteDone
  <2>1. ASSUME NEW s \in Serials \union {Nobody}, NEW n \in Nat, Content(s, n)
        PROVE  Content(s, n)'
    <3>1. s = target /\ n = k /\ k = target.len
      BY <2>1 DEF Content
    <3>2. flaws' = {} => target.len < ReadLen
      <4>1. target.len >= ReadLen => "too long" \in flaws'
        OBVIOUS
      <4>2. target.len \in Nat
        BY Lengths
      <4> HIDE DEF FlashInv, WriteDone
      <4>3. QED
        BY <4>1, <4>2, Limits
    <3>3. QED
      BY <2>1, <3>1, <3>2 DEF Content, Holds
  <2>2. "not erased" \notin flaws' => "not erased" \notin flaws
    OBVIOUS
  <2>3. QED
    BY <2>1, <2>2
<1>4. CASE WriteFails
  <2> USE <1>4 DEF WriteFails
  <2>1. ASSUME NEW s \in Serials \union {Nobody}, NEW n \in Nat, Content(s, n)
        PROVE  Content(s, n)'
    BY <2>1 DEF Content, Holds
  <2>2. QED
    BY <2>1
<1>5. CASE Confirm
  <2> USE <1>5 DEF Confirm
  <2>1. ASSUME NEW s \in Serials \union {Nobody}, NEW n \in Nat, Content(s, n)
        PROVE  Content(s, n)'
    <3>1. s = target /\ n = k /\ k = target.len
      BY <2>1 DEF Content
    <3>2. QED
      BY <2>1, <3>1 DEF Content, Holds
  <2>2. QED
    BY <2>1
<1>6. CASE PowerReset
  <2>1. UNCHANGED <<flash, told, flaws>> /\ pc = "reset" /\ pc' = "off" /\ k' = 0
    BY <1>6 DEF PowerReset, Down
  <2>2. QED
    BY <2>1, ContentStays
<1>7. ASSUME NEW s \in Serials, SetSNReturns(s)
      PROVE  FlashInv'
  <2>1. UNCHANGED <<flash, told, flaws, k>> /\ pc = "run" /\ pc' = "dead"
    BY <1>7 DEF SetSNReturns
  <2>2. QED
    BY <2>1, ContentStays
<1>8. ASSUME NEW s \in Serials, SetSNErase(s)
      PROVE  FlashInv'
  <2> USE <1>8 DEF SetSNErase
  <2>1. flash' = [i \in Cells |-> flash'[i]]
    OBVIOUS
  <2>2. ASSUME "not erased" \notin flaws'
        PROVE  Content(s, 0)'
    <3>1. \A i \in 1..ReadLen : i \in Cells /\ flash'[i] = FF /\ ~(i <= 0)
      <4>1. flash' = [i \in Cells |-> IF i <= ReadLen THEN FF ELSE flash[i]]
        BY <2>2
      <4> HIDE DEF FlashInv, SetSNErase
      <4>2. QED
        BY <4>1, Limits DEF Cells
    <3>2. Holds(s, 0)'
      BY <3>1 DEF Holds
    <3>3. QED
      BY <3>2 DEF Content
  <2>3. QED
    BY <2>1, <2>2
<1>9. CASE PowerLoss
  <2> USE <1>9 DEF PowerLoss, Down
  <2>1. ASSUME NEW s \in Serials \union {Nobody}, NEW n \in Nat, Content(s, n)
        PROVE  Content(s, n)'
    BY <2>1 DEF Content, Holds
  <2>2. QED
    BY <2>1
<1>10. CASE UNCHANGED vars
  BY <1>10 DEF vars, Content, Holds
<1>11. QED
  BY <1>1, <1>2, <1>3, <1>4, <1>5, <1>6, <1>7, <1>8, <1>9, <1>10 DEF Next, DeviceStep

\* The flash holds what was written to it, or nothing, in every reachable state.
LEMMA FlashIsKnown == Spec => []FlashInv
<1>1. Init => FlashInv
  <2> SUFFICES ASSUME Init
               PROVE  FlashInv
    OBVIOUS
  <2>1. \A i \in 1..ReadLen : i \in Cells /\ ~(i <= 0)
    BY LimitsAssumption DEF Cells
  <2>2. Content(Nobody, 0)
    BY <2>1 DEF Init, Content, Holds
  <2>3. QED
    BY <2>2 DEF Init, FlashInv
<1>2. QED
  BY <1>1, FlashStep, PTL DEF Spec

-----------------------------------------------------------------------------

\* A serial in the range that every part of the program supports.
Supported(s) == MinLen < s.len /\ s.len < ReadLen

\* What the identity in RAM has to do with the flash it was read from.
InUse ==
    told # Nobody /\ Supported(told) /\ "not erased" \notin flaws =>
        (pc \in {"run", "dead"} =>
             IF "not read" \in snFlaws THEN SN = Mac ELSE SN = Whole(told))

\* The flaws of the flash are not those of its reading.
FlawsOfFlash == "not read" \notin flaws

IdentityInv == NeverABlend /\ IdentityIsWhole /\ InUse /\ FlawsOfFlash

\* A flash that could not be read is as good as an empty one: mac_id it is.
LEMMA UnreadIsMac == TakeIdentity(<<>>) => sn_mode' = 0 /\ SN' = Mac
<1>1. Len(<<>>) = 0 /\ MinLen \in Nat
  BY LimitsAssumption
<1>2. ~(Len(<<>>) > MinLen)
  BY <1>1
<1>3. QED
  BY <1>2 DEF TakeIdentity

\* What main_app takes for its serial when the flash holds n characters of s
\* (main.c:36-60): those, and behind ReadLen of them perhaps something else.
LEMMA BootReads ==
    ASSUME NEW s, NEW n \in Nat, Holds(s, n), Boot, sn_mode' = 1
    PROVE  /\ n > MinLen
           /\ \A i \in 1..Len(SN') : i <= ReadLen => SN'[i] = Char(s, i)
           /\ n < ReadLen => SN' = [i \in 1..n |-> Char(s, i)]
<1> DEFINE m == IF n < ReadLen THEN n ELSE ReadLen
<1>1. MinLen \in Nat /\ ReadLen \in Nat /\ MinLen < ReadLen /\ m \in Nat
  BY LimitsAssumption
<1>2. ReadBack = [i \in 1..m |-> Char(s, i)] /\ Len(ReadBack) = m
  BY ReadBackOfHolds
<1>3. /\ m > MinLen
      /\ SN' = ReadBack \/ (m = ReadLen /\ SN' = Append(ReadBack, <<"stray", 1>>))
  <2> HIDE DEF m
  <2> DEFINE R == ReadBack
             len == Len(R)
  <2>1. IF len > MinLen
        THEN /\ sn_mode' = 1
             /\ SN' = R \/ (len = ReadLen /\ SN' = Append(R, <<"stray", 1>>))
        ELSE sn_mode' = 0 /\ SN' = Mac
    <3>1. TakeIdentity(R) \/ TakeIdentity(<<>>)
      BY DEF Boot
    <3>2. TakeIdentity(R)
      BY <3>1, UnreadIsMac
    <3>3. QED
      BY <3>2 DEF TakeIdentity
  <2>2. len = m
    BY <1>2
  <2> HIDE DEF R, len
  <2>3. /\ len > MinLen
        /\ SN' = R \/ (len = ReadLen /\ SN' = Append(R, <<"stray", 1>>))
    BY <2>1
  <2>4. QED
    BY <2>2, <2>3 DEF R
<1>4. ReadBack \in Seq({Char(s, i) : i \in 1..m})
  <2> DEFINE S == {Char(s, i) : i \in 1..m}
  <2>1. \A i \in 1..m : Char(s, i) \in S
    OBVIOUS
  <2> HIDE DEF S, m
  <2>2. [i \in 1..m |-> Char(s, i)] \in Seq(S)
    BY <2>1, <1>1
  <2>3. QED
    BY <1>2, <2>2 DEF S
<1>5. CASE SN' = ReadBack
  BY <1>1, <1>2, <1>3, <1>5
<1>6. CASE m = ReadLen /\ SN' = Append(ReadBack, <<"stray", 1>>)
  <2>1. Len(SN') = m + 1 /\ \A i \in 1..m : SN'[i] = ReadBack[i]
    <3> HIDE DEF m
    <3>1. \A i \in 1..Len(ReadBack) : Append(ReadBack, <<"stray", 1>>)[i] = ReadBack[i]
      BY <1>4, AppendProperties
    <3>2. Len(Append(ReadBack, <<"stray", 1>>)) = Len(ReadBack) + 1
      BY <1>4, AppendProperties
    <3>3. QED
      BY <1>2, <1>6, <3>1, <3>2
  <2>2. ~(n < ReadLen)
    BY <1>1, <1>6
  <2>3. \A i \in 1..Len(SN') : i <= ReadLen => i \in 1..m
    BY <1>1, <1>6, <2>1
  <2>4. QED
    BY <1>1, <1>2, <1>3, <2>1, <2>2, <2>3
<1>7. QED
  BY <1>3, <1>5, <1>6

\* No step gives the device an identity nobody gave it.
LEMMA IdentityStep == FlashInv /\ IdentityInv /\ [Next]_vars => IdentityInv'
<1> SUFFICES ASSUME FlashInv, IdentityInv, [Next]_vars
             PROVE  IdentityInv'
  OBVIOUS
<1>1. CASE Boot
  <2>1. /\ UNCHANGED <<told, flaws>> /\ pc = "off" /\ sn_mode' \in {0, 1}
        /\ snFlaws' = flaws \/ snFlaws' = flaws \union {"not read"}
    BY <1>1 DEF Boot, TakeIdentity
  <2>2. CASE "not erased" \in flaws
    BY <2>1, <2>2 DEF IdentityInv, NeverABlend, IdentityIsWhole, InUse, FlawsOfFlash
  <2>3. CASE "not erased" \notin flaws
    <3>1. PICK s \in Serials \union {Nobody}, n \in Nat : Content(s, n)
      BY <2>3 DEF FlashInv
    <3>2. Holds(s, n)
      BY <3>1 DEF Content
    <3>3. MinLen \in Nat /\ ReadLen \in Nat
      BY LimitsAssumption
    <3>4. ASSUME sn_mode' = 1
          PROVE  NeverABlend' /\ IdentityIsWhole'
      <4>1. /\ n > MinLen
            /\ \A i \in 1..Len(SN') : i <= ReadLen => SN'[i] = Char(s, i)
            /\ n < ReadLen => SN' = [i \in 1..n |-> Char(s, i)]
        BY <1>1, <3>2, <3>4, BootReads
      <4>2. s \in Serials
        <5>1. n > 0
          BY <4>1, <3>3
        <5>2. QED
          BY <3>1, <5>1 DEF Content
      <4>3. flaws = {} => n = s.len /\ n < ReadLen
        <5>1. n > 0
          BY <4>1, <3>3
        <5>2. QED
          BY <3>1, <2>1, <5>1 DEF Content
      <4>4. NeverABlend'
        BY <4>1, <4>2 DEF NeverABlend
      <4>5. IdentityIsWhole'
        BY <4>1, <4>2, <4>3, <2>1 DEF IdentityIsWhole, Whole
      <4>6. QED
        BY <4>4, <4>5
    <3>5. ASSUME sn_mode' = 0
          PROVE  NeverABlend' /\ IdentityIsWhole'
      BY <3>5 DEF NeverABlend, IdentityIsWhole
    <3>6. ASSUME told # Nobody, Supported(told)
          PROVE  IF "not read" \in snFlaws' THEN SN' = Mac ELSE SN' = Whole(told)
      <4>1. s = told /\ n = told.len /\ MinLen < n /\ n < ReadLen
        BY <3>1, <3>6 DEF Content, Supported
      <4>2. Len(ReadBack) = n
        BY <3>2, <4>1, ReadBackOfHolds
      <4>3. CASE TakeIdentity(ReadBack) /\ snFlaws' = flaws
        <5>1. sn_mode' = 1
          BY <4>1, <4>2, <4>3 DEF TakeIdentity
        <5>2. SN' = [i \in 1..n |-> Char(s, i)]
          BY <1>1, <3>2, <4>1, <5>1, BootReads
        <5>3. "not read" \notin snFlaws'
          BY <4>3 DEF IdentityInv, FlawsOfFlash
        <5>4. QED
          BY <4>1, <5>2, <5>3 DEF Whole
      <4>4. CASE TakeIdentity(<<>>) /\ snFlaws' = flaws \union {"not read"}
        BY <4>4, UnreadIsMac
      <4>5. QED
        BY <1>1, <4>3, <4>4 DEF Boot
    <3>7. InUse'
      BY <3>6, <2>1 DEF InUse, Supported, Whole
    <3>8. QED
      BY <3>4, <3>5, <3>7, <2>1 DEF IdentityInv, FlawsOfFlash
  <2>4. QED
    BY <2>2, <2>3
<1>2. CASE WriteCell \/ WriteDone \/ Confirm
  BY <1>2 DEF WriteCell, WriteDone, Confirm, IdentityInv, NeverABlend, IdentityIsWhole, InUse, FlawsOfFlash
<1>3. CASE WriteFails
  <2>1. told' = Nobody
    BY <1>3 DEF WriteFails, FlashInv
  <2>2. QED
    BY <1>3, <2>1 DEF WriteFails, IdentityInv, NeverABlend, IdentityIsWhole, InUse, FlawsOfFlash
<1>4. CASE PowerReset \/ PowerLoss
  <2>1. pc' = "off" /\ sn_mode' = 0
    BY <1>4 DEF PowerReset, PowerLoss, Down
  <2>2. NeverABlend' /\ IdentityIsWhole'
    BY <2>1 DEF NeverABlend, IdentityIsWhole
  <2>3. InUse'
    BY <2>1 DEF InUse
  <2>4. FlawsOfFlash'
    <3>1. flaws' = flaws \/ flaws' = flaws \union {"cut short"}
      BY <1>4 DEF PowerReset, PowerLoss
    <3>2. "not read" \notin flaws /\ "cut short" # "not read"
      BY DEF IdentityInv, FlawsOfFlash
    <3>3. QED
      BY <3>1, <3>2 DEF FlawsOfFlash
  <2>5. QED
    BY <2>2, <2>3, <2>4 DEF IdentityInv
<1>5. ASSUME NEW s \in Serials, SetSNReturns(s) \/ SetSNErase(s)
      PROVE  IdentityInv'
  <2>1. CASE SetSNReturns(s)
    BY <2>1 DEF SetSNReturns, IdentityInv, NeverABlend, IdentityIsWhole, InUse, FlawsOfFlash, Supported, Whole
  <2>2. CASE SetSNErase(s)
    BY <2>2 DEF SetSNErase, IdentityInv, NeverABlend, IdentityIsWhole, InUse, FlawsOfFlash
  <2>3. QED
    BY <1>5, <2>1, <2>2
<1>6. CASE UNCHANGED vars
  BY <1>6 DEF vars, IdentityInv, NeverABlend, IdentityIsWhole, InUse, FlawsOfFlash, Supported, Whole
<1>7. QED
  BY <1>1, <1>2, <1>3, <1>4, <1>5, <1>6 DEF Next, DeviceStep

LEMMA IdentityIsKnown == Spec => [](FlashInv /\ IdentityInv)
<1>1. Init => IdentityInv
  BY DEF Init, IdentityInv, NeverABlend, IdentityIsWhole, InUse, FlawsOfFlash
<1>2. QED
  BY <1>1, IdentityStep, FlashIsKnown, PTL DEF Spec

\* Whatever is interrupted: without a failed erase, the serial the device goes
\* by is never a blend of two (mqtt.c:323-335, flash.c:58-90).
THEOREM NoBlend == Spec => []NeverABlend
BY IdentityIsKnown, PTL DEF IdentityInv

\* With no erase and no write that failed, and a serial flash_read can return,
\* the device goes by a whole serial that somebody gave it.
THEOREM WholeIdentity == Spec => []IdentityIsWhole
BY IdentityIsKnown, PTL DEF IdentityInv

\* A serial that was confirmed stays in the flash through every restart and
\* power loss until the next SET_SN begins, and is in use in every run that
\* could read the flash; in one that could not, mac_id is (mqtt.c:337-341,
\* flash.c:84, main.c:44-59).
THEOREM ConfirmedStays == Spec => []ConfirmedIsKept
<1>1. FlashInv /\ IdentityInv => ConfirmedIsKept
  <2> SUFFICES ASSUME FlashInv, IdentityInv, told # Nobody, Supported(told), "not erased" \notin flaws
               PROVE  /\ ReadBack = Whole(told)
                      /\ pc \in {"run", "dead"} =>
                             IF "not read" \in snFlaws THEN SN = Mac ELSE SN = Whole(told)
    BY DEF ConfirmedIsKept, Supported
  <2>1. PICK s \in Serials \union {Nobody}, n \in Nat : Content(s, n)
    BY DEF FlashInv
  <2>2. s = told /\ n = told.len /\ n < ReadLen /\ Holds(s, n)
    BY <2>1 DEF Content, Supported
  <2>3. ReadBack = Whole(told)
    BY <2>2, ReadBackOfHolds DEF Whole
  <2>4. QED
    BY <2>3 DEF IdentityInv, InUse
<1>2. QED
  BY <1>1, IdentityIsKnown, PTL

-----------------------------------------------------------------------------

\* A set of numbers has a least one, unless it is empty.
LEMMA LeastOf ==
    ASSUME NEW S \in SUBSET Nat, S # {}
    PROVE  \E x \in S : \A y \in S : x <= y
<1> DEFINE R == {ss \in Nat \X Nat : ss[1] < ss[2]}
<1>1. IsWellFoundedOn(R, Nat)
  BY NatLessThanWellFounded DEF OpToRel
<1> HIDE DEF R
<1>2. PICK x \in S : \A y \in S : ~(<<y, x>> \in R)
  BY <1>1, WFMin
<1>3. \A y \in S : y \in Nat /\ x \in Nat /\ (<<y, x>> \in R <=> y < x)
  BY DEF R
<1>4. \A y \in S : x <= y
  <2> SUFFICES ASSUME NEW y \in S
               PROVE  x <= y
    OBVIOUS
  <2>1. y \in Nat /\ x \in Nat /\ ~(y < x)
    BY <1>2, <1>3
  <2>2. QED
    BY <2>1
<1>5. QED
  BY <1>4

\* What a cell of the flash may hold, and a string read from it.
CellSet == Chars \union {FF, NUL, Mix}
Read == Chars \union {Mix}

\* flash_read stops at the first end, so what it returns holds none
\* (flash.c:67-90).
LEMMA ReadBackType ==
    ASSUME flash \in [Cells -> CellSet]
    PROVE  ReadBack \in Seq(Read)
<1> DEFINE ends == {i \in 1..ReadLen : flash[i] \in {FF, NUL}}
           least == CHOOSE i \in ends : \A j \in ends : i <= j
           size == IF ends = {} THEN ReadLen ELSE least - 1
<1>1. ReadLen \in Nat /\ SNLimit \in Nat /\ ReadLen < SNLimit
  BY LimitsAssumption
<1>2. size \in 0..ReadLen /\ \A i \in 1..size : i \notin ends
  <2>1. CASE ends = {}
    BY <1>1, <2>1
  <2>2. CASE ends # {}
    <3>1. \E x \in ends : \A y \in ends : x <= y
      <4>1. ends \in SUBSET Nat
        BY <1>1
      <4> HIDE DEF ends
      <4>2. QED
        BY <2>2, <4>1, LeastOf
    <3>2. least \in ends /\ \A j \in ends : least <= j
      <4> HIDE DEF ends
      <4>1. QED
        BY <3>1
    <3>3. least \in 1..ReadLen
      <4> HIDE DEF least
      <4>1. QED
        BY <3>2
    <3>4. size = least - 1
      BY <2>2
    <3> HIDE DEF least, ends, size
    <3>5. \A i \in 1..size : i \notin ends
      BY <1>1, <3>2, <3>3, <3>4
    <3>6. QED
      BY <1>1, <3>3, <3>4, <3>5
  <2>3. QED
    BY <2>1, <2>2
<1>3. ReadBack = SubSeq(flash, 1, size)
  BY DEF ReadBack
<1>4. \A i \in 1..size : flash[i] \in Read
  <2> SUFFICES ASSUME NEW i \in 1..size
               PROVE  flash[i] \in Read
    OBVIOUS
  <2>1. i \in 1..ReadLen /\ i \in Cells
    <3> HIDE DEF size
    <3>1. QED
      BY <1>1, <1>2 DEF Cells
  <2>2. flash[i] \notin {FF, NUL}
    <3> HIDE DEF size
    <3>1. QED
      BY <1>2, <2>1
  <2>3. flash[i] \in CellSet
    BY <2>1
  <2>4. QED
    BY <2>2, <2>3 DEF CellSet, Read
<1> HIDE DEF size
<1>5. SubSeq(flash, 1, size) \in Seq(Read)
  BY <1>1, <1>2, <1>4, SubSeqProperties
<1>6. QED
  BY <1>3, <1>5

\* A written cell holds a char, a mixture or nothing (flash.c:58-66).
LEMMA ProgrammedType ==
    ASSUME NEW old \in CellSet, NEW char \in Chars, NEW cell \in Programmed(old, char)
    PROVE  cell \in CellSet
<1>1. cell \in {char, NUL, Mix}
  <2>1. CASE old \in {FF, char}
    BY <2>1 DEF Programmed
  <2>2. CASE old \notin {FF, char} /\ old = NUL
    BY <2>2 DEF Programmed
  <2>3. CASE old \notin {FF, char} /\ old # NUL
    BY <2>3 DEF Programmed
  <2>4. QED
    BY <2>1, <2>2, <2>3
<1>2. QED
  BY <1>1 DEF CellSet

\* The identity in RAM is what was read, with or without a stray cell, or
\* the number of the module (main.c:36-60).
LEMMA BootType ==
    ASSUME flash \in [Cells -> CellSet], Boot
    PROVE  /\ SN' \in Seq(Chars \union {Mix, <<"mac", 1>>, <<"stray", 1>>})
           /\ sn_mode' \in {0, 1}
<1> DEFINE Sort == Chars \union {Mix, <<"mac", 1>>, <<"stray", 1>>}
           R == ReadBack
<1>1. R \in Seq(Sort)
  <2>1. R \in Seq(Read)
    BY ReadBackType
  <2>2. Read \subseteq Sort
    BY DEF Read
  <2> HIDE DEF Sort, R
  <2>3. QED
    BY <2>1, <2>2
<1>2. Append(R, <<"stray", 1>>) \in Seq(Sort)
  <2>1. <<"stray", 1>> \in Sort
    OBVIOUS
  <2> HIDE DEF Sort, R
  <2>2. QED
    BY <1>1, <2>1, AppendProperties
<1>3. Mac \in Seq(Sort)
  <2>1. <<"mac", 1>> \in Sort
    OBVIOUS
  <2> HIDE DEF Sort
  <2>2. QED
    BY <2>1 DEF Mac
<1>4. /\ SN' = R \/ SN' = Append(R, <<"stray", 1>>) \/ SN' = Mac
      /\ sn_mode' \in {0, 1}
  <2>1. CASE TakeIdentity(R)
    BY <2>1 DEF TakeIdentity
  <2>2. CASE TakeIdentity(<<>>)
    BY <2>2, UnreadIsMac
  <2>3. QED
    BY <2>1, <2>2 DEF Boot
<1> HIDE DEF Sort, R
<1>5. SN' \in Seq(Sort)
  BY <1>1, <1>2, <1>3, <1>4
<1>6. QED
  BY <1>4, <1>5 DEF Sort

\* The types of what only some steps of SET_SN and of a restart change.
TypeRest ==
    /\ target \in Serials \union {Nobody}
    /\ k \in 0..target.len /\ target.len < SNLimit
    /\ told \in Serials \union {Nobody}
    /\ flaws \in SUBSET Flaws
    /\ sets \in 0..MaxSets /\ losses \in 0..MaxLosses

\* No step takes a variable out of its type.
LEMMA TypeStep == TypeOK /\ [Next]_vars => TypeOK'
<1> SUFFICES ASSUME TypeOK, [Next]_vars
             PROVE  TypeOK'
  OBVIOUS
<1> USE DEF TypeOK
<1>1. CASE Boot
  <2>1. flash \in [Cells -> CellSet]
    BY DEF CellSet
  <2>2. /\ SN' \in Seq(Chars \union {Mix, <<"mac", 1>>, <<"stray", 1>>})
        /\ sn_mode' \in {0, 1}
    BY <1>1, <2>1, BootType
  <2>3. /\ UNCHANGED <<flash, target, k, told, flaws, sets, losses>> /\ pc' = "run"
        /\ snFlaws' = flaws \/ snFlaws' = flaws \union {"not read"}
    BY <1>1 DEF Boot
  <2> HIDE DEF TypeOK
  <2>4. TypeRest' /\ snFlaws' \in SUBSET ReadFlaws /\ flash' \in [Cells -> CellSet]
    BY <2>1, <2>3 DEF TypeOK, TypeRest, ReadFlaws
  <2>5. QED
    BY <2>2, <2>3, <2>4 DEF TypeOK, TypeRest, CellSet
<1>2. CASE WriteCell
  <2> USE <1>2 DEF WriteCell
  <2>1. k + 1 \in Cells /\ target \in Serials
    <3>1. target # Nobody
      BY LimitsAssumption DEF Nobody
    <3>2. target.len \in Nat
      BY <3>1, SerialsAssumption
    <3>3. QED
      BY <3>1, <3>2, LimitsAssumption DEF Cells
  <2>2. Char(target, k + 1) \in Chars
    BY <2>1 DEF Chars
  <2>3. PICK cell \in Programmed(flash[k + 1], Char(target, k + 1)) :
            flash' = [flash EXCEPT ![k + 1] = cell]
    OBVIOUS
  <2>4. cell \in CellSet
    <3>1. flash[k + 1] \in CellSet
      BY <2>1 DEF CellSet
    <3> HIDE DEF TypeOK, WriteCell
    <3>2. QED
      BY <2>2, <3>1, ProgrammedType
  <2>5. flash' \in [Cells -> Chars \union {FF, NUL, Mix}]
    BY <2>1, <2>3, <2>4 DEF CellSet
  <2>6. k' \in 0..target.len
    <3>1. target.len \in Nat
      BY <2>1, SerialsAssumption
    <3>2. QED
      BY <3>1
  <2>7. QED
    BY <2>5, <2>6
<1>3. CASE WriteDone \/ WriteFails \/ Confirm
  BY <1>3 DEF WriteDone, WriteFails, Confirm, Flaws
<1>4. ASSUME Down
      PROVE  /\ target' \in Serials \union {Nobody} /\ k' \in 0..target'.len /\ target'.len < SNLimit
             /\ SN' \in Seq(Chars \union {Mix, <<"mac", 1>>, <<"stray", 1>>})
             /\ sn_mode' \in {0, 1} /\ snFlaws' \in SUBSET ReadFlaws
             /\ UNCHANGED <<flash, told, sets>> /\ pc' = "off"
  <2>1. Nobody.len = 0 /\ 0 < SNLimit
    BY LimitsAssumption DEF Nobody
  <2>2. QED
    BY <1>4, <2>1 DEF Down
<1>5. CASE PowerReset
  BY <1>4, <1>5 DEF PowerReset
<1>6. CASE PowerLoss
  <2>1. losses' \in 0..MaxLosses
    <3>1. losses \in 0..MaxLosses /\ losses < MaxLosses /\ losses' = losses + 1
      BY <1>6 DEF PowerLoss
    <3> HIDE DEF TypeOK
    <3>2. QED
      BY <3>1, SetsAssumption
  <2>2. flaws' \in SUBSET Flaws
    BY <1>6 DEF PowerLoss, Flaws
  <2>3. Down
    BY <1>6 DEF PowerLoss
  <2>4. QED
    BY <1>4, <2>1, <2>2, <2>3
<1>7. ASSUME NEW s \in Serials, SetSNReturns(s)
      PROVE  TypeOK'
  BY <1>7, SetsAssumption DEF SetSNReturns
<1>8. ASSUME NEW s \in Serials, SetSNErase(s)
      PROVE  TypeOK'
  <2> USE <1>8 DEF SetSNErase
  <2>1. flash' \in [Cells -> Chars \union {FF, NUL, Mix}] /\ flaws' \in SUBSET Flaws
    <3>1. CASE UNCHANGED flash /\ flaws' = flaws \union {"not erased"}
      BY <3>1 DEF Flaws
    <3>2. CASE flash' = [i \in Cells |-> IF i <= ReadLen THEN FF ELSE flash[i]] /\ flaws' = {}
      BY <3>2
    <3>3. QED
      BY <3>1, <3>2
  <2>2. s.len \in Nat
    BY SerialsAssumption
  <2>3. target' = s /\ k' = 0 /\ k' \in 0..target'.len /\ target'.len < SNLimit
    <3>1. target' = s /\ k' = 0 /\ s.len < SNLimit
      OBVIOUS
    <3> HIDE DEF TypeOK, SetSNErase
    <3>2. QED
      BY <2>2, <3>1
  <2>4. sets' \in 0..MaxSets
    <3>1. sets \in 0..MaxSets /\ sets < MaxSets /\ sets' = sets + 1
      OBVIOUS
    <3> HIDE DEF TypeOK, SetSNErase
    <3>2. QED
      BY <3>1, SetsAssumption
  <2>5. QED
    BY <2>1, <2>3, <2>4
<1>9. CASE UNCHANGED vars
  BY <1>9 DEF vars, Chars, Cells
<1>10. QED
  BY <1>1, <1>2, <1>3, <1>5, <1>6, <1>7, <1>8, <1>9 DEF Next, DeviceStep

\* Every variable has its type, for any serials and any limits: what is read
\* back from the flash holds no erased and no zeroed cell (flash.c:67-90).
THEOREM TypeCorrect == Spec => []TypeOK
<1>1. Init => TypeOK
  <2> SUFFICES ASSUME Init
               PROVE  TypeOK
    OBVIOUS
  <2>1. Nobody.len = 0 /\ 0 < SNLimit
    BY LimitsAssumption DEF Nobody
  <2>2. QED
    BY <2>1, SetsAssumption DEF Init, TypeOK
<1>2. QED
  BY <1>1, TypeStep, PTL DEF Spec

-----------------------------------------------------------------------------
(* What a caller of ql_fota_firmware_download may rely on (http_fota.c) *)

\* The counts a download keeps, as far as the properties need them.
Counts ==
    /\ mode \in Modes
    /\ file \in [len : Nat, firmware : BOOLEAN]
    /\ {received, image, total_len, writen_len} \subseteq Nat
    /\ image <= received /\ received <= file.len

\* Each callback runs in the downloads of its own mode.
InMode ==
    /\ stage \in {"send", "header", "body", "stopped", "done"} => mode = "HTTP"
    /\ stage = "get" => mode = "FTP"

\* What http_response_cb has left behind when the request is about to return.
HttpTrace ==
    /\ stage = "stopped" => image < received
    /\ stage = "done" => "SUCCEED" \in reports

\* An FTP transfer that is under way has written all it was given, and the
\* piece that made the counts meet was verified.
FtpTrace ==
    stage = "get" =>
        /\ image = received
        /\ file.len > 0
        /\ total_len \in {0, file.len}
        /\ received > 0 /\ writen_len = total_len => Flagged

\* A download that has ended says how, or has one of the listed causes.
Explained ==
    \/ Flagged \/ fota_process = -1 \/ "FAIL" \in reports
    \/ ctxFailed
    \/ mode = "HTTP" /\ (early \/ image < received \/ "SUCCEED" \in reports)
    \/ mode = "FTP" /\ (received < file.len \/ writen_len # total_len)

Trace == HttpTrace /\ FtpTrace /\ (stage \in {"release", "over"} => Explained)

FotaInv ==
    /\ stage = "idle" => ~Flagged
    /\ Counts /\ InMode /\ Trace /\ FlagMeansFirmware /\ FtpRetryCannotSucceed

LEMMA FotaBegins == FotaInit => FotaInv
BY DEF FotaInit, FotaInv, Counts, InMode, Trace, HttpTrace, FtpTrace, FlagMeansFirmware,
       FtpRetryCannotSucceed, Flagged, Modes

\* A download begins with nothing received and nothing reported.
LEMMA OfferStep ==
    ASSUME FotaInv, NEW m \in Modes, InitFails(m) \/ Start(m)
    PROVE  FotaInv'
<1>1. /\ mode' = m /\ received' = 0 /\ image' = 0 /\ reports' = {}
      /\ file' \in [len : FileLengths, firmware : BOOLEAN]
      /\ writen_len' = writen_len
  BY DEF InitFails, Start, Offer, counters
<1>2. file' \in [len : Nat, firmware : BOOLEAN] /\ file'.len > 0
  <2>1. \A l \in FileLengths : l \in Nat /\ l > 0
    BY FileLengthsAssumption
  <2>2. PICK l \in FileLengths, f \in BOOLEAN : file' = [len |-> l, firmware |-> f]
    BY <1>1
  <2>3. QED
    BY <2>1, <2>2
<1>3. total_len' \in Nat
  BY <1>2 DEF InitFails, Start, counters, FotaInv, Counts
<1>4. Counts'
  BY <1>1, <1>2, <1>3 DEF FotaInv, Counts
<1>5. ~Flagged'
  BY <1>1 DEF Flagged
<1>6. (InMode /\ Trace)'
  <2>1. CASE InitFails(m)
    BY <2>1, <1>1 DEF InitFails, InMode, Trace, HttpTrace, FtpTrace, Explained
  <2>2. CASE Start(m)
    BY <2>2, <1>1, <1>2 DEF Start, Modes, InMode, Trace, HttpTrace, FtpTrace
  <2>3. QED
    BY <2>1, <2>2
<1>7. QED
  BY <1>4, <1>5, <1>6 DEF FotaInv, FlagMeansFirmware, FtpRetryCannotSucceed

\* http_response_cb counts what it is given and writes no more than that; it
\* sets the update for a verified image only.
LEMMA HttpStep == FotaInv /\ Http => FotaInv'
<1> SUFFICES ASSUME FotaInv, Http
             PROVE  FotaInv'
  OBVIOUS
<1> USE DEF FotaInv, Counts, InMode, Trace, HttpTrace, FtpTrace, FlagMeansFirmware,
            FtpRetryCannotSucceed, Flagged, transfer, http
<1>1. CASE HttpFails
  BY <1>1 DEF HttpFails, Explained
<1>2. CASE SendSucceeds
  BY <1>2 DEF SendSucceeds
<1>3. CASE HeaderFinished
  BY <1>3 DEF HeaderFinished
<1>4. CASE HttpFinished
  BY <1>4 DEF HttpFinished, Verified
<1>5. CASE HttpReturns
  <2>1. stage \in {"send", "header", "body"} => early'
    BY <1>5, Zenon DEF HttpReturns
  <2>2. /\ stage' = "release" /\ mode = "HTTP"
        /\ UNCHANGED <<mode, file, received, image, total_len, writen_len, reports>>
        /\ stage \in {"send", "header", "body", "stopped", "done"}
    BY <1>5 DEF HttpReturns, counters
  <2>3. Explained'
    BY <2>1, <2>2 DEF Explained
  <2>4. QED
    BY <2>2, <2>3
<1>6. ASSUME NEW n \in Pieces, HttpWrites(n)
      PROVE  FotaInv'
  BY <1>6 DEF HttpWrites, Pieces
<1>7. ASSUME NEW n \in Pieces, HttpWriteFails(n)
      PROVE  FotaInv'
  BY <1>7 DEF HttpWriteFails, Pieces
<1>8. QED
  BY <1>1, <1>2, <1>3, <1>4, <1>5, <1>6, <1>7 DEF Http

\* ftp_write_data sets the update when its count, which earlier downloads may
\* have raised, meets the listed length with a complete firmware.
LEMMA FtpStep == FotaInv /\ Ftp => FotaInv'
<1> SUFFICES ASSUME FotaInv, Ftp
             PROVE  FotaInv'
  OBVIOUS
<1> USE DEF FotaInv, Counts, InMode, Trace, HttpTrace, FtpTrace, FlagMeansFirmware,
            FtpRetryCannotSucceed, Flagged, transfer, ftp
<1>1. CASE FtpReturns
  BY <1>1 DEF FtpReturns, Explained
<1>2. ASSUME NEW n \in Pieces, FtpWrites(n)
      PROVE  FotaInv'
  BY <1>2 DEF FtpWrites, FtpPiece, Pieces
<1>3. ASSUME NEW n \in Pieces, FtpCompletes(n)
      PROVE  FotaInv'
  <2>1. /\ stage = "get" /\ n \in Nat /\ received + n <= file.len
        /\ received' = received + n /\ image' = image + n
        /\ writen_len' = writen_len + n /\ writen_len' = total_len
        /\ UNCHANGED <<mode, file, total_len, ctxFailed, early>>
    BY <1>3 DEF FtpCompletes, FtpPiece, Pieces
  <2>2. Counts' /\ InMode'
    BY <1>3, <2>1 DEF FtpCompletes
  <2>3. CASE Verified(image') /\ reports' = reports \union {"SUCCEED", "SETFLAG"} /\ stage' = stage
    BY <2>1, <2>2, <2>3 DEF Verified
  <2>4. CASE reports' = reports \union {"SUCCEED", "FAIL"} /\ stage' = "release"
    BY <2>1, <2>2, <2>4 DEF Explained
  <2>5. QED
    BY <1>3, <2>3, <2>4 DEF FtpCompletes
<1>4. ASSUME NEW n \in Pieces, FtpWriteFails(n)
      PROVE  FotaInv'
  BY <1>4 DEF FtpWriteFails, FtpPiece, Pieces, Explained
<1>5. QED
  BY <1>1, <1>2, <1>3, <1>4 DEF Ftp

LEMMA FotaStep == FotaInv /\ [FotaNext]_fotaVars => FotaInv'
<1> SUFFICES ASSUME FotaInv, [FotaNext]_fotaVars
             PROVE  FotaInv'
  OBVIOUS
<1>1. CASE Release
  BY <1>1 DEF Release, FotaInv, Counts, InMode, Trace, HttpTrace, FtpTrace, Explained,
              FlagMeansFirmware, FtpRetryCannotSucceed, Flagged, transfer, counters
<1>2. CASE Fault
  BY <1>2 DEF Fault, FotaInv, Counts, InMode, Trace, HttpTrace, FtpTrace,
              FlagMeansFirmware, FtpRetryCannotSucceed, Flagged, transfer, counters
<1>3. CASE UNCHANGED fotaVars
  BY <1>3 DEF fotaVars, FotaInv, Counts, InMode, Trace, HttpTrace, FtpTrace, Explained,
              FlagMeansFirmware, FtpRetryCannotSucceed, Flagged, transfer, counters
<1>4. QED
  BY <1>1, <1>2, <1>3, OfferStep, HttpStep, FtpStep DEF FotaNext

LEMMA FotaKeepsItsCounts == FotaSpec => []FotaInv
BY FotaBegins, FotaStep, PTL DEF FotaSpec

-----------------------------------------------------------------------------

\* Whatever fails and however often it is tried, the flag that makes the
\* device start from the new image is set for a complete firmware only
\* (http_fota.c:108-128, 157-176).
THEOREM OnlyFirmwareIsFlagged == FotaSpec => []FlagMeansFirmware
BY FotaKeepsItsCounts, PTL DEF FotaInv

\* An FTP download succeeds only when the static count of ftp_write_data
\* holds nothing of an earlier one (http_fota.c:142, 155-157).
THEOREM FirstFtpOrNever == FotaSpec => []FtpRetryCannotSucceed
BY FotaKeepsItsCounts, PTL DEF FotaInv

\* A failure that neither the progress nor the callback shows is one of the
\* listed ones: a caller that checks those misses nothing.
THEOREM SilenceIsExplained == FotaSpec => []SilentFailureHasCause
<1>1. FotaInv => SilentFailureHasCause
  BY DEF FotaInv, Trace, Explained, SilentFailureHasCause
<1>2. QED
  BY <1>1, FotaKeepsItsCounts, PTL

=============================================================================
