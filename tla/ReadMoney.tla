----------------------------- MODULE ReadMoney -----------------------------
(***************************************************************************)
(* readMoney (src/main/play_amount_LPB.c) reads an amount of money out in  *)
(* Vietnamese, one MP3 clip per word.  An amount is the sequence of its    *)
(* base-1000 digits, the lowest first and the highest not 0, so that       *)
(* amount % 1000 is its head and amount / 1000 its tail.                   *)
(***************************************************************************)
EXTENDS Integers, Sequences, SequencesExt

CONSTANT
    Amounts  \* the amounts that are read out

Digits == 0..999

ASSUME AmountsAssumption ==
    \A a \in Amounts : a \in Seq(Digits) /\ (a # <<>> => Last(a) # 0)

\* units[], from index 0; a clip "" is not played.
units == <<"", "nghin", "trieu", "ti", "nghinty", "trieuty">>

\* A clip names a number, or is a word: lam is 5 and mot2 is 1 after a ten,
\* tram is hundred, le stands for an empty tens place.
Number(n) == <<"number", n>>
Word(w) == <<w>>

\* What sayNumber says for 0..99; isUnit makes no difference, for both
\* branches of line 31 play mot.
sayNumber(number) ==
    LET unit == number % 10
        ten == number \div 10
    IN IF number < 10 THEN <<Number(number)>>
       ELSE <<Number(10 * ten)>>
            \o (CASE unit = 0 -> <<>>
                  [] unit = 5 -> <<Word("lam")>>
                  [] unit = 1 /\ ten > 1 -> <<Word("mot2")>>
                  [] OTHER -> <<Number(unit)>>)

\* Mutant: the unit is said only after a ten or a one.
sayGroupNoUnit(number, unit, isFirstGroup) ==
    (IF number < 100 THEN <<>> ELSE sayNumber(number \div 100) \o <<Word("tram")>>)
    \o (IF number % 100 = 0 THEN <<>>
        ELSE sayNumber(number % 100) \o (IF unit # "" THEN <<Word(unit)>> ELSE <<>>))

\* What sayGroup says for 0..999 and the clip of a unit.
sayGroup(number, unit, isFirstGroup) ==
    LET num == number \div 100
        chuc_donvi == number % 100
        hundreds == IF num > 0 THEN sayNumber(num) \o <<Word("tram")>>
                    ELSE IF ~isFirstGroup /\ chuc_donvi > 0 THEN <<Number(0), Word("tram")>>
                    ELSE <<>>
        rest == IF chuc_donvi = 0 THEN <<>>
                ELSE (IF chuc_donvi < 10 /\ num > 0 THEN <<Word("le")>> ELSE <<>>)
                     \o sayNumber(chuc_donvi)
    IN hundreds \o rest \o (IF number > 0 /\ unit # "" THEN <<Word(unit)>> ELSE <<>>)

VARIABLES
    requested,  \* the amount readMoney was called with
    amount,     \* what the while loop has not split yet
    parts,      \* parts[1..count]; parts[i + 1] is parts[i] of the code
    i,          \* the for loop's index, from count - 1 down to 0, then -1
    pc,         \* "split", "say", "end", or "fault"
    spoken      \* the clips handed to PlayMP3File

vars == <<requested, amount, parts, i, pc, spoken>>

Init ==
    /\ requested \in Amounts
    /\ amount = requested
    /\ parts = <<>>
    /\ i = -1
    /\ pc = "split"
    /\ spoken = <<>>

ReadZero ==
    /\ pc = "split"
    /\ requested = <<>>
    /\ spoken' = <<Number(0), Word("dong")>>
    /\ pc' = "end"
    /\ UNCHANGED <<requested, amount, parts, i>>

Split ==
    /\ pc = "split"
    /\ amount # <<>>
    /\ parts' = Append(parts, Head(amount))
    /\ amount' = Tail(amount)
    /\ UNCHANGED <<requested, i, pc, spoken>>

SplitDone ==
    /\ pc = "split"
    /\ amount = <<>> /\ requested # <<>>
    /\ i' = Len(parts) - 1
    /\ pc' = "say"
    /\ UNCHANGED <<requested, amount, parts, spoken>>

\* A round of the for loop; a group of zeros is skipped, but for the last.
SayPart ==
    /\ pc = "say"
    /\ i \in 0..(Len(units) - 1)
    /\ spoken' = IF parts[i + 1] = 0 /\ i # 0 THEN spoken
                 ELSE spoken \o sayGroup(parts[i + 1], units[i + 1], i = Len(parts) - 1)
    /\ i' = i - 1
    /\ UNCHANGED <<requested, amount, parts, pc>>

\* A group above the last unit reads past the end of units[].
PastUnits ==
    /\ pc = "say"
    /\ i >= Len(units)
    /\ pc' = "fault"
    /\ UNCHANGED <<requested, amount, parts, i, spoken>>

SayDong ==
    /\ pc = "say"
    /\ i < 0
    /\ spoken' = Append(spoken, Word("dong"))
    /\ pc' = "end"
    /\ UNCHANGED <<requested, amount, parts, i>>

\* readMoney has returned, or read past the table, and is not called again.
Over == pc \in {"end", "fault"} /\ UNCHANGED vars

Next == ReadZero \/ Split \/ SplitDone \/ SayPart \/ PastUnits \/ SayDong \/ Over

Spec == Init /\ [][Next]_vars

-----------------------------------------------------------------------------
(* The listener: what a sequence of clips means in Vietnamese.              *)

\* A listener adds up the number at hand, and puts it away at a unit, or at
\* "dong", for the base-1000 digit the unit names.
Listening == [number |-> 0, total |-> [u \in 1..Len(units) |-> 0]]

PutAway(ear, u) == [number |-> 0, total |-> [ear.total EXCEPT ![u] = @ + ear.number]]

Hear(clip, ear) ==
    CASE clip[1] = "number" -> [ear EXCEPT !.number = @ + clip[2]]
      [] clip = Word("lam") -> [ear EXCEPT !.number = @ + 5]
      [] clip = Word("mot2") -> [ear EXCEPT !.number = @ + 1]
      [] clip = Word("tram") -> [ear EXCEPT !.number = @ * 100]
      [] clip = Word("le") -> ear
      [] clip = Word("dong") -> PutAway(ear, 1)
      [] OTHER -> PutAway(ear, CHOOSE u \in 1..Len(units) : units[u] = clip[1])

\* What is on the listener's mind after the clips.
Ear(clips) ==
    LET ear[k \in 0..Len(clips)] == IF k = 0 THEN Listening ELSE Hear(clips[k], ear[k - 1])
    IN  ear[Len(clips)]

Heard(clips) == Ear(clips).total

\* The digits of an amount as the listener counts them.
Meaning(a) == [u \in 1..Len(units) |-> IF u <= Len(a) THEN a[u] ELSE 0]

-----------------------------------------------------------------------------

\* Whoever has listened understands the amount that was asked for, so that two
\* amounts never sound the same; only an amount of 10^18 or more, of seven
\* groups, leads readMoney past units[] instead.
MeansTheAmount ==
    /\ pc = "end" => Heard(spoken) = Meaning(requested)
    /\ pc = "fault" => Len(requested) > Len(units)
=============================================================================
