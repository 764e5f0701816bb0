---------------------------- MODULE ButtonProofs ----------------------------
(***************************************************************************)
(* Proofs about the button, for any threshold of a long press, and about   *)
(* what its task says of the battery when it is pressed (button.c:107):    *)
(* bat_read (monitor.c:34-60) and play_pin, for every voltage.             *)
(***************************************************************************)
EXTENDS Button, BatteryWords, TLAPS

\* Every variable of the handler and the task keeps its type (button.c:12-112).
THEOREM TypeCorrect == Spec => []TypeOK
<1> USE LongTicksAssumption
<1> USE DEF TypeOK, QL_KEY_MASK_FLAG, KEY_HIGH_FLAG, KEY_LOW_FLAG, MaxTicks, Tock
<1>1. Init => TypeOK
  <2> SUFFICES ASSUME Init
               PROVE  TypeOK
    OBVIOUS
  <2>1. press_duration \in 0..MaxTicks /\ held \in 0..MaxTicks
    BY DEF Init
  <2>2. QED
    BY <2>1 DEF Init
<1>2. TypeOK /\ [Next]_vars => TypeOK'
  <2> SUFFICES ASSUME TypeOK, [Next]_vars
               PROVE  TypeOK'
    OBVIOUS
  <2> USE DEF key, wifi
  <2>1. CASE Press
    <3>1. edge' \in BOOLEAN /\ clean' \in BOOLEAN
      BY <2>1 DEF Press, Latch, Attentive
    <3>2. held' \in 0..MaxTicks
      BY <2>1 DEF Press
    <3>3. QED
      BY <2>1, <3>1, <3>2 DEF Press
  <2>2. CASE KeyRelease
    BY <2>2 DEF KeyRelease, Latch, Attentive
  <2>3. CASE Tick
    BY <2>3 DEF Tick, Attentive
  <2>4. CASE Isr
    BY <2>4 DEF Isr, IsrEnter, IsrRead, IsrLeave
  <2>5. CASE Register \/ WaitFails \/ WifiSetUp
    BY <2>5 DEF Register, WaitFails, WifiSetUp
  <2>6. CASE Wake \/ Ignored
    BY <2>6 DEF Wake, Ignored
  <2>7. CASE Pressed
    BY <2>7 DEF Pressed
  <2>8. CASE Released
    BY <2>8 DEF Released
  <2>9. CASE Voldown \/ Announce
    BY <2>9 DEF Voldown, Announce
  <2>10. CASE UNCHANGED vars
    BY <2>10 DEF vars
  <2>11. QED
    BY <2>1, <2>2, <2>3, <2>4, <2>5, <2>6, <2>7, <2>8, <2>9, <2>10 DEF Next, Task
<1>3. QED
  BY <1>1, <1>2, PTL DEF Spec

-----------------------------------------------------------------------------
(* The way of a clean edge: remembered, read, flagged, returned by the wait. *)

FlagOfKey == IF level = "LOW" THEN KEY_LOW_FLAG ELSE KEY_HIGH_FLAG

\* The last edge of the key is on its way to the task, alone.
Coming ==
    \/ edge /\ isr = "idle" /\ key_flag = {} /\ task = "wait"
    \/ ~edge /\ isr = "reads" /\ key_flag = {} /\ task = "wait"
    \/ ~edge /\ isr # "reads" /\ key_flag = {FlagOfKey} /\ task = "wait"
    \/ ~edge /\ isr # "reads" /\ key_flag = {} /\ task = "woken" /\ event = {FlagOfKey}

\* The task has dealt with it; a release makes it speak.
Dealt ==
    /\ ~edge /\ isr # "reads" /\ key_flag = {}
    /\ task \in IF level = "LOW" THEN {"wait"} ELSE {"wait", "voldown", "announce"}

\* The strengthening of both action properties: a clean press has one edge at
\* most under way, its release is unanswered until it is dealt with, and the
\* time taken for it is its own.
CleanInv ==
    clean /\ task # "returned" =>
        \/ Coming /\ (level = "HIGH" => due)
        \/ Dealt

TimeInv ==
    clean /\ prompt /\ task # "returned" =>
        /\ Coming => IF level = "LOW" THEN held = 0 ELSE press_duration = held
        /\ Dealt /\ level = "LOW" => press_duration = held

PressInv == CleanInv /\ TimeInv

LEMMA PressInvInit == Init => PressInv
BY DEF Init, PressInv, CleanInv, TimeInv

LEMMA PressInvStep == TypeOK /\ PressInv /\ [Next]_vars => PressInv'
<1> SUFFICES ASSUME TypeOK, PressInv, [Next]_vars
             PROVE  PressInv'
  OBVIOUS
<1> USE LongTicksAssumption
<1> USE DEF PressInv, CleanInv, TimeInv, Coming, Dealt, FlagOfKey, KEY_HIGH_FLAG, KEY_LOW_FLAG, key
<1>1. CASE Press
  BY <1>1 DEF Press, Latch, Attentive, TypeOK
<1>2. CASE KeyRelease
  BY <1>2 DEF KeyRelease, Latch, Attentive, TypeOK
<1>3. CASE Tick
  BY <1>3 DEF Tick, Attentive, Tock, TypeOK, MaxTicks
<1>4. CASE Isr
  BY <1>4 DEF Isr, IsrEnter, IsrRead, IsrLeave, TypeOK
<1>5. CASE Register \/ WaitFails \/ WifiSetUp
  BY <1>5 DEF Register, WaitFails, WifiSetUp, TypeOK
<1>6. CASE Wake
  BY <1>6 DEF Wake, TypeOK
<1>7. CASE Pressed
  BY <1>7 DEF Pressed, TypeOK
<1>8. CASE Ignored
  BY <1>8 DEF Ignored, QL_KEY_MASK_FLAG, TypeOK
<1>9. CASE Released
  BY <1>9 DEF Released, TypeOK
<1>10. CASE Voldown \/ Announce
  BY <1>10 DEF Voldown, Announce, TypeOK
<1>11. CASE UNCHANGED vars
  BY <1>11 DEF vars
<1>12. QED
  BY <1>1, <1>2, <1>3, <1>4, <1>5, <1>6, <1>7, <1>8, <1>9, <1>10, <1>11 DEF Next, Task

LEMMA PressInvariant == Spec => [](TypeOK /\ PressInv)
BY TypeCorrect, PressInvInit, PressInvStep, PTL DEF Spec

\* A verdict falls only in Released (button.c:68), when a release has come all
\* the way to the task.
LEMMA JudgesAtRelease ==
    ASSUME TypeOK, PressInv, Judges, [Next]_vars, clean
    PROVE  /\ due
           /\ prompt => press_duration = held
           /\ task' = "voldown" <=> press_duration > LongTicks
<1>1. Released
  BY DEF Judges, Next, Isr, Task, Press, KeyRelease, Tick, IsrEnter, IsrRead, IsrLeave, Register,
         WaitFails, WifiSetUp, Wake, Pressed, Ignored, Voldown, Announce, vars, key
<1>2. task = "woken" /\ event = {"HIGH"}
  BY <1>1 DEF Released, KEY_HIGH_FLAG
<1>3. ~Dealt
  BY <1>2 DEF Dealt
<1>4. Coming /\ (level = "HIGH" => due)
  BY <1>2, <1>3 DEF PressInv, CleanInv
<1>5. level = "HIGH"
  BY <1>2, <1>4 DEF Coming, FlagOfKey, KEY_HIGH_FLAG, KEY_LOW_FLAG, TypeOK
<1>6. prompt => press_duration = held
  BY <1>2, <1>4, <1>5 DEF PressInv, TimeInv
<1>7. task' = "voldown" <=> press_duration > LongTicks
  BY <1>1 DEF Released
<1>8. QED
  BY <1>4, <1>5, <1>6, <1>7

\* Whatever happened before, a press the task was free for is judged by its
\* own length (button.c:71).
THEOREM FreshPressJudgedRight == Spec => JudgedByItsLength
<1>1. TypeOK /\ PressInv /\ [Next]_vars
        => [Judges /\ clean /\ prompt => (task' = "voldown" <=> held > LongTicks)]_vars
  BY JudgesAtRelease
<1>2. QED
  BY <1>1, PressInvariant, PTL DEF Spec, JudgedByItsLength

\* A clean press is answered once (button.c:55, the flags are cleared by the
\* wait that returns them).
THEOREM OneAnswer == Spec => OneAnswerPerRelease
<1>1. TypeOK /\ PressInv /\ [Next]_vars => [Judges /\ clean => due]_vars
  BY JudgesAtRelease
<1>2. QED
  BY <1>1, PressInvariant, PTL DEF Spec, OneAnswerPerRelease
-----------------------------------------------------------------------------
(* The pin that follows the verdict.                                       *)

\* While "voldown" sounds the pin still waits for its turn; at any other time
\* it shows the last verdict, or the LED task has just set it up.
WifiInv ==
    IF task = "voldown"
    THEN verdict = "long"
    ELSE /\ verdict = "long" => wifi_en = "LOW"
         /\ verdict = "short" => wifi_en = "HIGH" \/ setup = "fresh"

LEMMA WifiStep == WifiInv /\ [Next]_vars => WifiInv'
<1> SUFFICES ASSUME WifiInv, [Next]_vars
             PROVE  WifiInv'
  OBVIOUS
<1> USE DEF WifiInv, wifi
<1>1. CASE Press \/ KeyRelease \/ Tick \/ Isr
  BY <1>1 DEF Press, KeyRelease, Tick, Isr, IsrEnter, IsrRead, IsrLeave
<1>2. CASE Register \/ WaitFails \/ Wake \/ Pressed \/ Ignored \/ Announce
  BY <1>2 DEF Register, WaitFails, Wake, Pressed, Ignored, Announce
<1>3. CASE Released
  BY <1>3 DEF Released
<1>4. CASE Voldown
  BY <1>4 DEF Voldown
<1>5. CASE WifiSetUp
  BY <1>5 DEF WifiSetUp
<1>6. CASE UNCHANGED vars
  BY <1>6 DEF vars
<1>7. QED
  BY <1>1, <1>2, <1>3, <1>4, <1>5, <1>6 DEF Next, Task

\* Two tasks drive WIFI_EN; it is wrong for the last verdict only between the
\* late set-up and the next press (button.c:75-82, monitor.c:137).
THEOREM PinFollowsVerdict == Spec => []WifiFollowsVerdict
<1>1. Init => WifiInv
  BY DEF Init, WifiInv
<1>2. WifiInv => WifiFollowsVerdict
  BY DEF WifiInv, WifiFollowsVerdict
<1>3. QED
  BY <1>1, <1>2, WifiStep, PTL DEF Spec

-----------------------------------------------------------------------------
(* The level of the battery.                                               *)

Inside == (PIN_VOL_MIN + 1)..(PIN_VOL_MAX - 1)

\* A level between the limits is a multiple of ten no more than five percent
\* away from the share of the voltage, although it is cut to a percent first.
LEMMA LevelInside ==
    ASSUME NEW v \in Inside
    PROVE  /\ bat_read(v) \in {10 * n : n \in 0..10}
           /\ 700 * bat_read(v) <= 100 * (v - 3500) + 3500
           /\ 700 * bat_read(v) >= 100 * (v - 3500) - 3500
<1> DEFINE f == ((v - 3500) * 100) \div 700
           t == (f + 5) \div 10
<1>1. v \in 3501..4199
  BY DEF Inside, PIN_VOL_MIN, PIN_VOL_MAX
<1>2. bat_read(v) = t * 10
  BY <1>1 DEF bat_read, PIN_VOL_MIN, PIN_VOL_MAX
<1>3. f \in Int /\ 700 * f <= (v - 3500) * 100 /\ (v - 3500) * 100 <= 700 * f + 699
  BY <1>1
<1>4. f \in 0..99
  BY <1>1, <1>3
<1> HIDE DEF f
<1>5. t \in Int /\ 10 * t <= f + 5 /\ f + 5 <= 10 * t + 9
  BY <1>4
<1>6. t \in 0..10
  BY <1>4, <1>5
<1> HIDE DEF t
<1>7. t * 10 \in {10 * n : n \in 0..10}
  BY <1>6
<1>8. 7000 * t <= 100 * (v - 3500) + 3500
  BY <1>1, <1>3, <1>4, <1>5, <1>6
<1>9. 7000 * t >= 100 * (v - 3500) - 3500
  BY <1>1, <1>3, <1>4, <1>5, <1>6
<1>10. QED
  BY <1>1, <1>2, <1>6, <1>7, <1>8, <1>9

\* The same for any voltage, with the levels of the two ends.
THEOREM LevelIsNear ==
    ASSUME NEW v \in Nat
    PROVE  bat_read(v) \in {10 * n : n \in 0..10} /\ Near(v, bat_read(v))
<1>1. CASE v <= 3500
  <2>1. bat_read(v) = 0
    BY <1>1 DEF bat_read, PIN_VOL_MIN
  <2>2. QED
    BY <1>1, <2>1 DEF Near, PIN_VOL_MIN, PIN_VOL_MAX
<1>2. CASE v >= 4200
  <2>1. bat_read(v) = 100
    BY <1>2 DEF bat_read, PIN_VOL_MIN, PIN_VOL_MAX
  <2>2. QED
    BY <1>2, <2>1 DEF Near, PIN_VOL_MIN, PIN_VOL_MAX
<1>3. CASE v > 3500 /\ v < 4200
  <2>1. v \in Inside
    BY <1>3 DEF Inside, PIN_VOL_MIN, PIN_VOL_MAX
  <2>2. bat_read(v) \in Int
    BY <2>1, LevelInside
  <2>3. QED
    BY <1>3, <2>1, <2>2, LevelInside DEF Near, PIN_VOL_MIN, PIN_VOL_MAX
<1>4. QED
  BY <1>1, <1>2, <1>3

\* More voltage is never announced as less charge.
THEOREM LevelGrows ==
    ASSUME NEW v \in Nat, NEW w \in Nat, v <= w
    PROVE  bat_read(v) <= bat_read(w)
<1> DEFINE share(x) == IF x <= 3500 THEN 0 ELSE IF x >= 4200 THEN 100
                       ELSE ((x - 3500) * 100) \div 700
<1>1. ASSUME NEW x \in Nat
      PROVE  share(x) \in 0..100 /\ bat_read(x) = ((share(x) + 5) \div 10) * 10
  BY DEF bat_read, PIN_VOL_MIN, PIN_VOL_MAX
<1>2. share(v) <= share(w)
  OBVIOUS
<1> HIDE DEF share
<1>3. (share(v) + 5) \div 10 <= (share(w) + 5) \div 10
  BY <1>1, <1>2
<1>4. QED
  BY <1>1, <1>3

\* The level the button task announces is that of the voltage it read.
THEOREM AnnouncedLevelIsNear == BatterySpec => []PinIsNear
<1> DEFINE I == bat_vol \in Nat /\ (pc # "read" => Near(bat_vol, pin))
<1>1. BatteryInit => I
  <2> SUFFICES ASSUME BatteryInit
               PROVE  I
    OBVIOUS
  <2>1. bat_vol \in Nat
    BY VoltagesAssumption DEF BatteryInit
  <2>2. pc = "read"
    BY DEF BatteryInit
  <2>3. QED
    BY <2>1, <2>2
<1>2. I /\ [BatteryNext]_batteryVars => I'
  <2> SUFFICES ASSUME I, [BatteryNext]_batteryVars
               PROVE  I'
    OBVIOUS
  <2>1. CASE BatRead
    <3>1. bat_vol' \in Nat /\ pin' = bat_read(bat_vol')
      BY <2>1 DEF BatRead
    <3>2. Near(bat_vol', pin')
      BY <3>1, LevelIsNear
    <3>3. QED
      BY <3>1, <3>2
  <2>2. CASE NearlyEmpty \/ Remaining \/ Copy \/ CopyFails \/ PlayWord \/ Percent
    BY <2>2 DEF NearlyEmpty, Remaining, Copy, CopyFails, PlayWord, Percent, Near
  <2>3. CASE UNCHANGED batteryVars
    BY <2>3 DEF batteryVars, Near
  <2>4. QED
    BY <2>1, <2>2, <2>3 DEF BatteryNext
<1>3. I => PinIsNear
  BY DEF PinIsNear
<1>4. QED
  BY <1>1, <1>2, <1>3, PTL DEF BatterySpec

-----------------------------------------------------------------------------
(* The words *)

\* The words of the levels.
LEMMA TensInWords ==
    ASSUME NEW n \in 1..10
    PROVE  NumberToWords(10 * n) = IF n = 1 THEN <<"muoi">>
                                   ELSE IF n = 10 THEN <<"mot", "tram">>
                                   ELSE <<Unit(n), "muoi2">>
<1> DEFINE number == 10 * n
           hundreds == number \div 100
           tens == (number % 100) \div 10
           unitsPart == number % 10
           ofHundreds == IF hundreds > 0 THEN <<Unit(hundreds), "tram">> ELSE <<>>
           ofTens == CASE tens > 1 /\ unitsPart = 0 -> <<Unit(tens), "muoi2">>
                       [] tens > 1 /\ unitsPart > 0 -> <<Unit(tens)>>
                       [] tens = 1 -> <<"muoi">>
                       [] tens = 0 /\ unitsPart > 0 -> <<"le">>
                       [] OTHER -> <<>>
           ofUnits == CASE unitsPart = 0 -> <<>>
                        [] unitsPart = 1 /\ tens > 1 -> <<"mot2">>
                        [] unitsPart = 5 /\ tens > 0 -> <<"lam">>
                        [] OTHER -> <<Unit(unitsPart)>>
<1>1. NumberToWords(number) = ofHundreds \o ofTens \o ofUnits
  BY DEF NumberToWords
<1>2. /\ hundreds = IF n = 10 THEN 1 ELSE 0
      /\ tens = IF n = 10 THEN 0 ELSE n
      /\ unitsPart = 0 /\ n \in Nat
  OBVIOUS
<1> HIDE DEF hundreds, tens, unitsPart
<1>3. ofUnits = <<>>
  BY <1>2
<1>4. ofHundreds = IF n = 10 THEN <<"mot", "tram">> ELSE <<>>
  <2>1. Unit(1) = "mot"
    BY DEF Unit, units
  <2>2. QED
    BY <1>2, <2>1
<1>5. ofTens = IF n = 1 THEN <<"muoi">> ELSE IF n = 10 THEN <<>> ELSE <<Unit(n), "muoi2">>
  <2>1. CASE n = 1
    BY <1>2, <2>1
  <2>2. CASE n = 10
    BY <1>2, <2>2
  <2>3. CASE n \in 2..9
    <3>1. tens = n /\ n > 1 /\ n # 10 /\ n # 1
      BY <1>2, <2>3
    <3>2. QED
      BY <1>2, <3>1
  <2>4. QED
    BY <2>1, <2>2, <2>3
<1> HIDE DEF ofHundreds, ofTens, ofUnits
<1>6. CASE n = 10
  <2>1. NumberToWords(number) = <<"mot", "tram">> \o <<>> \o <<>>
    BY <1>1, <1>3, <1>4, <1>5, <1>6
  <2>2. QED
    BY <1>6, <2>1
<1>7. CASE n # 10
  <2>1. NumberToWords(number) = <<>> \o ofTens \o <<>>
    BY <1>1, <1>3, <1>4, <1>7
  <2>2. QED
    BY <1>5, <1>7, <2>1
<1>8. QED
  BY <1>6, <1>7

\* The listener follows the recursion, here for two words at most.
LEMMA FewWords ==
    ASSUME NEW ws, Len(ws) \in 1..2
    PROVE  LET e == IF Len(ws) = 1 THEN HearWord(ws[1], Silence)
                    ELSE HearWord(ws[2], HearWord(ws[1], Silence))
           IN  HeardWords(ws) = e.hundreds + e.number
<1> DEFINE L == Len(ws)
           Ear(f) == f = [k \in 0..L |-> IF k = 0 THEN Silence ELSE HearWord(ws[k], f[k - 1])]
           one == HearWord(ws[1], Silence)
           two == HearWord(ws[2], one)
           g == [k \in 0..L |-> IF k = 0 THEN Silence ELSE IF k = 1 THEN one ELSE two]
           ear == CHOOSE f : Ear(f)
<1>1. Ear(g)
  <2>1. \A k \in 0..L : k = 0 \/ k = 1 \/ k = 2
    OBVIOUS
  <2>2. g[0] = Silence /\ g[1] = one
    OBVIOUS
  <2>3. ASSUME NEW k \in 0..L
        PROVE  g[k] = IF k = 0 THEN Silence ELSE HearWord(ws[k], g[k - 1])
    <3>1. CASE k = 0
      BY <3>1
    <3>2. CASE k = 1
      BY <2>2, <3>2
    <3>3. CASE k = 2
      <4>1. g[k] = two /\ k - 1 = 1
        BY <3>3
      <4>2. QED
        BY <2>2, <3>3, <4>1
    <3>4. QED
      BY <2>1, <3>1, <3>2, <3>3
  <2>4. QED
    BY <2>3
<1> HIDE DEF g
<1>2. Ear(ear)
  BY <1>1
<1>3. HeardWords(ws) = ear[L].hundreds + ear[L].number
  BY DEF HeardWords
<1> HIDE DEF ear
<1>4. ear[0] = Silence
  BY <1>2
<1>5. ear[1] = one
  BY <1>2, <1>4
<1>6. L = 2 => ear[2] = two
  BY <1>2, <1>5
<1>7. CASE L = 1
  BY <1>3, <1>5, <1>7
<1>8. CASE L = 2
  BY <1>3, <1>6, <1>8
<1>9. QED
  BY <1>7, <1>8

\* What they mean.
LEMMA TensAreHeard ==
    ASSUME NEW n \in 1..10
    PROVE  HeardWords(NumberToWords(10 * n)) = 10 * n
<1> DEFINE ws == NumberToWords(10 * n)
<1>1. \A d \in 1..9 : HearWord(Unit(d), Silence) = [hundreds |-> 0, number |-> d]
  <2> SUFFICES ASSUME NEW d \in 1..9
               PROVE  HearWord(Unit(d), Silence) = [hundreds |-> 0, number |-> d]
    OBVIOUS
  <2>1. Unit(d) \in ToSet(units) /\ Unit(d) \notin {"mot2", "lam", "muoi", "muoi2", "tram", "le"}
    BY DEF Unit, units, ToSet
  <2>2. \A x \in 0..9 : Unit(x) = Unit(d) <=> x = d
    BY DEF Unit, units
  <2>3. Digit(Unit(d)) = d
    BY <2>2 DEF Digit
  <2>4. HearWord(Unit(d), Silence) = Add(Silence, d)
    BY <2>1, <2>3 DEF HearWord
  <2>5. QED
    BY <2>4 DEF Add, Silence
<1>2. "muoi" \notin ToSet(units) /\ "muoi2" \notin ToSet(units) /\ "tram" \notin ToSet(units)
  BY DEF ToSet, units
<1>3. CASE n = 1
  <2>1. ws = <<"muoi">>
    BY <1>3, TensInWords
  <2>2. HearWord("muoi", Silence) = [hundreds |-> 0, number |-> 10]
    BY <1>2 DEF HearWord, Silence
  <2> HIDE DEF ws
  <2>3. HeardWords(ws) = 10
    BY <2>1, <2>2, FewWords
  <2>4. QED
    BY <1>3, <2>3 DEF ws
<1>4. CASE n = 10
  <2>1. ws = <<"mot", "tram">>
    BY <1>4, TensInWords
  <2>2. Unit(1) = "mot"
    BY DEF Unit, units
  <2>3. HearWord("mot", Silence) = [hundreds |-> 0, number |-> 1]
    BY <1>1, <2>2
  <2>4. \A e : HearWord("tram", e) = [hundreds |-> 100 * e.number, number |-> 0]
    BY <1>2 DEF HearWord
  <2> HIDE DEF ws
  <2>5. HeardWords(ws) = 100
    <3>1. HearWord("tram", HearWord("mot", Silence)) = [hundreds |-> 100, number |-> 0]
      BY <2>3, <2>4
    <3>2. QED
      BY <2>1, <3>1, FewWords
  <2>6. QED
    BY <1>4, <2>5 DEF ws
<1>5. CASE n \in 2..9
  <2>1. ws = <<Unit(n), "muoi2">>
    BY <1>5, TensInWords
  <2>2. HearWord(Unit(n), Silence) = [hundreds |-> 0, number |-> n]
    BY <1>1, <1>5
  <2>3. \A e : HearWord("muoi2", e) = [e EXCEPT !.number = @ * 10]
    BY <1>2 DEF HearWord
  <2> HIDE DEF ws
  <2>4. HearWord("muoi2", HearWord(Unit(n), Silence)) = [hundreds |-> 0, number |-> n * 10]
    BY <2>2, <2>3
  <2>5. HeardWords(ws) = n * 10
    BY <2>1, <2>4, FewWords
  <2>6. QED
    BY <2>5 DEF ws
<1>6. QED
  BY <1>3, <1>4, <1>5

-----------------------------------------------------------------------------
(* The announcement *)

Tens == {10 * n : n \in 1..10}
Word == {Unit(d) : d \in 1..9} \union {"muoi", "muoi2", "tram"}
Clip == {"name_mp3", "word"} \X (Word \union {"122", "108", "238"})

\* The words of the level are sequences of words.
LEMMA WordsOfTens ==
    ASSUME NEW p \in Tens
    PROVE  NumberToWords(p) \in Seq(Word)
<1>1. PICK n \in 1..10 : p = 10 * n
  BY DEF Tens
<1>2. Unit(n) \in Word \/ n = 10
  BY DEF Word
<1>3. /\ "muoi" \in Word /\ "muoi2" \in Word /\ "tram" \in Word
      /\ "mot" \in Word
  <2>1. Unit(1) = "mot" /\ Unit(1) \in Word
    BY DEF Unit, units, Word
  <2>2. QED
    BY <2>1 DEF Word
<1>4. NumberToWords(p) = <<"muoi">> \/ NumberToWords(p) = <<"mot", "tram">>
      \/ (n # 10 /\ NumberToWords(p) = <<Unit(n), "muoi2">>)
  BY <1>1, TensInWords
<1>5. /\ <<"muoi">> \in Seq(Word) /\ <<"mot", "tram">> \in Seq(Word)
      /\ Unit(n) \in Word => <<Unit(n), "muoi2">> \in Seq(Word)
  BY <1>3
<1>6. QED
  BY <1>2, <1>4, <1>5

\* The words PlayWords has a copy of.
Copied == IF wordsCopy = "NULL" THEN <<>> ELSE NumberToWords(pin)

LEMMA CopiedWords == pin \in Tens => Copied \in Seq(Word)
BY WordsOfTens DEF Copied

\* pincon and the clips of the first k words of W.
Said(W, k) ==
    /\ spoken \in Seq(Clip)
    /\ Len(spoken) >= k + 1
    /\ spoken[1] = pincon
    /\ \A j \in 1..k : spoken[j + 1] = OfWord(W[j])

\* PlayWords has said the words of the level up to some place, and the rest is
\* still to come.
AnnounceInv ==
    /\ pc \in {"read", "pin", "copy", "words", "end"}
    /\ pc = "read" => bat_vol \in Nat
    /\ pc # "read" => pin = 0 \/ pin \in Tens
    /\ pc \in {"read", "pin"} \/ pin = 0 => wordsCopy # "NULL"
    /\ pc = "copy" => pin \in Tens /\ words = NumberToWords(pin) /\ spoken = <<pincon>>
    /\ pc = "words" =>
           LET W == Copied
           IN  /\ pin \in Tens
               /\ words \in Seq(Word)
               /\ \E k \in 0..Len(W) :
                      /\ Said(W, k) /\ Len(spoken) = k + 1
                      /\ Len(words) = Len(W) - k
                      /\ \A j \in 1..Len(words) : words[j] = W[k + j]
    /\ pc = "end" =>
           IF pin = 0 THEN spoken = <<pinduoi10>>
           ELSE /\ pin \in Tens
                /\ Said(Copied, Len(Copied))
                /\ Len(spoken) = Len(Copied) + 2
                /\ spoken[Len(spoken)] = phantram

\* In every state the announcement is a part of the words of its level.
LEMMA Announces == BatterySpec => []AnnounceInv
<1>1. BatteryInit => AnnounceInv
  <2> SUFFICES ASSUME BatteryInit
               PROVE  AnnounceInv
    OBVIOUS
  <2>1. pc = "read" /\ bat_vol \in Nat /\ wordsCopy # "NULL"
    BY VoltagesAssumption DEF BatteryInit
  <2>2. QED
    BY <2>1 DEF AnnounceInv
<1>2. AnnounceInv /\ [BatteryNext]_batteryVars => AnnounceInv'
  <2> SUFFICES ASSUME AnnounceInv, [BatteryNext]_batteryVars
               PROVE  AnnounceInv'
    OBVIOUS
  <2>0. pincon \in Clip /\ phantram \in Clip
    BY DEF pincon, phantram, Named, Clip
  <2>1. CASE BatRead
    <3>1. /\ pc' = "pin" /\ pin' = bat_read(bat_vol) /\ bat_vol \in Nat
          /\ wordsCopy' # "NULL"
      BY <2>1 DEF BatRead, AnnounceInv
    <3>2. bat_read(bat_vol) \in {10 * n : n \in 0..10}
      BY <3>1, LevelIsNear
    <3>3. bat_read(bat_vol) = 0 \/ bat_read(bat_vol) \in Tens
      BY <3>2 DEF Tens
    <3>4. QED
      BY <3>1, <3>3 DEF AnnounceInv
  <2>2. CASE NearlyEmpty
    BY <2>2 DEF NearlyEmpty, AnnounceInv
  <2>3. CASE Remaining
    BY <2>3 DEF Remaining, AnnounceInv, Tens
  <2>copy. CASE Copy \/ CopyFails
    <3>1. pin \in Tens /\ pc' = "words" /\ spoken' = <<pincon>> /\ pin' = pin
      BY <2>copy DEF Copy, CopyFails, AnnounceInv
    <3>2. words' = Copied'
      <4>1. CASE Copy
        BY <4>1, <2>copy DEF Copy, AnnounceInv, Copied
      <4>2. CASE CopyFails
        BY <4>2 DEF CopyFails, Copied
      <4>3. QED
        BY <2>copy, <4>1, <4>2
    <3>3. PICK W : W = Copied'
      OBVIOUS
    <3>4. W \in Seq(Word) /\ words' = W /\ pin # 0
      <4>1. Copied' \in Seq(Word)
        BY <3>1, WordsOfTens DEF Copied
      <4>2. QED
        BY <3>1, <3>2, <3>3, <4>1 DEF Tens
    <3>5. Said(W, 0)' /\ Len(spoken') = 0 + 1
      BY <2>0, <3>1 DEF Said
    <3>6. /\ 0 \in 0..Len(W) /\ Len(words') = Len(W) - 0
          /\ \A j \in 1..Len(words') : words'[j] = W[0 + j]
      BY <3>4
    <3>7. QED
      BY <3>1, <3>3, <3>4, <3>5, <3>6 DEF AnnounceInv
  <2>4. CASE PlayWord
    <3>1. /\ pc = "words" /\ pc' = "words" /\ words # <<>> /\ pin' = pin /\ words' = Tail(words)
          /\ wordsCopy' = wordsCopy
          /\ spoken' = Append(spoken, OfWord(Head(words)))
      BY <2>4 DEF PlayWord
    <3>2. PICK W : W = Copied
      OBVIOUS
    <3>3. /\ pin \in Tens /\ words \in Seq(Word) /\ W \in Seq(Word)
      BY <3>1, <3>2, CopiedWords DEF AnnounceInv
    <3>4. PICK k \in 0..Len(W) : /\ Said(W, k) /\ Len(spoken) = k + 1
                                /\ Len(words) = Len(W) - k
                                /\ \A j \in 1..Len(words) : words[j] = W[k + j]
      BY <3>1, <3>2 DEF AnnounceInv
    <3>5. /\ Len(words) \in Nat /\ Len(words) # 0 /\ Len(W) \in Nat
          /\ words' \in Seq(Word) /\ Len(words') = Len(words) - 1
          /\ \A j \in 1..Len(words') : words'[j] = words[j + 1]
      BY <3>1, <3>3
    <3>6. /\ spoken \in Seq(Clip) /\ spoken[1] = pincon
          /\ \A j \in 1..k : spoken[j + 1] = OfWord(W[j])
      BY <3>4 DEF Said
    <3>7. Head(words) = W[k + 1] /\ Head(words) \in Word
      <4>1. Head(words) = words[1] /\ 1 \in 1..Len(words)
        BY <3>3, <3>5
      <4>2. QED
        BY <3>3, <3>4, <4>1
    <3>8. OfWord(Head(words)) \in Clip
      BY <3>7 DEF OfWord, Clip
    <3>9. /\ spoken' \in Seq(Clip) /\ Len(spoken') = k + 2
          /\ spoken'[k + 2] = OfWord(W[k + 1])
          /\ \A j \in 1..(k + 1) : spoken'[j] = spoken[j]
      BY <3>1, <3>4, <3>6, <3>7, <3>8
    <3>10. k + 1 \in 0..Len(W) /\ Len(words') = Len(W) - (k + 1)
      BY <3>4, <3>5
    <3>11. \A j \in 1..Len(words') : words'[j] = W[(k + 1) + j]
      <4> SUFFICES ASSUME NEW j \in 1..Len(words')
                   PROVE  words'[j] = W[(k + 1) + j]
        OBVIOUS
      <4>1. j + 1 \in 1..Len(words) /\ k + (j + 1) = (k + 1) + j
        BY <3>5
      <4>2. QED
        BY <3>4, <3>5, <4>1
    <3>12. Said(W, k + 1)'
      <4>1. spoken'[1] = pincon
        <5>1. 1 \in 1..(k + 1)
          OBVIOUS
        <5>2. QED
          BY <3>6, <3>9, <5>1
      <4>2. ASSUME NEW j \in 1..(k + 1)
            PROVE  spoken'[j + 1] = OfWord(W[j])
        <5>1. CASE j = k + 1
          BY <3>9, <5>1
        <5>2. CASE j \in 1..k
          <6>1. j + 1 \in 1..(k + 1)
            BY <5>2
          <6>2. QED
            BY <3>6, <3>9, <5>2, <6>1
        <5>3. QED
          BY <5>1, <5>2
      <4>3. QED
        BY <3>9, <4>1, <4>2 DEF Said
    <3>13. Len(spoken') = (k + 1) + 1
      BY <3>9
    <3>14. W = Copied'
      BY <3>1, <3>2 DEF Copied
    <3>15. QED
      BY <3>1, <3>3, <3>5, <3>10, <3>11, <3>12, <3>13, <3>14 DEF AnnounceInv, Tens
  <2>5. CASE Percent
    <3>1. /\ pc = "words" /\ pc' = "end" /\ words = <<>> /\ pin' = pin
          /\ wordsCopy' = wordsCopy
          /\ spoken' = Append(spoken, phantram)
      BY <2>5 DEF Percent
    <3>2. PICK W : W = Copied
      OBVIOUS
    <3>3. pin \in Tens /\ pin # 0 /\ W \in Seq(Word)
      BY <3>1, <3>2, CopiedWords DEF AnnounceInv, Tens
    <3>4. PICK k \in 0..Len(W) : Said(W, k) /\ Len(spoken) = k + 1 /\ Len(words) = Len(W) - k
      BY <3>1, <3>2 DEF AnnounceInv
    <3>5. k = Len(W)
      BY <3>1, <3>3, <3>4
    <3>6. /\ spoken \in Seq(Clip) /\ spoken[1] = pincon
          /\ \A j \in 1..k : spoken[j + 1] = OfWord(W[j])
      BY <3>4 DEF Said
    <3>7. /\ spoken' \in Seq(Clip) /\ Len(spoken') = k + 2 /\ spoken'[k + 2] = phantram
          /\ \A j \in 1..(k + 1) : spoken'[j] = spoken[j]
      BY <2>0, <3>1, <3>4, <3>6
    <3>8. Said(W, k)'
      <4>1. \A j \in 1..k : j + 1 \in 1..(k + 1)
        OBVIOUS
      <4>2. spoken'[1] = pincon
        BY <3>6, <3>7
      <4>3. QED
        BY <3>6, <3>7, <4>1, <4>2 DEF Said
    <3>9. W = Copied'
      BY <3>1, <3>2 DEF Copied
    <3>10. QED
      BY <3>1, <3>3, <3>5, <3>7, <3>8, <3>9 DEF AnnounceInv
  <2>6. CASE UNCHANGED batteryVars
    BY <2>6 DEF batteryVars, AnnounceInv, Said, Copied
  <2>7. QED
    BY <2>1, <2>2, <2>3, <2>4, <2>5, <2>6, <2>copy DEF BatteryNext
<1>3. QED
  BY <1>1, <1>2, PTL DEF BatterySpec

\* For every voltage, the clips asked for mean the level that was computed from
\* it, or there was no memory for the copy of the words and the number is left
\* out (play_pin, NumberToWords and PlayWords of play_amount.c, 183-188).
THEOREM WordsSayTheLevel == BatterySpec => []SaysTheLevel
<1>1. AnnounceInv => SaysTheLevel
  <2> SUFFICES ASSUME AnnounceInv, pc = "end"
               PROVE  IF wordsCopy = "NULL" THEN spoken = <<pincon, phantram>>
                      ELSE HeardLevel(spoken) = pin
    BY DEF SaysTheLevel
  <2>1. CASE pin = 0
    BY <2>1 DEF AnnounceInv, HeardLevel
  <2>silent. CASE pin # 0 /\ wordsCopy = "NULL"
    <3>1. Copied = <<>> /\ Len(Copied) = 0
      BY <2>silent DEF Copied
    <3>2. /\ Said(Copied, Len(Copied)) /\ Len(spoken) = Len(Copied) + 2
          /\ spoken[Len(spoken)] = phantram
      BY <2>silent DEF AnnounceInv
    <3>3. /\ spoken \in Seq(Clip) /\ Len(spoken) = 2
          /\ spoken[1] = pincon /\ spoken[2] = phantram
      BY <3>1, <3>2 DEF Said
    <3>4. QED
      BY <2>silent, <3>3
  <2>2. CASE pin # 0 /\ wordsCopy # "NULL"
    <3> DEFINE W == NumberToWords(pin)
               ws == [k \in 1..(Len(spoken) - 2) |-> spoken[k + 1][2]]
    <3>1. /\ pin \in Tens /\ Said(W, Len(W)) /\ Len(spoken) = Len(W) + 2
      BY <2>2 DEF AnnounceInv, Copied
    <3>2. W \in Seq(Word)
      BY <3>1, WordsOfTens
    <3>3. PICK n \in 1..10 : pin = 10 * n
      BY <3>1 DEF Tens
    <3>4. HeardWords(W) = pin
      BY <3>3, TensAreHeard
    <3> HIDE DEF W
    <3>5. ws = W
      <4>1. Len(W) \in Nat /\ Len(spoken) - 2 = Len(W)
        BY <3>1, <3>2
      <4>2. \A j \in 1..Len(W) : spoken[j + 1] = OfWord(W[j])
        BY <3>1 DEF Said
      <4>3. \A j \in 1..Len(W) : spoken[j + 1][2] = W[j]
        BY <4>2 DEF OfWord
      <4>4. W = [j \in 1..Len(W) |-> W[j]]
        BY <3>2
      <4>5. QED
        BY <4>1, <4>3, <4>4
    <3>6. spoken # <<pinduoi10>>
      BY <3>1 DEF Said, pincon, pinduoi10, Named
    <3>7. HeardLevel(spoken) = HeardWords(ws)
      BY <3>6 DEF HeardLevel
    <3>8. QED
      BY <2>2, <3>4, <3>5, <3>7
  <2>3. QED
    BY <2>1, <2>2, <2>silent
<1>2. QED
  BY <1>1, Announces, PTL

\* The file system has the three clips of play_pin, and none that is named
\* after a word.
NumberedDisk == {pinduoi10, pincon, phantram} \subseteq OnDisk /\ \A w : OfWord(w) \notin OnDisk

\* With such clips no level is heard, for every voltage.
THEOREM NumberIsUnheard ==
    ASSUME NumberedDisk
    PROVE  BatterySpec => []NumberIsSilent
<1>1. AnnounceInv => NumberIsSilent
  <2> SUFFICES ASSUME AnnounceInv, pc = "end"
               PROVE  LET heard == {k \in DOMAIN spoken : spoken[k] \in OnDisk}
                      IN  IF pin = 0 THEN spoken = <<pinduoi10>> /\ heard = {1}
                          ELSE /\ spoken[1] = pincon /\ spoken[Len(spoken)] = phantram
                               /\ heard = {1, Len(spoken)}
    BY DEF NumberIsSilent
  <2> DEFINE heard == {k \in DOMAIN spoken : spoken[k] \in OnDisk}
  <2>1. CASE pin = 0
    <3>1. spoken = <<pinduoi10>> /\ pinduoi10 \in OnDisk
      BY <2>1 DEF AnnounceInv, NumberedDisk
    <3>2. DOMAIN <<pinduoi10>> = {1} /\ <<pinduoi10>>[1] = pinduoi10
      OBVIOUS
    <3>3. heard = {1}
      BY <3>1, <3>2
    <3>4. QED
      BY <2>1, <3>1, <3>3
  <2>2. CASE pin # 0
    <3> DEFINE W == Copied
    <3>1. /\ pin \in Tens /\ Said(W, Len(W)) /\ Len(spoken) = Len(W) + 2
          /\ spoken[Len(spoken)] = phantram
      BY <2>2 DEF AnnounceInv
    <3>2. Len(W) \in Nat
      BY <3>1, CopiedWords
    <3> HIDE DEF W
    <3>3. /\ spoken[1] = pincon /\ DOMAIN spoken = 1..(Len(W) + 2)
          /\ \A j \in 1..Len(W) : spoken[j + 1] = OfWord(W[j])
      BY <3>1 DEF Said
    <3>4. \A m \in 1..(Len(W) + 2) : m = 1 \/ m = Len(W) + 2 \/ (m - 1 \in 1..Len(W) /\ (m - 1) + 1 = m)
      BY <3>2
    <3>5. \A m \in 1..(Len(W) + 2) : m # 1 /\ m # Len(W) + 2 => spoken[m] \notin OnDisk
      BY <3>3, <3>4 DEF NumberedDisk
    <3>6. spoken[1] \in OnDisk /\ spoken[Len(W) + 2] \in OnDisk
      BY <3>1, <3>3 DEF NumberedDisk
    <3>7. 1 \in 1..(Len(W) + 2) /\ Len(W) + 2 \in 1..(Len(W) + 2)
      BY <3>2
    <3>8. heard = {1, Len(W) + 2}
      BY <3>3, <3>5, <3>6, <3>7
    <3>9. QED
      BY <2>2, <3>1, <3>3, <3>8
  <2>3. QED
    BY <2>1, <2>2
<1>2. QED
  BY <1>1, Announces, PTL
=============================================================================
