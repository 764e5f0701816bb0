---------------------------- MODULE BatteryWords ----------------------------
(***************************************************************************)
(* play_pin(bat_read()): what the button task says of the battery after a  *)
(* short press. bat_read (src/main/monitor.c) makes a level out of a       *)
(* voltage, NumberToWords (src/main/play_amount.c, kieu = 1) makes words   *)
(* of the level, and PlayWords plays a clip for each.                      *)
(***************************************************************************)
EXTENDS Integers, Sequences, SequencesExt

CONSTANTS
    Voltages,  \* what ql_get_battery_vol can return, in mV
    OnDisk     \* the clips that are in the file system

ASSUME VoltagesAssumption == Voltages \subseteq Nat

PIN_VOL_MIN == 3500
PIN_VOL_MAX == 4200

\* Mutant: the level is cut to a multiple of ten.
bat_read_cut(bat_vol) ==
    LET bat_level == IF bat_vol <= PIN_VOL_MIN THEN 0
                     ELSE IF bat_vol >= PIN_VOL_MAX THEN 100
                     ELSE ((bat_vol - PIN_VOL_MIN) * 100) \div (PIN_VOL_MAX - PIN_VOL_MIN)
    IN (bat_level \div 10) * 10

bat_read(bat_vol) ==
    LET bat_level == IF bat_vol <= PIN_VOL_MIN THEN 0
                     ELSE IF bat_vol >= PIN_VOL_MAX THEN 100
                     ELSE ((bat_vol - PIN_VOL_MIN) * 100) \div (PIN_VOL_MAX - PIN_VOL_MIN)
    IN ((bat_level + 5) \div 10) * 10

\* units[], from index 0.
units == <<"khong", "mot", "hai", "ba", "bon", "nam", "sau", "bay", "tam", "chin">>
Unit(d) == units[d + 1]

\* The words of 1..999, which has one part and so no unit of thousands.
\* Twenty and more says muoi2 only if nothing follows it.
NumberToWords(number) ==
    LET hundreds == number \div 100
        tens == (number % 100) \div 10
        unitsPart == number % 10
        ofHundreds == IF hundreds > 0 THEN <<Unit(hundreds), "tram">> ELSE <<>>
        ofTens == CASE tens > 1 /\ unitsPart = 0 -> <<Unit(tens), "muoi2">>
                    [] tens > 1 /\ unitsPart > 0 -> <<Unit(tens)>>
                    [] tens = 1 -> <<"muoi">>
                    [] tens = 0 /\ unitsPart > 0 -> <<"le">>
                    [] OTHER -> <<>>
        ofUnits == CASE unitsPart = 0 -> <<>>
                     [] unitsPart = 1 /\ tens > 1 -> <<"mot2">>
                     [] unitsPart = 5 /\ tens > 0 -> <<"lam">>
                     [] OTHER -> <<Unit(unitsPart)>>
    IN ofHundreds \o ofTens \o ofUnits

\* A clip has a number of its own in name_mp3.h, or is named after a word.
Named(c) == <<"name_mp3", c>>
Number == [muoi |-> "210", muoi2 |-> "105", tram |-> "111", hai |-> "202", ba |-> "203",
           bon |-> "204", nam |-> "205", sau |-> "206", bay |-> "207", tam |-> "208",
           chin |-> "209", mot |-> "201"]

\* Mutant: a word's clip is looked up in name_mp3.h.
OfWordNumbered(w) == IF w \in DOMAIN Number THEN Named(Number[w]) ELSE <<"word", w>>

OfWord(w) == <<"word", w>>
pinduoi10 == Named("122")
pincon == Named("108")
phantram == Named("238")

VARIABLES
    bat_vol,    \* the voltage that was read
    pin,        \* the level bat_read returned
    words,      \* the words PlayWords has not played yet
    wordsCopy,  \* the copy PlayWords makes of them: "unset", "made", "NULL"
    pc,         \* "read", "pin", "copy", "words", "end"
    spoken      \* the clips handed to PlayMP3File

batteryVars == <<bat_vol, pin, words, wordsCopy, pc, spoken>>

BatteryInit ==
    /\ bat_vol \in Voltages
    /\ pin = 0
    /\ words = <<>>
    /\ wordsCopy = "unset"
    /\ pc = "read"
    /\ spoken = <<>>

BatRead ==
    /\ pc = "read"
    /\ pin' = bat_read(bat_vol)
    /\ pc' = "pin"
    /\ UNCHANGED <<bat_vol, words, wordsCopy, spoken>>

NearlyEmpty ==
    /\ pc = "pin" /\ pin = 0
    /\ spoken' = <<pinduoi10>>
    /\ pc' = "end"
    /\ UNCHANGED <<bat_vol, pin, words, wordsCopy>>

Remaining ==
    /\ pc = "pin" /\ pin # 0
    /\ spoken' = <<pincon>>
    /\ words' = NumberToWords(pin)
    /\ pc' = "copy"
    /\ UNCHANGED <<bat_vol, pin, wordsCopy>>

\* PlayWords works on a copy of the words.
Copy ==
    /\ pc = "copy"
    /\ wordsCopy' = "made"
    /\ pc' = "words"
    /\ UNCHANGED <<bat_vol, pin, words, spoken>>

\* Without memory for it PlayWords returns at once.
CopyFails ==
    /\ pc = "copy"
    /\ wordsCopy' = "NULL"
    /\ words' = <<>>
    /\ pc' = "words"
    /\ UNCHANGED <<bat_vol, pin, spoken>>

\* Mutant: the loop drops the last word.
PlayWordButLast ==
    /\ pc = "words" /\ words # <<>>
    /\ spoken' = IF Len(words) = 1 THEN spoken ELSE Append(spoken, OfWord(Head(words)))
    /\ words' = Tail(words)
    /\ UNCHANGED <<bat_vol, pin, wordsCopy, pc>>

\* A round of the strtok loop of PlayWords.
PlayWord ==
    /\ pc = "words" /\ words # <<>>
    /\ spoken' = Append(spoken, OfWord(Head(words)))
    /\ words' = Tail(words)
    /\ UNCHANGED <<bat_vol, pin, wordsCopy, pc>>

Percent ==
    /\ pc = "words" /\ words = <<>>
    /\ spoken' = Append(spoken, phantram)
    /\ pc' = "end"
    /\ UNCHANGED <<bat_vol, pin, words, wordsCopy>>

BatteryNext ==
    BatRead \/ NearlyEmpty \/ Remaining \/ Copy \/ CopyFails \/ PlayWord \/ Percent

BatterySpec == BatteryInit /\ [][BatteryNext]_batteryVars

-----------------------------------------------------------------------------
(* The listener: what the words mean in Vietnamese. A number after a bare   *)
(* digit makes that digit the tens; le says that there are none.            *)

Silence == [hundreds |-> 0, number |-> 0]

Add(ear, d) == [ear EXCEPT !.number = IF @ \in 1..9 THEN 10 * @ + d ELSE @ + d]

Digit(w) == CHOOSE d \in 0..9 : Unit(d) = w

HearWord(w, ear) ==
    CASE w \in ToSet(units) -> Add(ear, Digit(w))
      [] w = "mot2" -> Add(ear, 1)
      [] w = "lam" -> Add(ear, 5)
      [] w = "muoi" -> [ear EXCEPT !.number = @ + 10]
      [] w = "muoi2" -> [ear EXCEPT !.number = @ * 10]
      [] w = "tram" -> [hundreds |-> 100 * ear.number, number |-> 0]
      [] w = "le" -> ear

HeardWords(ws) ==
    LET ear[k \in 0..Len(ws)] == IF k = 0 THEN Silence ELSE HearWord(ws[k], ear[k - 1])
    IN  ear[Len(ws)].hundreds + ear[Len(ws)].number

\* The level a listener makes out of an announcement: "under ten" for
\* pinduoi10, and the words between pincon and phantram.
HeardLevel(clips) ==
    IF clips = <<pinduoi10>> THEN 0
    ELSE HeardWords([k \in 1..(Len(clips) - 2) |-> clips[k + 1][2]])

-----------------------------------------------------------------------------

\* Two roundings in a row (to a percent, to ten) never take the level more
\* than five percent away from the voltage.
Near(v, said) ==
    LET charge == IF v <= PIN_VOL_MIN THEN 0
                  ELSE IF v >= PIN_VOL_MAX THEN PIN_VOL_MAX - PIN_VOL_MIN
                  ELSE v - PIN_VOL_MIN
        error == said * (PIN_VOL_MAX - PIN_VOL_MIN) - 100 * charge
    IN /\ error <= 5 * (PIN_VOL_MAX - PIN_VOL_MIN)
       /\ error >= -5 * (PIN_VOL_MAX - PIN_VOL_MIN)

PinIsNear == pc # "read" => Near(bat_vol, pin)

\* The clips that are asked for mean the level that was computed (which of
\* them are there to be heard is NumberIsSilent), unless there was no memory
\* for the copy of the words: then the number is left out, and what remains
\* is "battery left, percent".
SaysTheLevel ==
    pc = "end" => IF wordsCopy = "NULL" THEN spoken = <<pincon, phantram>>
                  ELSE HeardLevel(spoken) = pin

\* PlayWords names a clip after its word, but the clips of the file system
\* have numbers: the announcements of all levels sound the same, "battery
\* left ... percent", and only the nearly empty battery sounds different.
NumberIsSilent ==
    LET heard == {k \in DOMAIN spoken : spoken[k] \in OnDisk}
    IN  pc = "end" =>
            IF pin = 0 THEN spoken = <<pinduoi10>> /\ heard = {1}
            ELSE /\ spoken[1] = pincon /\ spoken[Len(spoken)] = phantram
                 /\ heard = {1, Len(spoken)}

=============================================================================
