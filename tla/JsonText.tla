------------------------------ MODULE JsonText ------------------------------
(***************************************************************************)
(* The two conversions of strings in src/main/cJSON.c: parse_string, which *)
(* turns the characters between two quotes into bytes of UTF-8, and        *)
(* print_string_ptr, which goes the other way.                             *)
(*                                                                         *)
(* The characters between the quotes are grouped into the units that the   *)
(* second pass of parse_string reads: "char", a byte that stands for       *)
(* itself; "escape", a backslash and a letter for the byte in code; "u", a *)
(* UTF-16 code unit written \uXXXX; "z", a \u whose four characters, in    *)
(* rest, are not all digits; "bad", a backslash and a letter that means    *)
(* nothing; "cut", a \u with less than four characters, in rest, before    *)
(* the closing quote; and "lone", a backslash right before it.             *)
(***************************************************************************)
EXTENDS Integers, Sequences, FiniteSets, SequencesExt

Unit(kind, code) == [kind |-> kind, code |-> code, rest |-> <<>>]
UnitOf(kind, rest) == [kind |-> kind, code |-> 0, rest |-> rest]

Quote == 34
Backslash == 92
Letter == 117                   \* any character that is neither
Letters == {8, 9, 10, 12, 13}   \* \b \t \n \f \r
Escapable == {Quote, 47, Backslash} \union Letters

CodeUnits == 0..65535           \* of UTF-16
Rests(n) == [1..n -> {Quote, Backslash, Letter}]

Units == {Unit("char", byte) : byte \in 0..255 \ {Backslash}}
         \union {Unit("escape", byte) : byte \in Escapable}
         \union {Unit("u", code) : code \in CodeUnits}
         \union {UnitOf("z", rest) : rest \in Rests(4)}
         \union {UnitOf("cut", rest) : rest \in UNION {Rests(n) : n \in 0..3}}
         \union {Unit("bad", 0), Unit("lone", Quote)}

\* The characters of a unit.
Spelled(unit) ==
    CASE unit.kind = "char" -> <<unit.code>>
      [] unit.kind = "lone" -> <<Backslash>>
      [] unit.kind = "escape" -> <<Backslash, IF unit.code \in Letters THEN Letter ELSE unit.code>>
      [] unit.kind = "u" -> <<Backslash, Letter, Letter, Letter, Letter, Letter>>
      [] OTHER -> <<Backslash, Letter>> \o unit.rest

Width(unit) == Len(Spelled(unit))
MaxWidth == 6

\* The sum of a sequence of numbers.
Total(numbers) ==
    LET total[x \in 1..Len(numbers) + 1] ==
            IF x > Len(numbers) THEN 0 ELSE numbers[x] + total[x + 1]
    IN  total[1]

Characters(units) == Total([x \in DOMAIN units |-> Width(units[x])])

High == 55296..56319   \* 0xD800..0xDBFF
Low == 56320..57343    \* 0xDC00..0xDFFF

\* parse_hex4: what is not hexadecimal counts as zero.
parse_hex4(unit) == IF unit.kind = "z" THEN 0 ELSE unit.code

\* The bytes utf16_literal_to_utf8 writes for a code point.
Encoded(codepoint) ==
    LET low(n) == 128 + ((codepoint \div n) % 64)
    IN  IF codepoint < 128 THEN <<codepoint>>
        ELSE IF codepoint < 2048 THEN <<192 + codepoint \div 64, low(1)>>
        ELSE IF codepoint < 65536 THEN <<224 + codepoint \div 4096, low(64), low(1)>>
        ELSE <<240 + codepoint \div 262144, low(4096), low(64), low(1)>>

\* Mutant: the second half of a pair is not looked at.
utf16_literal_unpaired(units, x) ==
    LET first == parse_hex4(units[x])
        pair == first \in High
        second == IF x < Len(units) THEN parse_hex4(units[x + 1]) ELSE 0
    IN  [ok |-> /\ units[x].kind # "cut"
                /\ first \notin Low
                /\ pair => x < Len(units) /\ units[x + 1].kind \in {"u", "z"},
         count |-> IF pair THEN 2 ELSE 1,
         bytes |-> Encoded(IF pair THEN 65536 + (first % 1024) * 1024 + (second % 1024) ELSE first)]

\* utf16_literal_to_utf8 at unit x: whether it can be read, how many units it
\* takes, and the bytes.
utf16_literal_to_utf8(units, x) ==
    LET first == parse_hex4(units[x])
        pair == first \in High
        second == IF x < Len(units) THEN parse_hex4(units[x + 1]) ELSE 0
    IN  [ok |-> /\ units[x].kind # "cut"
                /\ first \notin Low
                /\ pair => /\ x < Len(units)
                           /\ units[x + 1].kind \in {"u", "z"}
                           /\ second \in Low,
         count |-> IF pair THEN 2 ELSE 1,
         bytes |-> Encoded(IF pair THEN 65536 + (first % 1024) * 1024 + (second % 1024) ELSE first)]

\* The first pass of parse_string, character by character: a backslash begins
\* an escape unless one begins right before it, and skips the next character.
\* Skipped are as many, and it ends at the closing quote unless it has met
\* another on the way or skips this one.
FirstPass(units) ==
    LET places == (DOMAIN units) \X (1..MaxWidth)
        Is(p, char) == p[2] <= Width(units[p[1]]) /\ Spelled(units[p[1]])[p[2]] = char
        Before(p) == IF p[2] > 1 THEN <<p[1], p[2] - 1>> ELSE <<p[1] - 1, Width(units[p[1] - 1])>>
        begins[p \in places] == Is(p, Backslash) /\ (p # <<1, 1>> => ~begins[Before(p)])
    IN  [skipped |-> Total([x \in DOMAIN units |->
                         Cardinality({k \in 1..MaxWidth : begins[<<x, k>>]})]),
         ends |-> /\ \A p \in places : Is(p, Quote) => p # <<1, 1>> /\ begins[Before(p)]
                  /\ units # <<>> => ~begins[<<Len(units), Width(Last(units))>>]]

\* What may stand between two quotes.
IsText(units) ==
    /\ units \in Seq(Units)
    /\ \A x \in 1..(Len(units) - 1) : units[x].kind \notin {"cut", "lone"}
    /\ FirstPass(units).ends

\* parse_string: the bytes, and the size of the buffer they are written to.
\* After a lone backslash it finds the closing quote, and takes it.
parse_string(units) ==
    LET Then(bytes, rest) == [ok |-> rest.ok, bytes |-> bytes \o rest.bytes]
        read[x \in 1..Len(units) + 1] ==
            IF x > Len(units) THEN [ok |-> TRUE, bytes |-> <<>>]
            ELSE IF units[x].kind \in {"char", "escape", "lone"} THEN Then(<<units[x].code>>, read[x + 1])
            ELSE LET literal == utf16_literal_to_utf8(units, x)
                 IN  IF units[x].kind # "bad" /\ literal.ok
                     THEN Then(literal.bytes, read[x + literal.count])
                     ELSE [ok |-> FALSE, bytes |-> <<>>]
    IN  [ok |-> read[1].ok, bytes |-> read[1].bytes,
         room |-> Characters(units) + 1 - FirstPass(units).skipped + 1]

-----------------------------------------------------------------------------
(* Printing *)

\* The string ends at its first zero.
ToZero(bytes) ==
    LET zero == SelectInSeq(bytes, LAMBDA b : b = 0)
    IN  IF zero = 0 THEN bytes ELSE SubSeq(bytes, 1, zero - 1)

\* Mutant: control characters are counted like letters.
AddedOne(byte) ==
    IF byte \in {Quote, Backslash} \union Letters \/ byte < 32 THEN 1 ELSE 0

\* The first pass counts the characters that escapes add.
Added(byte) ==
    IF byte \in {Quote, Backslash} \union Letters THEN 1 ELSE IF byte < 32 THEN 5 ELSE 0

\* The second pass writes them.
Escaped(byte) ==
    IF byte > 31 /\ byte \notin {Quote, Backslash} THEN Unit("char", byte)
    ELSE IF byte \in {Quote, Backslash} \union Letters THEN Unit("escape", byte)
    ELSE Unit("u", byte)

\* print_string_ptr: the characters between the quotes, and output_length, at
\* which the closing quote is put.
print_string_ptr(bytes) ==
    LET s == ToZero(bytes)
    IN  [units |-> [x \in DOMAIN s |-> Escaped(s[x])],
         output_length |-> Total([x \in DOMAIN s |-> 1 + Added(s[x])])]
=============================================================================
