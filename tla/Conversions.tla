---------------------------- MODULE Conversions ----------------------------
(***************************************************************************)
(* The conversions of text the program makes: the strings of a command     *)
(* that cJSON reads (parse_string) and of a request that it prints         *)
(* (print_string_ptr), and the lines of the log (UART_Printf).  One call   *)
(* with any input; the modules JsonText and UartPrintf hold what it does.  *)
(***************************************************************************)
EXTENDS JsonText, UartPrintf

CONSTANTS
    Texts,    \* what may stand between two quotes
    Strings,  \* strings in memory, without their zero
    Lines     \* formats and arguments of the log

\* A line passes an argument for each conversion; no line of the program has a
\* conversion %b, nor a width beyond MaxField.
Arguments(format) == Cardinality({x \in DOMAIN format : format[x].letter # ""})
IsLine(line) ==
    /\ line.format \in Seq([letter : {""}, char : Int]
                          \union [letter : Conversions, zero : BOOLEAN, width : Seq(0..9)])
    /\ \A x \in DOMAIN line.format :
           line.format[x].letter # "" => Field(FALSE, line.format[x].width) <= MaxField
    /\ line.args \in Seq(Numbers) /\ Arguments(line.format) <= Len(line.args)

ASSUME TextsAssumption == \A text \in Texts : IsText(text)
ASSUME StringsAssumption == Strings \subseteq Seq(0..255)
ASSUME LinesAssumption == \A line \in Lines : IsLine(line)

VARIABLES job, result

conversionVars == <<job, result>>

Init ==
    /\ job \in ([call : {"parse"}, input : Texts] \union [call : {"print"}, input : Strings]
                \union [call : {"log"}, input : Lines])
    /\ result = <<>>

ParseString == job.call = "parse" /\ result' = parse_string(job.input)
PrintString == job.call = "print" /\ result' = print_string_ptr(job.input)
Log == job.call = "log" /\ result' = UART_Printf(job.input.format, job.input.args)

Next ==
    /\ result = <<>>
    /\ ParseString \/ PrintString \/ Log
    /\ UNCHANGED job

Spec == Init /\ [][Next]_conversionVars

Done(call) == result # <<>> /\ job.call = call

-----------------------------------------------------------------------------
(* Properties *)

\* The code points that bytes of UTF-8 stand for.
Utf8Length(b) == IF b < 128 THEN 1 ELSE IF b < 224 THEN 2 ELSE IF b < 240 THEN 3 ELSE 4
Utf8Point(bytes, x) ==
    LET low(y) == bytes[x + y] - 128
        n == Utf8Length(bytes[x])
    IN  CASE n = 1 -> bytes[x]
          [] n = 2 -> (bytes[x] - 192) * 64 + low(1)
          [] n = 3 -> ((bytes[x] - 224) * 64 + low(1)) * 64 + low(2)
          [] n = 4 -> (((bytes[x] - 240) * 64 + low(1)) * 64 + low(2)) * 64 + low(3)
FromUtf8(bytes) ==
    LET from[x \in 1..Len(bytes) + 4] ==
            IF x > Len(bytes) THEN <<>> ELSE <<Utf8Point(bytes, x)>> \o from[x + Utf8Length(bytes[x])]
    IN  from[1]

\* What JSON means by the units: a pair of surrogates is one code point.
Code(unit) == unit.code
Surrogates(units, S) == {x \in DOMAIN units : units[x].kind = "u" /\ units[x].code \in S}
WellFormed(units) ==
    /\ \A x \in DOMAIN units : units[x].kind \notin {"bad", "cut"}
    /\ {x + 1 : x \in Surrogates(units, High)} = Surrogates(units, Low)
CodePoints(units) ==
    LET points[x \in 1..Len(units) + 2] ==
            IF x > Len(units) THEN <<>>
            ELSE IF x \in Surrogates(units, High)
            THEN <<65536 + (units[x].code - 55296) * 1024 + (units[x + 1].code - 56320)>> \o points[x + 2]
            ELSE <<Code(units[x])>> \o points[x + 1]
    IN  points[1]

\* What bytes above 127 mean is up to their neighbours; they are only copied.
Ascii(units) == \A x \in DOMAIN units : units[x].kind = "char" => units[x].code < 128

\* parse_string accepts the strings of JSON and no others, but for control
\* characters as they are and a \u without digits, which it takes for a zero
\* (the characters that should be digits may end in a backslash, and leave a bare
\* quote, or a backslash before the closing one: those read as quotes).  The bytes
\* mean what was written, and the estimate of their number leaves room for all
\* of them and the zero.
StringsMeanWhatIsWritten ==
    Done("parse") =>
        /\ result.ok <=> WellFormed(job.input)
        /\ result.ok /\ Ascii(job.input) => FromUtf8(result.bytes) = CodePoints(job.input)
        /\ Len(result.bytes) + 1 <= result.room

\* What print_string_ptr writes is as long as it has reckoned, and reads back
\* to its closing quote and as the same string.
StringsReadBack ==
    Done("print") =>
        /\ Characters(result.units) = result.output_length
        /\ IsText(result.units) /\ parse_string(result.units).ok
        /\ parse_string(result.units).bytes = ToZero(job.input)

\* The number that the digits of s stand for in a radix, with its sign.
Value(s, radix) ==
    LET value[x \in 0..Len(s)] ==
            IF x = 0 THEN 0 ELSE IF s[x] < 0 THEN value[x - 1] ELSE value[x - 1] * radix + s[x]
    IN  value[Len(s)]
ReadBack(s, radix) == IF Contains(s, Sign) THEN -Value(s, radix) ELSE Value(s, radix)

\* Up to a conversion it does not know (%zu, mqtt.c:315, is one), a line of the
\* log holds its text and its arguments, a number as digits that read back as
\* that number and in no less than its width; and there it ends.
LogSaysTheLine ==
    Done("log") =>
        LET format == job.input.format
            Known(part) == part.letter \in {"", "s", "c", "d", "u", "x", "X"}
            unknown == SelectInSeq(format, LAMBDA part : ~Known(part))
            said == IF unknown = 0 THEN format ELSE SubSeq(format, 1, unknown - 1)
            \* The parts of out that begin with the texts of said, in order.
            Splits(x, arg, from, to) ==
                LET part == said[x]
                    s == SubSeq(result.out, from, to)
                IN  IF part.letter = "" THEN s = <<part.char>>
                    ELSE IF part.letter \in {"s", "c"} THEN s = <<job.input.args[arg]>>
                    ELSE LET radix == IF part.letter \in {"x", "X"} THEN 16 ELSE 10
                             negative == part.letter # "d" /\ job.input.args[arg] < 0
                         IN  /\ Len(s) >= Value(part.width, 10)
                             /\ ReadBack(s, radix) = job.input.args[arg] + (IF negative THEN Word ELSE 0)
            Argument(x) == Arguments(SubSeq(format, 1, x))
        IN  /\ result.ended = (unknown # 0)
            /\ \E cut \in [0..Len(said) -> 0..Len(result.out)] :
                   /\ cut[0] = 0 /\ cut[Len(said)] = Len(result.out)
                   /\ \A x \in 1..Len(said) : cut[x - 1] < cut[x] /\ Splits(x, Argument(x), cut[x - 1] + 1, cut[x])
=============================================================================
