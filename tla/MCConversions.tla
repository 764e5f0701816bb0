--------------------------- MODULE MCConversions ---------------------------
EXTENDS Conversions

\* Every length of UTF-8 with its first and last code, both halves of a pair,
\* the codes next to them, and every way to be wrong; a \u without digits may
\* hide a backslash or two, behind which a bare quote can stand.
MCUnits ==
    {Unit("char", 97), Unit("char", 200), Unit("char", Quote), Unit("escape", 10),
     Unit("escape", Quote), Unit("escape", Backslash), Unit("bad", 0)}
    \union {Unit("u", code) : code \in {0, 65, 127, 128, 2047, 2048, 55295, 55296, 56319,
                                       56320, 57343, 57344, 65535}}
    \union {UnitOf("z", rest) : rest \in {[x \in 1..4 |-> Letter], [x \in 1..4 |-> Backslash],
                <<Letter, Letter, Letter, Backslash>>, <<Backslash, Quote, Letter, Backslash>>}}
MCLastUnits ==
    {Unit("lone", Quote)}
    \union {UnitOf("cut", rest) : rest \in {<<>>, <<Letter, Backslash>>, <<Letter, Backslash, Quote>>}}
MCTexts ==
    LET texts == UNION {[1..n -> MCUnits] : n \in 0..3}
        short == UNION {[1..n -> MCUnits] : n \in 0..2}
    IN  {t \in texts \union {Append(s, u) : s \in short, u \in MCLastUnits} : FirstPass(t).ends}

MCStrings == UNION {[1..n -> {0, 1, 8, 10, 31, 32, 34, 47, 92, 97, 127, 200}] : n \in 0..4}

MCParts ==
    {Character(-3)}
    \union {Conversion(FALSE, <<>>, letter) : letter \in {"s", "c", "d", "u", "x", "X", "z"}}
    \union {Conversion(FALSE, <<3>>, "d"), Conversion(TRUE, <<4>>, "u"), Conversion(FALSE, <<9>>, "x")}
MCNumbers == {0, 9, 10, 255, 32767, -1, -10, -32768}
MCLines ==
    {[format |-> f, args |-> [x \in 1..3 |->
         LET numbers == SelectSeq(f, LAMBDA part : part.letter # "")
         IN  IF x <= Len(numbers) /\ numbers[x].letter \notin {"s", "c"} THEN n ELSE -4]] :
        f \in UNION {[1..m -> MCParts] : m \in 0..3}, n \in MCNumbers}
=============================================================================
