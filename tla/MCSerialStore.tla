--------------------------- MODULE MCSerialStore ---------------------------
(* An instance of SerialStore for TLC.  The lengths of the code (8, 32, 39, *)
(* 64) are scaled to 1, 4, 5, 7; every side of every limit occurs.          *)
EXTENDS SerialStore

CONSTANTS a, b, c, d, e

SerialOf(n, l) == [name |-> n, len |-> l]

\* Too short, fitting (twice), as long as the buffer, too long for the
\* confirmation, too long for SET_SN.
EveryLength ==
    {SerialOf(a, 1), SerialOf(b, 2), SerialOf(c, 3), SerialOf(d, 4), SerialOf(e, 6),
     SerialOf(a, 7)}
=============================================================================
