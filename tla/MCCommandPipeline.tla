------------------------- MODULE MCCommandPipeline -------------------------
(* Instances of CommandPipeline for TLC. *)
EXTENDS CommandPipeline

Cmd(t, h, n) == [rsp |-> FALSE, type |-> t, has |-> h, len |-> n]

\* One command for every way through the thread: amounts of 8, 9 and 19
\* digits, an amount that comes with an SN_REQUEST, serial numbers of 10
\* and 64 characters, and a LINK that is missing.
AllKinds ==
    {Cmd("PlayAmount", TRUE, 8), Cmd("PlayAmount", TRUE, 9),
     Cmd("SET_SN", TRUE, 10), Cmd("SET_SN", TRUE, 64),
     Cmd("PlayAmount", TRUE, 19), Cmd("LookUp", FALSE, 0),
     [Cmd("PlayAmount", TRUE, 6) EXCEPT !.rsp = TRUE]}
=============================================================================
