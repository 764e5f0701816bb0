---------------------------- MODULE MCReadMoney ----------------------------
(* An instance of ReadMoney for TLC. *)
EXTENDS ReadMoney

\* Digits that differ in every way sayGroup and sayNumber tell apart.
Telling == {0, 1, 5, 10, 15, 21, 100, 105, 110, 925}

\* Every group of three digits, alone and after another; every sequence of
\* up to four telling groups; zeros in every place of larger amounts, with
\* seven groups for those that do not fit.
SomeAmounts ==
    {<<>>} \union {<<n>> : n \in 1..999} \union {<<n, 1>> : n \in Digits}
    \union {s \in UNION {[1..n -> Telling] : n \in 2..4} : Last(s) # 0}
    \union {s \in UNION {[1..n -> {0, 1, 215}] : n \in 5..7} : Last(s) # 0}
=============================================================================
