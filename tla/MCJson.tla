------------------------------ MODULE MCJson ------------------------------
EXTENDS JsonLibrary

MCKey == {"k", "K", "j"}
MCLower == [k \in MCKey |-> IF k = "K" THEN "k" ELSE k]
MCSizes == {0, 9, 16, 33} \union 20..26

Symmetry == Permutations(Item)
=============================================================================
