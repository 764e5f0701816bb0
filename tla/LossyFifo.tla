----------------------------- MODULE LossyFifo -----------------------------
(***************************************************************************)
(* What the command path of the soundbox promises: commands are numbered   *)
(* as they arrive, each one is carried out at most once, in the order of   *)
(* arrival, and any of them may be lost: at the door, together at a        *)
(* restart, or at the head with the task that was carrying it out.         *)
(***************************************************************************)
EXTENDS Naturals, Sequences

VARIABLES
    arrived,  \* how many commands have arrived; the last one has this number
    pending,  \* the commands accepted and not yet carried out
    out       \* the commands carried out

Init == arrived = 0 /\ pending = <<>> /\ out = <<>>

Accept ==
    /\ arrived' = arrived + 1
    /\ pending' = Append(pending, arrived')
    /\ UNCHANGED out

Refuse == arrived' = arrived + 1 /\ UNCHANGED <<pending, out>>

CarryOut ==
    /\ pending # <<>>
    /\ out' = Append(out, Head(pending))
    /\ pending' = Tail(pending)
    /\ UNCHANGED arrived

LoseHead ==
    /\ pending # <<>>
    /\ pending' = Tail(pending)
    /\ UNCHANGED <<arrived, out>>

LoseAll == pending' = <<>> /\ UNCHANGED <<arrived, out>>

Next == Accept \/ Refuse \/ CarryOut \/ LoseHead \/ LoseAll

Spec == Init /\ [][Next]_<<arrived, pending, out>>

=============================================================================
