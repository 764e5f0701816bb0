---------------------------- MODULE SpeakInTurn ----------------------------
(***************************************************************************)
(* What a caller expects of Play_mp3: one clip at a time, each one heard   *)
(* to its end, in the order asked for; a clip that cannot be played is     *)
(* skipped.                                                                *)
(***************************************************************************)
EXTENDS Naturals, Sequences

CONSTANTS
    Clip,    \* pairs: who asks for the clip, and the how many-th of theirs it is
    NoClip

VARIABLES speaking, heard

Init == speaking = NoClip /\ heard = <<>>

\* A clip begins in silence, after those its speaker asked for before it.
Begin(c) ==
    /\ speaking = NoClip
    /\ \A i \in 1..Len(heard) : heard[i][1] = c[1] => heard[i][2] < c[2]
    /\ speaking' = c
    /\ UNCHANGED heard

End ==
    /\ speaking # NoClip
    /\ heard' = Append(heard, speaking)
    /\ speaking' = NoClip

Next == (\E c \in Clip : Begin(c)) \/ End

\* One clip at a time, each speaker's in order, and no clip is cut short.
InTurn == Init /\ [][Next]_<<speaking, heard>>

\* Whatever has begun is heard to its end.
Spec == InTurn /\ WF_<<speaking, heard>>(End)

=============================================================================
