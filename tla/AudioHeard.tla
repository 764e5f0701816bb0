----------------------------- MODULE AudioHeard -----------------------------
(***************************************************************************)
(* AudioPlayer with a history of what was heard, and what that history     *)
(* promises: the refinement of SpeakInTurn.                                *)
(***************************************************************************)
EXTENDS AudioPlayer, Sequences

VARIABLE heard  \* history: the clips played to their end, in that order

AllVars == <<vars, heard>>

HeardInit == Init /\ heard = <<>>

HeardNext ==
    \/ \E t \in Tasks : TaskStep(t) /\ UNCHANGED heard
    \/ \E c \in playing : PlaybackEnded(c) /\ heard' = Append(heard, c)
    \/ LowerFlag /\ UNCHANGED heard

\* The player, and the record of what it played.
HeardSpec == HeardInit /\ [][HeardNext]_AllVars /\ Fairness

\* The clip that sounds.
Sounding == IF playing = {} THEN NoClip ELSE CHOOSE c \in playing : TRUE

Turn == INSTANCE SpeakInTurn WITH speaking <- Sounding, heard <- heard

\* With one caller the player keeps the promise of SpeakInTurn.
SpeaksInTurn == Turn!Spec

=============================================================================
