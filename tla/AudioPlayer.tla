---------------------------- MODULE AudioPlayer ----------------------------
(***************************************************************************)
(* Play_mp3 (src/main/mp3.c) and the playback callback it shares one flag  *)
(* with.  Every task that speaks (main_app, the button task, the MQTT      *)
(* echo task, the publisher) calls Play_mp3 clip by clip.  The call is     *)
(* asynchronous: it waits for mp3_play_stop to be 0, hands the clip to     *)
(* the audio subsystem, and sets mp3_play_stop only when that call has     *)
(* come back.  The audio subsystem's thread reports ENDED through          *)
(* ql_Mp3PlaybackEvent, which clears the flag.                             *)
(*                                                                         *)
(* Each task speaks one sentence: SentenceLen clips, in order.             *)
(***************************************************************************)
EXTENDS Naturals

CONSTANTS
    Tasks,        \* the RTOS tasks that call Play_mp3
    SentenceLen,  \* bound: the clips each of them plays
    EarlyEnd      \* TRUE when a clip can end before the task that started it
                  \* has executed line 105 (a truncated file, a preemption)

ASSUME SentenceAssumption == SentenceLen \in Nat \ {0}
ASSUME EarlyEndAssumption == EarlyEnd \in BOOLEAN

Clip == Tasks \X (1..SentenceLen)
NoClip == <<>>

VARIABLES
    mp3_play_stop,  \* the flag: 1 while a clip is believed to play
    mp3_handle,     \* the handle of the clip that was started last
    pc,             \* where each task is inside Play_mp3
    said,           \* how many clips of its sentence each task has asked for
    playing,        \* the clips the audio subsystem is playing
    callback,       \* the audio thread: "idle", or "clear" between lines 79 and 80
    hurried         \* history: a clip stopped playing before its line 105

vars == <<mp3_play_stop, mp3_handle, pc, said, playing, callback, hurried>>

\* The clip a task is asking for.
clipOf(t) == <<t, said[t]>>

Init ==
    /\ mp3_play_stop = 0
    /\ mp3_handle = NoClip
    /\ pc = [t \in Tasks |-> "idle"]
    /\ said = [t \in Tasks |-> 0]
    /\ playing = {}
    /\ callback = "idle"
    /\ hurried = FALSE

\* PlayMP3File is called with the next clip and enters Play_mp3.
PlayMP3File(t) ==
    /\ pc[t] = "idle"
    /\ said[t] < SentenceLen
    /\ said' = [said EXCEPT ![t] = @ + 1]
    /\ pc' = [pc EXCEPT ![t] = "wait"]
    /\ UNCHANGED <<mp3_play_stop, mp3_handle, playing, callback, hurried>>

\* Mutant: the flag is not tested.
LeaveWaitLoopUntested(t) ==
    /\ pc[t] = "wait"
    /\ pc' = [pc EXCEPT ![t] = "play"]
    /\ UNCHANGED <<mp3_play_stop, mp3_handle, said, playing, callback, hurried>>

\* The polling loop is left once the flag reads 0; nothing is locked.
LeaveWaitLoop(t) ==
    /\ pc[t] = "wait"
    /\ mp3_play_stop = 0
    /\ pc' = [pc EXCEPT ![t] = "play"]
    /\ UNCHANGED <<mp3_play_stop, mp3_handle, said, playing, callback, hurried>>

\* ql_play_mp3 accepts the clip and returns 0; the flag is not yet set.
PlayAccepted(t) ==
    /\ pc[t] = "play"
    /\ playing' = playing \union {clipOf(t)}
    /\ mp3_handle' = clipOf(t)
    /\ pc' = [pc EXCEPT ![t] = "mark"]
    /\ UNCHANGED <<mp3_play_stop, said, callback, hurried>>

\* Mutant: the flag is raised before the result is looked at.
PlayRefusedRaises(t) ==
    /\ pc[t] = "play"
    /\ pc' = [pc EXCEPT ![t] = "idle"]
    /\ mp3_play_stop' = 1
    /\ UNCHANGED <<mp3_handle, said, playing, callback, hurried>>

\* ql_play_mp3 fails (no such file, driver busy): the clip is skipped.
PlayRefused(t) ==
    /\ pc[t] = "play"
    /\ pc' = [pc EXCEPT ![t] = "idle"]
    /\ UNCHANGED <<mp3_play_stop, mp3_handle, said, playing, callback, hurried>>

\* Line 105: the flag is raised and Play_mp3 returns while the clip plays.
RaiseFlag(t) ==
    /\ pc[t] = "mark"
    /\ mp3_play_stop' = 1
    /\ pc' = [pc EXCEPT ![t] = "idle"]
    /\ UNCHANGED <<mp3_handle, said, playing, callback, hurried>>

\* The starter of clip c has not executed line 105 yet.
Unmarked(c) == pc[c[1]] = "mark" /\ clipOf(c[1]) = c

\* Clip c ends by itself; its ENDED event stops whatever mp3_handle names.
PlaybackEnded(c) ==
    /\ callback = "idle"
    /\ c \in playing
    /\ Unmarked(c) => EarlyEnd
    /\ callback' = "clear"
    /\ playing' = playing \ {c, mp3_handle}
    /\ hurried' = (hurried \/ \E d \in playing \intersect {c, mp3_handle} : Unmarked(d))
    /\ UNCHANGED <<mp3_play_stop, mp3_handle, pc, said>>

\* Mutant: the callback forgets line 80.
LowerFlagForgotten ==
    /\ callback = "clear"
    /\ callback' = "idle"
    /\ UNCHANGED <<mp3_play_stop, mp3_handle, pc, said, playing, hurried>>

\* Line 80: the callback lowers the flag.
LowerFlag ==
    /\ callback = "clear"
    /\ callback' = "idle"
    /\ mp3_play_stop' = 0
    /\ UNCHANGED <<mp3_handle, pc, said, playing, hurried>>

TaskStep(t) ==
    \/ PlayMP3File(t)
    \/ LeaveWaitLoop(t)
    \/ PlayAccepted(t)
    \/ PlayRefused(t)
    \/ RaiseFlag(t)

Next ==
    \/ \E t \in Tasks : TaskStep(t)
    \/ \E c \in playing : PlaybackEnded(c)
    \/ LowerFlag

Spec == Init /\ [][Next]_vars

\* Every task runs, every clip comes to its end, and the callback finishes.
Fairness ==
    /\ \A t \in Tasks : WF_vars(TaskStep(t))
    /\ \A c \in Clip : WF_vars(c \in playing /\ PlaybackEnded(c))
    /\ WF_vars(LowerFlag)

FairSpec == Spec /\ Fairness

-----------------------------------------------------------------------------

\* Every variable has its type.
TypeOK ==
    /\ mp3_play_stop \in {0, 1}
    /\ mp3_handle \in Clip \union {NoClip}
    /\ pc \in [Tasks -> {"idle", "wait", "play", "mark"}]
    /\ said \in [Tasks -> 0..SentenceLen]
    /\ \A t \in Tasks : pc[t] # "idle" => said[t] # 0
    /\ playing \in SUBSET Clip
    /\ callback \in {"idle", "clear"}
    /\ hurried \in BOOLEAN

\* What the comment at mp3.c:90 tells the caller: while one clip plays the
\* next one waits until it finishes, so two clips never sound together.
NoOverlap == \A c, d \in playing : c = d

\* The other half of that comment: waiting ends with the clip, so while the
\* flag makes callers wait there is a clip (or its callback) to wait for.
WaitEndsWithClip == mp3_play_stop = 1 => playing # {} \/ callback = "clear"

\* For any number of tasks: the flag can stay raised with nothing playing,
\* which blocks every later Play_mp3 for good, only after a clip has gone
\* silent between lines 102 and 105 of the task that started it.
StuckOnlyIfHurried ==
    mp3_play_stop = 1 /\ ~hurried => playing # {} \/ callback = "clear"

\* Every sentence comes to its end: no caller of Play_mp3 waits for ever.
SentencesEnd == <>[](\A t \in Tasks : said[t] = SentenceLen /\ pc[t] = "idle")

=============================================================================
