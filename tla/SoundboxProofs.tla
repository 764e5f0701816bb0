--------------------------- MODULE SoundboxProofs ---------------------------
(* Proofs about the player (AudioPlayer, AudioHeard) and about the box that *)
(* speaks through it (Soundbox), for any tasks, any sentences and any       *)
(* number of calls that fail.                                               *)
EXTENDS Soundbox, AudioHeard, TLAPS

-----------------------------------------------------------------------------
(* The player *)

\* What a task does inside Play_mp3, and the audio thread; what is left of
\* Next are the calls of Play_mp3.
Inside(t) == LeaveWaitLoop(t) \/ PlayAccepted(t) \/ PlayRefused(t) \/ RaiseFlag(t)
InsideNext ==
    \/ \E t \in Tasks : Inside(t)
    \/ \E c \in playing : PlaybackEnded(c)
    \/ LowerFlag

LEMMA TypesInside == TypeOK /\ [InsideNext]_vars => TypeOK'
<1> SUFFICES ASSUME TypeOK, [InsideNext]_vars
             PROVE  TypeOK'
  OBVIOUS
<1> USE SentenceAssumption DEF TypeOK
<1>1. ASSUME NEW t \in Tasks, LeaveWaitLoop(t)
      PROVE  TypeOK'
  BY <1>1 DEF LeaveWaitLoop
<1>2. ASSUME NEW t \in Tasks, PlayAccepted(t)
      PROVE  TypeOK'
  <2>1. said[t] \in 1..SentenceLen
    BY <1>2 DEF PlayAccepted
  <2>2. clipOf(t) \in Clip
    BY <2>1 DEF clipOf, Clip
  <2>3. QED
    BY <1>2, <2>2 DEF PlayAccepted
<1>3. ASSUME NEW t \in Tasks, PlayRefused(t)
      PROVE  TypeOK'
  BY <1>3 DEF PlayRefused
<1>4. ASSUME NEW t \in Tasks, RaiseFlag(t)
      PROVE  TypeOK'
  BY <1>4 DEF RaiseFlag
<1>5. ASSUME NEW c \in playing, PlaybackEnded(c)
      PROVE  TypeOK'
  BY <1>5 DEF PlaybackEnded
<1>6. CASE LowerFlag
  BY <1>6 DEF LowerFlag
<1>7. CASE UNCHANGED vars
  BY <1>7 DEF vars
<1>8. QED
  BY <1>1, <1>2, <1>3, <1>4, <1>5, <1>6, <1>7 DEF InsideNext, Inside

\* Every variable of the player keeps its type: the flag, the handle and the
\* position of each task inside Play_mp3 (mp3.c:86-112).
THEOREM TypeCorrect == Spec => []TypeOK
<1>1. Init => TypeOK
  <2> SUFFICES ASSUME Init
               PROVE  TypeOK
    OBVIOUS
  <2>1. 0 \in 0..SentenceLen
    BY SentenceAssumption
  <2>2. QED
    BY <2>1 DEF Init, TypeOK
<1>2. ASSUME TypeOK, NEW t \in Tasks, PlayMP3File(t)
      PROVE  TypeOK'
  BY <1>2, SentenceAssumption DEF PlayMP3File, TypeOK
<1>3. TypeOK /\ [Next]_vars => TypeOK'
  BY <1>2, TypesInside DEF Next, TaskStep, InsideNext, Inside
<1>4. QED
  BY <1>1, <1>3, PTL DEF Spec

-----------------------------------------------------------------------------

\* The strengthening of StuckOnlyIfHurried: between lines 102 and 105 a
\* starter's clip is still playing, unless some clip has been hurried.
StuckInv ==
    /\ StuckOnlyIfHurried
    /\ \A t \in Tasks : pc[t] = "mark" => clipOf(t) \in playing \/ hurried

LEMMA StuckInside == TypeOK /\ StuckInv /\ [InsideNext]_vars => StuckInv'
<1> SUFFICES ASSUME TypeOK, StuckInv, [InsideNext]_vars
             PROVE  StuckInv'
  OBVIOUS
<1> USE DEF TypeOK, StuckInv, StuckOnlyIfHurried, clipOf
<1>1. ASSUME NEW t \in Tasks, LeaveWaitLoop(t)
      PROVE  StuckInv'
  BY <1>1 DEF LeaveWaitLoop
<1>2. ASSUME NEW t \in Tasks, PlayAccepted(t)
      PROVE  StuckInv'
  BY <1>2 DEF PlayAccepted
<1>3. ASSUME NEW t \in Tasks, PlayRefused(t)
      PROVE  StuckInv'
  BY <1>3 DEF PlayRefused
<1>4. ASSUME NEW t \in Tasks, RaiseFlag(t)
      PROVE  StuckInv'
  BY <1>4 DEF RaiseFlag
<1>5. ASSUME NEW c \in playing, PlaybackEnded(c)
      PROVE  StuckInv'
  <2>1. StuckOnlyIfHurried'
    BY <1>5 DEF PlaybackEnded
  <2>2. ASSUME NEW t \in Tasks, pc'[t] = "mark", clipOf(t)' \notin playing'
        PROVE  hurried'
    <3>1. pc[t] = "mark" /\ clipOf(t)' = clipOf(t)
      BY <1>5, <2>2 DEF PlaybackEnded
    <3>2. CASE hurried
      BY <1>5, <3>2 DEF PlaybackEnded
    <3>3. CASE ~hurried
      <4>1. clipOf(t) \in playing \intersect {c, mp3_handle}
        BY <1>5, <2>2, <3>1, <3>3 DEF PlaybackEnded
      <4>2. Unmarked(clipOf(t))
        BY <3>1 DEF Unmarked
      <4>3. QED
        BY <1>5, <4>1, <4>2 DEF PlaybackEnded
    <3>4. QED
      BY <3>2, <3>3
  <2>3. QED
    BY <2>1, <2>2
<1>6. CASE LowerFlag
  BY <1>6 DEF LowerFlag
<1>7. CASE UNCHANGED vars
  BY <1>7 DEF vars
<1>8. QED
  BY <1>1, <1>2, <1>3, <1>4, <1>5, <1>6, <1>7 DEF InsideNext, Inside

\* For any number of tasks and any interleaving with the audio thread: the
\* flag of mp3.c is raised over silence only after a clip went silent between
\* lines 102 and 105 of its starter.
THEOREM StuckNeedsHurry == Spec => []StuckOnlyIfHurried
<1>1. Init => StuckInv
  BY DEF Init, StuckInv, StuckOnlyIfHurried
<1>2. ASSUME TypeOK, StuckInv, NEW t \in Tasks, PlayMP3File(t)
      PROVE  StuckInv'
  BY <1>2 DEF PlayMP3File, TypeOK, StuckInv, StuckOnlyIfHurried, clipOf
<1>3. TypeOK /\ StuckInv /\ [Next]_vars => StuckInv'
  BY <1>2, StuckInside DEF Next, TaskStep, InsideNext, Inside
<1>4. StuckInv => StuckOnlyIfHurried
  BY DEF StuckInv
<1>5. QED
  BY <1>1, <1>3, <1>4, TypeCorrect, PTL DEF Spec

-----------------------------------------------------------------------------

\* One task calls Play_mp3, as main_app does until StartMQTTTask.
LoneCaller == \A s, t \in Tasks : s = t

\* The strengthening of NoOverlap for a lone caller: the polling loop is left
\* only in silence, and a clip sounds only under the flag or just before it.
LoneInv ==
    /\ NoOverlap
    /\ \A t \in Tasks : pc[t] = "play" => playing = {} /\ mp3_play_stop = 0
    /\ playing # {} \/ callback = "clear" =>
           mp3_play_stop = 1 \/ \E t \in Tasks : pc[t] = "mark"
    /\ callback = "clear" => playing = {}

\* A lone caller keeps LoneInv, whatever the audio thread does.
LEMMA LoneInvariant == ASSUME LoneCaller PROVE Spec => []LoneInv
<1> USE DEF LoneCaller
<1>1. Init => LoneInv
  BY DEF Init, LoneInv, NoOverlap
<1>2. TypeOK /\ LoneInv /\ [Next]_vars => LoneInv'
  <2> SUFFICES ASSUME TypeOK, LoneInv, [Next]_vars
               PROVE  LoneInv'
    OBVIOUS
  <2> USE DEF TypeOK, LoneInv, NoOverlap
  <2>1. ASSUME NEW t \in Tasks, PlayMP3File(t)
        PROVE  LoneInv'
    BY <2>1 DEF PlayMP3File
  <2>2. ASSUME NEW t \in Tasks, LeaveWaitLoop(t)
        PROVE  LoneInv'
    BY <2>2 DEF LeaveWaitLoop
  <2>3. ASSUME NEW t \in Tasks, PlayAccepted(t)
        PROVE  LoneInv'
    <3>1. playing = {} /\ callback = "idle"
      BY <2>3 DEF PlayAccepted
    <3>2. playing' = {clipOf(t)} /\ pc'[t] = "mark" /\ callback' = "idle"
      BY <2>3, <3>1 DEF PlayAccepted
    <3>3. QED
      BY <2>3, <3>2
  <2>4. ASSUME NEW t \in Tasks, PlayRefused(t)
        PROVE  LoneInv'
    BY <2>4 DEF PlayRefused
  <2>5. ASSUME NEW t \in Tasks, RaiseFlag(t)
        PROVE  LoneInv'
    BY <2>5 DEF RaiseFlag
  <2>6. ASSUME NEW c \in playing, PlaybackEnded(c)
        PROVE  LoneInv'
    <3>1. playing' = {}
      BY <2>6 DEF PlaybackEnded
    <3>2. QED
      BY <2>6, <3>1 DEF PlaybackEnded
  <2>7. CASE LowerFlag
    BY <2>7 DEF LowerFlag
  <2>8. CASE UNCHANGED vars
    BY <2>8 DEF vars
  <2>9. QED
    BY <2>1, <2>2, <2>3, <2>4, <2>5, <2>6, <2>7, <2>8 DEF Next, TaskStep
<1>3. QED
  BY <1>1, <1>2, TypeCorrect, PTL DEF Spec

\* A lone caller never hears two clips together (the wait of mp3.c:88-93).
THEOREM LoneNoOverlap == ASSUME LoneCaller PROVE Spec => []NoOverlap
<1>1. LoneInv => NoOverlap
  BY DEF LoneInv
<1>2. QED
  BY <1>1, LoneInvariant, PTL

\* A lone caller whose clips outlive line 105 never waits over silence.
THEOREM LoneWaitEnds ==
    ASSUME LoneCaller, ~EarlyEnd PROVE Spec => []WaitEndsWithClip
<1>1. Init => ~hurried
  BY DEF Init
<1>2. TypeOK /\ LoneInv /\ ~hurried /\ [Next]_vars => ~hurried'
  <2> SUFFICES ASSUME TypeOK, LoneInv, ~hurried, [Next]_vars
               PROVE  ~hurried'
    OBVIOUS
  <2>1. ASSUME NEW c \in playing, PlaybackEnded(c)
        PROVE  ~hurried'
    <3>1. playing \intersect {c, mp3_handle} \subseteq {c}
      BY DEF LoneInv, NoOverlap
    <3>2. ~Unmarked(c)
      BY <2>1 DEF PlaybackEnded
    <3>3. QED
      BY <2>1, <3>1, <3>2 DEF PlaybackEnded
  <2>2. CASE UNCHANGED hurried
    BY <2>2
  <2>3. QED
    BY <2>1, <2>2 DEF Next, TaskStep, PlayMP3File, LeaveWaitLoop, PlayAccepted,
       PlayRefused, RaiseFlag, LowerFlag, vars
<1>3. ~hurried /\ StuckOnlyIfHurried => WaitEndsWithClip
  BY DEF StuckOnlyIfHurried, WaitEndsWithClip
<1>4. QED
  BY <1>1, <1>2, <1>3, TypeCorrect, LoneInvariant, StuckNeedsHurry, PTL DEF Spec

-----------------------------------------------------------------------------
(* What is heard of a lone caller.                                         *)

\* The clips that have been started: their task has asked for a later one, or
\* is past the call of ql_play_mp3.
Started ==
    {c \in Clip : \/ c[2] < said[c[1]]
                  \/ c[2] = said[c[1]] /\ pc[c[1]] \notin {"wait", "play"}}

\* What sounds and what was heard has been started, so the next clip of a
\* task is a later one than each of them.
HeardInv == heard \in Seq(Started) /\ playing \subseteq Started

LEMMA HeardIsThePlayer == HeardSpec => Spec
<1>1. HeardInit => Init
  BY DEF HeardInit
<1>2. [HeardNext]_AllVars => [Next]_vars
  BY DEF HeardNext, Next, AllVars
<1>3. QED
  BY <1>1, <1>2, PTL DEF HeardSpec, Spec

LEMMA ClipParts ==
    ASSUME NEW c \in Clip PROVE c[1] \in Tasks /\ c[2] \in 1..SentenceLen /\ c # NoClip
BY DEF Clip, NoClip

\* No step of the player takes a start back.
LEMMA StartedStays == TypeOK /\ [Next]_vars => Started \subseteq Started'
<1> SUFFICES ASSUME TypeOK, [Next]_vars, NEW c \in Started
             PROVE  c \in Started'
  OBVIOUS
<1> DEFINE u == c[1]
<1>1. c \in Clip /\ u \in Tasks /\ c[2] \in Nat /\ said[u] \in Nat
  <2>1. c \in Clip
    BY DEF Started
  <2>2. QED
    BY <2>1, ClipParts DEF TypeOK
<1>2. ASSUME NEW t \in Tasks, PlayMP3File(t)
      PROVE  c \in Started'
  <2>1. CASE u = t
    <3>1. said'[u] = said[u] + 1
      BY <1>1, <1>2, <2>1 DEF PlayMP3File, TypeOK
    <3>2. QED
      BY <1>1, <3>1 DEF Started
  <2>2. CASE u # t
    BY <1>1, <1>2, <2>2 DEF PlayMP3File, Started, TypeOK
  <2>3. QED
    BY <2>1, <2>2
<1>3. ASSUME NEW t \in Tasks, LeaveWaitLoop(t) \/ PlayAccepted(t) \/ PlayRefused(t) \/ RaiseFlag(t)
      PROVE  c \in Started'
  BY <1>1, <1>3 DEF LeaveWaitLoop, PlayAccepted, PlayRefused, RaiseFlag, Started, TypeOK
<1>4. ASSUME UNCHANGED <<pc, said>>
      PROVE  c \in Started'
  BY <1>4 DEF Started
<1>5. QED
  BY <1>2, <1>3, <1>4 DEF Next, TaskStep, PlaybackEnded, LowerFlag, vars

LEMMA SeqOfMore ==
    ASSUME NEW S, NEW T, S \subseteq T, NEW s \in Seq(S)
    PROVE  s \in Seq(T)
OBVIOUS

LEMMA HeardStep == TypeOK /\ HeardInv /\ [HeardNext]_AllVars => HeardInv'
<1> SUFFICES ASSUME TypeOK, HeardInv, [HeardNext]_AllVars
             PROVE  HeardInv'
  OBVIOUS
<1>1. [Next]_vars
  BY DEF HeardNext, Next, AllVars
<1>2. heard \in Seq(Started') /\ playing \subseteq Started'
  BY <1>1, StartedStays, SeqOfMore DEF HeardInv
<1>3. playing' \subseteq Started'
  <2>1. ASSUME NEW t \in Tasks, PlayAccepted(t)
        PROVE  playing' \subseteq Started'
    <3>1. clipOf(t) \in Clip
      BY <2>1 DEF PlayAccepted, TypeOK, clipOf, Clip
    <3>2. clipOf(t) \in Started'
      BY <2>1, <3>1 DEF PlayAccepted, Started, clipOf, TypeOK
    <3>3. QED
      BY <1>2, <2>1, <3>2 DEF PlayAccepted
  <2>2. CASE playing' \subseteq playing
    BY <1>2, <2>2
  <2>3. QED
    BY <1>1, <2>1, <2>2 DEF Next, TaskStep, PlayMP3File, LeaveWaitLoop, PlayRefused,
       RaiseFlag, PlaybackEnded, LowerFlag, vars
<1>4. heard' \in Seq(Started')
  <2>1. CASE UNCHANGED heard
    BY <1>2, <2>1
  <2>2. ASSUME NEW c \in playing, heard' = Append(heard, c)
        PROVE  heard' \in Seq(Started')
    BY <1>2, <2>2
  <2>3. QED
    BY <2>1, <2>2 DEF HeardNext, AllVars
<1>5. QED
  BY <1>3, <1>4 DEF HeardInv

\* A clip that begins is later than all its task has had heard.
LEMMA TurnBegins ==
    ASSUME LoneCaller, TypeOK, LoneInv, HeardInv, NEW t \in Tasks, PlayAccepted(t), UNCHANGED heard
    PROVE  \E c \in Clip : Turn!Begin(c)
<1>1. playing = {} /\ playing' = {clipOf(t)}
  BY DEF PlayAccepted, LoneInv
<1>2. clipOf(t) \in Clip /\ clipOf(t)[1] = t /\ clipOf(t)[2] = said[t]
  BY SentenceAssumption DEF PlayAccepted, TypeOK, clipOf, Clip
<1>3. Sounding = NoClip /\ Sounding' = clipOf(t)
  BY <1>1 DEF Sounding
<1>4. \A i \in 1..Len(heard) : heard[i][1] = t => heard[i][2] < said[t]
  <2>1. \A i \in 1..Len(heard) : heard[i] \in Started
    BY DEF HeardInv
  <2>2. QED
    BY <2>1 DEF Started, PlayAccepted
<1>5. Turn!Begin(clipOf(t))
  BY <1>2, <1>3, <1>4 DEF Turn!Begin
<1>6. QED
  BY <1>2, <1>5

\* Refinement, the safety half: with one caller, whatever the length of the
\* sentence and the moments at which clips end, the clips sound one at a time,
\* in the order asked for, none of them twice and none cut short (mp3.c:86-112).
THEOREM LoneSpeaksInTurn == ASSUME LoneCaller PROVE HeardSpec => Turn!InTurn
<1>1. HeardInit => Turn!Init /\ HeardInv
  BY DEF HeardInit, Init, Turn!Init, Sounding, HeardInv
<1>2. TypeOK /\ LoneInv /\ HeardInv /\ [HeardNext]_AllVars => [Turn!Next]_<<Sounding, heard>>
  <2> SUFFICES ASSUME TypeOK, LoneInv, HeardInv, [HeardNext]_AllVars
               PROVE  [Turn!Next]_<<Sounding, heard>>
    OBVIOUS
  <2>1. ASSUME NEW t \in Tasks, PlayAccepted(t), UNCHANGED heard
        PROVE  Turn!Next
    BY <2>1, TurnBegins DEF Turn!Next
  <2>2. ASSUME NEW c \in playing, PlaybackEnded(c), heard' = Append(heard, c)
        PROVE  Turn!Next
    <3>1. playing = {c} /\ playing' = {}
      BY <2>2 DEF LoneInv, NoOverlap, PlaybackEnded
    <3>2. Sounding = c /\ Sounding' = NoClip
      BY <3>1 DEF Sounding
    <3>3. c # NoClip
      BY ClipParts DEF TypeOK
    <3>4. QED
      BY <2>2, <3>2, <3>3 DEF Turn!Next, Turn!End
  <2>3. CASE UNCHANGED <<playing, heard>>
    BY <2>3 DEF Sounding
  <2>4. QED
    BY <2>1, <2>2, <2>3 DEF HeardNext, TaskStep, PlayMP3File, LeaveWaitLoop, PlayRefused,
       RaiseFlag, LowerFlag, AllVars, vars
<1>3. HeardSpec => [](TypeOK /\ LoneInv)
  BY HeardIsThePlayer, TypeCorrect, LoneInvariant, PTL
<1>4. QED
  BY <1>1, <1>2, <1>3, HeardStep, PTL DEF HeardSpec, Turn!InTurn

-----------------------------------------------------------------------------
(* The box *)

\* That MQTTEchoTask speaks, and waits in Play_mp3 for others that speak,
\* changes only when it works, never what it does: each step of the soundbox
\* is a step of the session of MqttSession, or none of its business.
LEMMA EachStepIsTheSessions == [BoxNext]_boxVars => [Session!Next]_(Session!vars)
<1> SUFFICES ASSUME [BoxNext]_boxVars
             PROVE  Session!Next \/ UNCHANGED Session!vars
  OBVIOUS
<1> USE DEF Session!vars, Session!taskVars, Session!ledVars
<1>1. CASE EchoStep
  BY <1>1 DEF EchoStep, EchoSpeaks, EchoWorks, Session!Next, Session!EchoStep
<1>2. ASSUME NEW t \in Tasks, InPlay_mp3(t)
      PROVE  UNCHANGED Session!vars
  BY <1>2 DEF InPlay_mp3, sessionVars
<1>3. CASE OtherSpeaks
  BY <1>3 DEF OtherSpeaks, sessionVars
<1>4. ASSUME NEW c \in playing, ClipEnds(c)
      PROVE  UNCHANGED Session!vars
  BY <1>4 DEF ClipEnds, sessionVars
<1>5. CASE FlagFalls
  BY <1>5 DEF FlagFalls, sessionVars
<1>6. CASE LedStep
  BY <1>6 DEF LedStep, Session!Next
<1>7. CASE KeepAlive
  BY <1>7 DEF KeepAlive, Session!Next
<1>8. CASE World
  BY <1>8 DEF World, Session!Next
<1>9. CASE UNCHANGED boxVars
  BY <1>9 DEF boxVars, sessionVars
<1>10. QED
  BY <1>1, <1>2, <1>3, <1>4, <1>5, <1>6, <1>7, <1>8, <1>9 DEF BoxNext

\* The soundbox implements the session (mqtt.c:88-216): what MqttSession says
\* of MQTTEchoTask holds of the task that speaks as well.
THEOREM BoxIsASession == BoxSpec => Session!Spec
<1>1. BoxInit => Session!Init
  BY DEF BoxInit
<1>2. QED
  BY <1>1, EachStepIsTheSessions, PTL DEF BoxSpec, Session!Spec

-----------------------------------------------------------------------------

\* No step of the session leaves a connection deaf but those after which it
\* has been noted: the calls of lines 192 and 195 that fail.
LEMMA DeafnessIsCaused ==
    DeafHasCause /\ [Session!Next]_(Session!vars) => DeafHasCause'
<1> SUFFICES ASSUME Session!DeafHasCause, [Session!Next]_(Session!vars)
             PROVE  Session!DeafHasCause'
  BY DEF DeafHasCause
<1> USE DEF Session!DeafHasCause, Session!vars, Session!taskVars, Session!ledVars
<1>1. CASE Session!FirstNetworkConnect
  BY <1>1 DEF Session!FirstNetworkConnect
<1>2. CASE Session!FirstMQTTConnect
  BY <1>2 DEF Session!FirstMQTTConnect, Session!Connected
<1>3. CASE Session!FirstStartTask
  BY <1>3 DEF Session!FirstStartTask
<1>4. CASE Session!FirstSubscribe
  BY <1>4 DEF Session!FirstSubscribe, Session!Granted, Session!NotGranted, Session!NotConnected
<1>5. CASE Session!CheckConnection
  BY <1>5 DEF Session!CheckConnection
<1>6. CASE Session!ReNetworkConnect
  BY <1>6 DEF Session!ReNetworkConnect
<1>7. CASE Session!ReMQTTConnect
  BY <1>7 DEF Session!ReMQTTConnect, Session!Connected
<1>8. CASE Session!ReStartTask
  BY <1>8 DEF Session!ReStartTask
<1>9. CASE Session!ReSubscribe
  BY <1>9 DEF Session!ReSubscribe, Session!Granted, Session!NotGranted, Session!NotConnected
<1>10. CASE Session!Welcome
  BY <1>10 DEF Session!Welcome
<1>11. CASE Session!KeepAliveExpires \/ Session!ClosedByBroker
  BY <1>11 DEF Session!KeepAliveExpires, Session!ClosedByBroker, Session!Broken
<1>12. CASE Session!LinkChanges
  BY <1>12 DEF Session!LinkChanges
<1>13. CASE Session!LedStep
  BY <1>13 DEF Session!LedStep, Session!ReadFlag, Session!ReadAgain, Session!BlinkLow
<1>14. CASE UNCHANGED Session!vars
  BY <1>14
<1>15. QED
  BY <1>1, <1>2, <1>3, <1>4, <1>5, <1>6, <1>7, <1>8, <1>9, <1>10, <1>11, <1>12, <1>13, <1>14
     DEF Session!Next, Session!EchoStep

\* However many calls fail: the device is deaf on a connection in use only
\* after one of its own calls there has failed (mqtt.c:192-200).
THEOREM DeafnessHasCause == BoxSpec => []DeafHasCause
<1>1. BoxInit => DeafHasCause
  BY DEF BoxInit, Session!Init, DeafHasCause, Session!DeafHasCause
<1>2. QED
  BY <1>1, EachStepIsTheSessions, DeafnessIsCaused, PTL DEF BoxSpec

\* The task comes to line 198 only from a subscription that was granted, and
\* only the connection's end takes a subscription away.
LEMMA WelcomeStaysTrue ==
    WelcomeIsTrue /\ [Session!Next]_(Session!vars) => WelcomeIsTrue'
<1> SUFFICES ASSUME Session!WelcomeIsTrue, [Session!Next]_(Session!vars)
             PROVE  Session!WelcomeIsTrue'
  BY DEF WelcomeIsTrue
<1> USE DEF Session!WelcomeIsTrue, Session!vars, Session!taskVars, Session!ledVars
<1>1. CASE Session!FirstNetworkConnect \/ Session!FirstMQTTConnect \/ Session!FirstStartTask
           \/ Session!FirstSubscribe
  BY <1>1 DEF Session!FirstNetworkConnect, Session!FirstMQTTConnect, Session!FirstStartTask,
              Session!FirstSubscribe
<1>2. CASE Session!CheckConnection \/ Session!ReNetworkConnect \/ Session!ReMQTTConnect
           \/ Session!ReStartTask
  BY <1>2 DEF Session!CheckConnection, Session!ReNetworkConnect, Session!ReMQTTConnect,
              Session!ReStartTask
<1>3. CASE Session!ReSubscribe
  BY <1>3 DEF Session!ReSubscribe, Session!Granted
<1>4. CASE Session!Welcome
  BY <1>4 DEF Session!Welcome
<1>5. CASE Session!KeepAliveExpires \/ Session!ClosedByBroker
  BY <1>5 DEF Session!KeepAliveExpires, Session!ClosedByBroker, Session!Broken
<1>6. CASE Session!LinkChanges
  BY <1>6 DEF Session!LinkChanges
<1>7. CASE Session!LedStep
  BY <1>7 DEF Session!LedStep, Session!ReadFlag, Session!ReadAgain, Session!BlinkLow
<1>8. CASE UNCHANGED Session!vars
  BY <1>8
<1>9. QED
  BY <1>1, <1>2, <1>3, <1>4, <1>5, <1>6, <1>7, <1>8 DEF Session!Next, Session!EchoStep

\* When the device says that the server is reached again, it is, or the
\* connection has broken in the meantime (mqtt.c:198).
THEOREM WelcomeIsNoLie == BoxSpec => []WelcomeIsTrue
<1>1. BoxInit => WelcomeIsTrue
  BY DEF BoxInit, Session!Init, WelcomeIsTrue, Session!WelcomeIsTrue
<1>2. QED
  BY <1>1, EachStepIsTheSessions, WelcomeStaysTrue, PTL DEF BoxSpec
-----------------------------------------------------------------------------

LEMMA SessionKeepsItsTypes ==
    Session!TypeOK /\ [Session!Next]_(Session!vars) => Session!TypeOK'
<1> SUFFICES ASSUME Session!TypeOK, [Session!Next]_(Session!vars)
             PROVE  Session!TypeOK'
  OBVIOUS
<1>0. glitches' \in 0..MaxGlitches
  <2>1. glitches' = glitches \/ (glitches < MaxGlitches /\ glitches' = glitches + 1)
    BY DEF Session!Next, Session!EchoStep, Session!LedStep, Session!vars, Session!taskVars,
           Session!FirstNetworkConnect, Session!FirstMQTTConnect, Session!FirstStartTask,
           Session!FirstSubscribe, Session!CheckConnection, Session!ReNetworkConnect,
           Session!ReMQTTConnect, Session!ReStartTask, Session!ReSubscribe, Session!Welcome,
           Session!KeepAliveExpires, Session!ClosedByBroker, Session!LinkChanges,
           Session!ReadFlag, Session!ReadAgain, Session!BlinkLow, Session!Fails,
           Session!Succeeds, Session!Connected, Session!Granted, Session!NotGranted,
           Session!NotConnected
  <2>2. glitches \in 0..MaxGlitches
    BY DEF Session!TypeOK
  <2>3. QED
    BY <2>1, <2>2, GlitchAssumption
<1> USE <1>0
<1> USE DEF Session!TypeOK, Session!FirstConnection, Session!Reconnection, Session!vars,
            Session!taskVars, Session!ledVars
<1>1. CASE Session!FirstNetworkConnect \/ Session!ReNetworkConnect
  BY <1>1 DEF Session!FirstNetworkConnect, Session!ReNetworkConnect
<1>2. CASE Session!FirstMQTTConnect \/ Session!ReMQTTConnect
  <2>1. /\ isconnected' \in {0, 1} /\ served' \in BOOLEAN /\ subscribed' \in BOOLEAN
        /\ skipped' \in BOOLEAN
    <3>1. \/ Session!Connected
          \/ UNCHANGED <<isconnected, served, subscribed, skipped>>
      BY <1>2 DEF Session!FirstMQTTConnect, Session!ReMQTTConnect
    <3>2. QED
      BY <3>1 DEF Session!Connected
  <2>2. stage' \in {"start", "r_start", "exited", "loop"} /\ mqtt_connect' \in {0, 1}
    BY <1>2 DEF Session!FirstMQTTConnect, Session!ReMQTTConnect
  <2>3. UNCHANGED <<link, monitor, led>>
    BY <1>2 DEF Session!FirstMQTTConnect, Session!ReMQTTConnect
  <2>4. QED
    BY <2>1, <2>2, <2>3
<1>3. CASE Session!FirstStartTask \/ Session!ReStartTask
  <2>1. CASE Session!FirstStartTask
    BY <2>1 DEF Session!FirstStartTask
  <2>2. CASE Session!ReStartTask
    BY <2>2 DEF Session!ReStartTask
  <2>3. QED
    BY <1>3, <2>1, <2>2
<1>4. CASE Session!FirstSubscribe \/ Session!ReSubscribe
  <2>1. /\ isconnected' \in {0, 1} /\ served' \in BOOLEAN /\ subscribed' \in BOOLEAN
        /\ skipped' \in BOOLEAN
    <3>1. Session!Granted \/ Session!NotGranted \/ Session!NotConnected
      BY <1>4 DEF Session!FirstSubscribe, Session!ReSubscribe
    <3>2. QED
      BY <3>1 DEF Session!Granted, Session!NotGranted, Session!NotConnected
  <2>2. stage' \in {"loop", "r_welcome"} /\ UNCHANGED <<link, mqtt_connect, monitor, led>>
    BY <1>4 DEF Session!FirstSubscribe, Session!ReSubscribe
  <2>3. QED
    BY <2>1, <2>2
<1>5. CASE Session!CheckConnection \/ Session!Welcome
  BY <1>5 DEF Session!CheckConnection, Session!Welcome
<1>6. CASE Session!KeepAliveExpires \/ Session!ClosedByBroker
  BY <1>6 DEF Session!KeepAliveExpires, Session!ClosedByBroker, Session!Broken
<1>7. CASE Session!LinkChanges
  BY <1>7 DEF Session!LinkChanges
<1>8. CASE Session!LedStep
  BY <1>8 DEF Session!LedStep, Session!ReadFlag, Session!ReadAgain, Session!BlinkLow
<1>9. CASE UNCHANGED Session!vars
  BY <1>9
<1>10. QED
  BY <1>1, <1>2, <1>3, <1>4, <1>5, <1>6, <1>7, <1>8, <1>9 DEF Session!Next, Session!EchoStep

\* Every variable of the session keeps its type, whatever the player does with
\* the task that keeps it (mqtt.c:88-216).
THEOREM SessionTypeCorrect == BoxSpec => []Session!TypeOK
<1>1. BoxInit => Session!TypeOK
  <2> SUFFICES ASSUME Session!Init
               PROVE  Session!TypeOK
    BY DEF BoxInit
  <2>1. glitches \in 0..MaxGlitches
    BY GlitchAssumption DEF Session!Init
  <2>2. QED
    BY <2>1 DEF Session!Init, Session!TypeOK, Session!FirstConnection
<1>2. QED
  BY <1>1, EachStepIsTheSessions, SessionKeepsItsTypes, PTL DEF BoxSpec

-----------------------------------------------------------------------------
(* The player, with tasks that speak again and again.                      *)

\* Each step of the soundbox is one inside Play_mp3 or of the audio thread,
\* a call of Play_mp3, or none of the player's.
LEMMA EachStepIsThePlayers ==
    [BoxNext]_boxVars => [InsideNext]_vars \/ \E t \in Tasks : Speak(t)
<1> SUFFICES ASSUME [BoxNext]_boxVars
             PROVE  [InsideNext]_vars \/ \E t \in Tasks : Speak(t)
  OBVIOUS
<1>1. CASE EchoStep
  BY <1>1, EchoAssumption DEF EchoStep, EchoSpeaks, EchoWorks
<1>2. ASSUME NEW t \in Tasks, InPlay_mp3(t)
      PROVE  InsideNext
  BY <1>2 DEF InPlay_mp3, InsideNext, Inside
<1>3. CASE OtherSpeaks
  BY <1>3 DEF OtherSpeaks
<1>4. ASSUME NEW c \in playing, ClipEnds(c)
      PROVE  InsideNext
  BY <1>4 DEF ClipEnds, InsideNext
<1>5. CASE FlagFalls
  BY <1>5 DEF FlagFalls, InsideNext
<1>6. CASE LedStep \/ KeepAlive \/ World \/ UNCHANGED boxVars
  BY <1>6 DEF LedStep, KeepAlive, World, boxVars
<1>7. QED
  BY <1>1, <1>2, <1>3, <1>4, <1>5, <1>6 DEF BoxNext

\* The flag, the handle and the place of every task inside Play_mp3 keep their
\* types when tasks speak for ever (mp3.c:86-112).
LEMMA PlayerTypeCorrect == BoxSpec => []TypeOK
<1>1. BoxInit => TypeOK
  <2>1. 0 \in 0..SentenceLen
    BY SentenceAssumption
  <2>2. QED
    BY <2>1 DEF BoxInit, Init, TypeOK
<1>2. ASSUME TypeOK, NEW t \in Tasks, Speak(t)
      PROVE  TypeOK'
  <2>1. said[t] \in Nat /\ said[t] % SentenceLen \in 0..(SentenceLen - 1)
    BY <1>2, SentenceAssumption DEF TypeOK
  <2>2. (said[t] % SentenceLen) + 1 \in 1..SentenceLen
    BY <2>1, SentenceAssumption
  <2>3. QED
    BY <1>2, <2>2 DEF Speak, TypeOK
<1>3. TypeOK /\ [BoxNext]_boxVars => TypeOK'
  BY <1>2, TypesInside, EachStepIsThePlayers
<1>4. QED
  BY <1>1, <1>3, PTL DEF BoxSpec

\* For any tasks that speak again and again, whatever the session does: a
\* caller of Play_mp3 waits over silence only after a clip went silent between
\* lines 102 and 105 of its starter (mp3.c:88-105).
THEOREM BoxStuckNeedsHurry == BoxSpec => []StuckOnlyIfHurried
<1>1. BoxInit => StuckInv
  BY DEF BoxInit, Init, StuckInv, StuckOnlyIfHurried
<1>2. ASSUME TypeOK, StuckInv, NEW t \in Tasks, Speak(t)
      PROVE  StuckInv'
  BY <1>2 DEF Speak, TypeOK, StuckInv, StuckOnlyIfHurried, clipOf
<1>3. TypeOK /\ StuckInv /\ [BoxNext]_boxVars => StuckInv'
  BY <1>2, StuckInside, EachStepIsThePlayers
<1>4. StuckInv => StuckOnlyIfHurried
  BY DEF StuckInv
<1>5. QED
  BY <1>1, <1>3, <1>4, PlayerTypeCorrect, PTL DEF BoxSpec

=============================================================================
