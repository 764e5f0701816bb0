------------------------------ MODULE Soundbox ------------------------------
(***************************************************************************)
(* MQTTEchoTask and the player together.  The task that keeps the session  *)
(* (MqttSession) also speaks: maychu_ok when it is connected, matmang      *)
(* when a reconnection fails (src/main/mqtt.c:173, 198, 210).  Each of     *)
(* these calls goes through the wait loop of Play_mp3 (AudioPlayer), which *)
(* the publisher uses at the same time, and the session stands still until *)
(* it returns.                                                             *)
(***************************************************************************)
EXTENDS AudioPlayer

CONSTANTS
    echo,         \* MQTTEchoTask, one of Tasks
    MaxGlitches   \* bound of MqttSession

ASSUME EchoAssumption == echo \in Tasks
ASSUME GlitchAssumption == MaxGlitches \in Nat

VARIABLES
    stage,        \* where MQTTEchoTask is: pc of MqttSession
    link, isconnected, served, subscribed, mqtt_connect, skipped, glitches,
    monitor, led  \* as in MqttSession

Session == INSTANCE MqttSession WITH pc <- stage

sessionVars == <<stage, link, isconnected, served, subscribed, mqtt_connect,
                 skipped, glitches, monitor, led>>
boxVars == <<vars, sessionVars>>

BoxInit == Init /\ Session!Init

-----------------------------------------------------------------------------

\* PlayMP3File, for a task that speaks again and again: as in AudioPlayer, but
\* the clips of a task are told apart only as far as SentenceLen.
Speak(t) ==
    /\ pc[t] = "idle"
    /\ said' = [said EXCEPT ![t] = (@ % SentenceLen) + 1]
    /\ pc' = [pc EXCEPT ![t] = "wait"]
    /\ UNCHANGED <<mp3_play_stop, mp3_handle, playing, callback, hurried>>

\* The steps of MQTTEchoTask that end in a call of Play_mp3.
EchoSpeaks ==
    /\ \/ Session!FirstSubscribe
       \/ Session!Welcome
       \/ Session!ReNetworkConnect /\ stage' = "loop"
    /\ Speak(echo)

\* The others.
EchoWorks ==
    /\ pc[echo] = "idle"
    /\ \/ Session!FirstNetworkConnect
       \/ Session!FirstMQTTConnect
       \/ Session!FirstStartTask
       \/ Session!CheckConnection
       \/ Session!ReNetworkConnect /\ stage' = "r_mqtt"
       \/ Session!ReMQTTConnect
       \/ Session!ReStartTask
       \/ Session!ReSubscribe
    /\ UNCHANGED vars

EchoStep == EchoSpeaks \/ EchoWorks

\* Play_mp3 in any task.  A task has at most SentenceLen clips sounding.
InPlay_mp3(t) ==
    /\ \/ LeaveWaitLoop(t)
       \/ clipOf(t) \notin playing /\ PlayAccepted(t)
       \/ PlayRefused(t)
       \/ RaiseFlag(t)
    /\ UNCHANGED sessionVars

\* The publisher has something to read out.
OtherSpeaks == \E t \in Tasks \ {echo} : Speak(t) /\ UNCHANGED sessionVars

ClipEnds(c) == c \in playing /\ PlaybackEnded(c) /\ UNCHANGED sessionVars
FlagFalls == LowerFlag /\ UNCHANGED sessionVars

LedStep == Session!LedStep /\ UNCHANGED vars
KeepAlive == Session!KeepAliveExpires /\ UNCHANGED vars
World == (Session!ClosedByBroker \/ Session!LinkChanges) /\ UNCHANGED vars

BoxNext ==
    \/ EchoStep
    \/ \E t \in Tasks : InPlay_mp3(t)
    \/ OtherSpeaks
    \/ \E c \in playing : ClipEnds(c)
    \/ FlagFalls
    \/ LedStep
    \/ KeepAlive
    \/ World

\* The fairness of the two parts.  Whether the publisher speaks is left open,
\* and so is the order in which two waiting tasks see the flag at 0.
BoxSpec ==
    /\ BoxInit /\ [][BoxNext]_boxVars
    /\ WF_boxVars(EchoStep)
    /\ \A t \in Tasks : WF_boxVars(InPlay_mp3(t))
    /\ \A c \in Clip : WF_boxVars(ClipEnds(c))
    /\ WF_boxVars(FlagFalls)
    /\ WF_boxVars(LedStep)
    /\ WF_boxVars(served /\ KeepAlive)

-----------------------------------------------------------------------------

\* MQTTEchoTask waits in Play_mp3 and never comes back.
EchoIsHeldUp == <>[](pc[echo] = "wait")

\* A connection in use hears no commands only if the task itself went on
\* without a subscription after a failed call (mqtt.c:192-200).
DeafHasCause == Session!DeafHasCause

\* The announcement of the server after a reconnection is true when it is
\* asked for (mqtt.c:198): commands are heard, or the connection has broken since.
WelcomeIsTrue == Session!WelcomeIsTrue

\* If the link holds from some time on, the task ends up connected for good with
\* the flag saying so, unless its very first connection failed or its own
\* announcement holds it up.
ReconnectsWhenLinkHolds == Session!ReconnectsWhenLinkHolds \/ EchoIsHeldUp

\* An outage that lasts reaches the flag, except on a connection for which
\* MQTTStartTask failed and which is kept, or while the task is held up.
OutageIsNoticed == Session!OutageIsNoticed \/ EchoIsHeldUp

\* The LED comes to tell a connection that lasts (short off, long on) from an
\* outage that lasts (as long on as off), although two tasks lie in between.
LedTellsTheTruth == Session!LedTellsTheTruth \/ EchoIsHeldUp

\* The reconnection loop is held up for ever only by a clip that went silent
\* between lines 102 and 105 of its task, or by a publisher that speaks on and on.
HoldUpHasCause ==
    EchoIsHeldUp => <>hurried \/ \E t \in Tasks \ {echo} : []<>(pc[t] = "play")

=============================================================================
