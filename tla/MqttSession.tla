---------------------------- MODULE MqttSession ----------------------------
(***************************************************************************)
(* MQTTEchoTask (src/main/mqtt.c) keeps the MQTT session of the soundbox,  *)
(* and the LED task quec_timer_test (src/main/monitor.c) shows it.  The    *)
(* MQTT client library is external: its isconnected field, the receive     *)
(* task that MQTTStartTask starts and the broker's side of a subscription  *)
(* are modelled as the code uses them.                                     *)
(***************************************************************************)
EXTENDS Naturals

CONSTANT MaxGlitches  \* bound on calls that fail, and sessions that break,
                      \* while the network and the broker are reachable

VARIABLES
    pc,            \* where MQTTEchoTask is; "r_" on the reconnecting branch
    link,          \* network and broker are reachable
    isconnected,   \* client.isconnected
    served,        \* MQTTStartTask has started a receive task for this connection
    subscribed,    \* the broker forwards topic_remote on this connection
    mqtt_connect,  \* the flag the LED task reads
    skipped,       \* history: this connection went on without a subscription
    glitches,
    monitor,       \* the LED task: "read", "wait", "on", "off"
    led            \* its variable; the level of LED_STT while it waits

taskVars == <<pc, isconnected, served, subscribed, mqtt_connect, skipped, glitches>>
ledVars == <<monitor, led>>
vars == <<taskVars, link, ledVars>>

Init ==
    /\ pc = "connect"
    /\ link \in BOOLEAN
    /\ isconnected = 0
    /\ served = FALSE
    /\ subscribed = FALSE
    /\ mqtt_connect = 0
    /\ skipped = FALSE
    /\ glitches = 0
    /\ monitor = "read"
    /\ led = 0

-----------------------------------------------------------------------------
(* Calls of the client library *)

\* A call fails when the peer is out of reach, and now and then otherwise.
Fails ==
    \/ ~link /\ UNCHANGED glitches
    \/ glitches < MaxGlitches /\ glitches' = glitches + 1

Succeeds == link /\ UNCHANGED glitches

\* MQTTConnect succeeds: a clean session, so nothing is subscribed yet.
Connected ==
    /\ Succeeds
    /\ isconnected' = 1
    /\ served' = FALSE
    /\ subscribed' = FALSE
    /\ skipped' = FALSE

\* MQTTSubscribe is granted; only a live connection can carry it.
Granted ==
    /\ isconnected = 1
    /\ Succeeds
    /\ subscribed' = TRUE
    /\ UNCHANGED <<isconnected, served, skipped>>

\* It is refused or times out: the connection stays, without a subscription.
NotGranted ==
    /\ isconnected = 1
    /\ Fails
    /\ skipped' = TRUE
    /\ UNCHANGED <<isconnected, served, subscribed>>

\* It is tried on a connection that has gone.
NotConnected ==
    /\ isconnected = 0
    /\ UNCHANGED <<isconnected, served, subscribed, skipped, glitches>>

-----------------------------------------------------------------------------
(* MQTTEchoTask: the first connection.  Any failure before the loop ends    *)
(* the task, and nothing starts it again.                                   *)

FirstNetworkConnect ==
    /\ pc = "connect"
    /\ \/ Succeeds /\ pc' = "mqtt"
       \/ Fails /\ pc' = "exited"
    /\ UNCHANGED <<link, isconnected, served, subscribed, mqtt_connect, skipped, ledVars>>

FirstMQTTConnect ==
    /\ pc = "mqtt"
    /\ \/ Connected /\ pc' = "start" /\ mqtt_connect' = 1
       \/ /\ Fails /\ pc' = "exited" /\ mqtt_connect' = 0
          /\ UNCHANGED <<isconnected, served, subscribed, skipped>>
    /\ UNCHANGED <<link, ledVars>>

\* A failure takes the connection down with it.
FirstStartTask ==
    /\ pc = "start"
    /\ \/ /\ pc' = "sub" /\ served' = TRUE
          /\ UNCHANGED <<isconnected, subscribed, mqtt_connect, glitches>>
       \/ /\ glitches < MaxGlitches /\ glitches' = glitches + 1
          /\ pc' = "exited" /\ mqtt_connect' = 0
          /\ isconnected' = 0 /\ subscribed' = FALSE /\ UNCHANGED served
    /\ UNCHANGED <<link, skipped, ledVars>>

\* Whatever comes of the subscription, maychu_ok is played and the loop runs.
FirstSubscribe ==
    /\ pc = "sub"
    /\ Granted \/ NotGranted \/ NotConnected
    /\ pc' = "loop"
    /\ UNCHANGED <<link, mqtt_connect, ledVars>>

-----------------------------------------------------------------------------
(* MQTTEchoTask: the loop, one round every 2 s, or 7 s after a reconnection *)
(* attempt.  Every failure on this branch just ends the round.              *)

\* Mutants: a round that only clears the flag, and one that only sets it.
Round(flag) ==
    /\ pc = "loop"
    /\ mqtt_connect' = flag
    /\ pc' = IF isconnected = 0 THEN "r_connect" ELSE "loop"
    /\ UNCHANGED <<link, isconnected, served, subscribed, skipped, glitches, ledVars>>
CheckConnectionOnlyClears == Round(IF isconnected = 0 THEN 0 ELSE mqtt_connect)
CheckConnectionOnlySets == Round(IF isconnected = 1 THEN 1 ELSE mqtt_connect)

CheckConnection ==
    /\ pc = "loop"
    /\ mqtt_connect' = isconnected
    /\ pc' = IF isconnected = 0 THEN "r_connect" ELSE "loop"
    /\ UNCHANGED <<link, isconnected, served, subscribed, skipped, glitches, ledVars>>

ReNetworkConnect ==
    /\ pc = "r_connect"
    /\ \/ Succeeds /\ pc' = "r_mqtt"
       \/ Fails /\ pc' = "loop"
    /\ UNCHANGED <<link, isconnected, served, subscribed, mqtt_connect, skipped, ledVars>>

ReMQTTConnect ==
    /\ pc = "r_mqtt"
    /\ \/ Connected /\ pc' = "r_start"
       \/ Fails /\ pc' = "loop" /\ UNCHANGED <<isconnected, served, subscribed, skipped>>
    /\ UNCHANGED <<link, mqtt_connect, ledVars>>

\* Mutant: the subscription is forgotten after a reconnection.
ReStartTaskOnly ==
    /\ pc = "r_start"
    /\ \/ pc' = "loop" /\ served' = TRUE /\ UNCHANGED <<skipped, glitches>>
       \/ /\ glitches < MaxGlitches /\ glitches' = glitches + 1
          /\ pc' = "loop" /\ skipped' = TRUE /\ UNCHANGED served
    /\ UNCHANGED <<link, isconnected, subscribed, mqtt_connect, ledVars>>

\* A failure leaves the connection up and skips the subscription.
ReStartTask ==
    /\ pc = "r_start"
    /\ \/ pc' = "r_sub" /\ served' = TRUE /\ UNCHANGED <<skipped, glitches>>
       \/ /\ glitches < MaxGlitches /\ glitches' = glitches + 1
          /\ pc' = "loop" /\ skipped' = TRUE /\ UNCHANGED served
    /\ UNCHANGED <<link, isconnected, subscribed, mqtt_connect, ledVars>>

\* Mutant: maychu_ok is played whatever the subscription returned.
ReSubscribeUnchecked ==
    /\ pc = "r_sub"
    /\ Granted \/ NotGranted \/ NotConnected
    /\ pc' = "r_welcome"
    /\ UNCHANGED <<link, mqtt_connect, ledVars>>

\* maychu_ok is played only after the subscription is granted.
ReSubscribe ==
    /\ pc = "r_sub"
    /\ \/ Granted /\ pc' = "r_welcome"
       \/ (NotGranted \/ NotConnected) /\ pc' = "loop"
    /\ UNCHANGED <<link, mqtt_connect, ledVars>>

Welcome ==
    /\ pc = "r_welcome"
    /\ pc' = "loop"
    /\ UNCHANGED <<link, isconnected, served, subscribed, mqtt_connect, skipped, glitches, ledVars>>

-----------------------------------------------------------------------------
(* The library's receive task, and the world *)

Broken ==
    /\ isconnected = 1
    /\ isconnected' = 0
    /\ subscribed' = FALSE
    /\ UNCHANGED <<pc, link, served, mqtt_connect, skipped, ledVars>>

\* The keep-alive notices that the peer is gone.
KeepAliveExpires == ~link /\ Broken /\ UNCHANGED glitches

\* The broker closes the session although it is reachable.
ClosedByBroker == link /\ glitches < MaxGlitches /\ Broken /\ glitches' = glitches + 1

LinkChanges == link' = ~link /\ UNCHANGED <<taskVars, ledVars>>

-----------------------------------------------------------------------------
(* The LED task.  LED_STT has the level of led in "wait", is high in "on"   *)
(* and low in "off".                                                        *)

\* Mutant: the flag is read inverted.
ReadFlagInverted ==
    /\ monitor = "read"
    /\ IF mqtt_connect = 1
       THEN led' = 1 - led /\ monitor' = "wait"
       ELSE monitor' = "on" /\ UNCHANGED led
    /\ UNCHANGED <<taskVars, link>>

ReadFlag ==
    /\ monitor = "read"
    /\ IF mqtt_connect = 0
       THEN led' = 1 - led /\ monitor' = "wait"
       ELSE monitor' = "on" /\ UNCHANGED led
    /\ UNCHANGED <<taskVars, link>>

\* 2 s after a toggle, or 200 ms after the LED went low.
ReadAgain ==
    /\ monitor \in {"wait", "off"}
    /\ monitor' = "read"
    /\ UNCHANGED <<taskVars, link, led>>

\* 2 s after it went high.
BlinkLow ==
    /\ monitor = "on"
    /\ monitor' = "off"
    /\ UNCHANGED <<taskVars, link, led>>

-----------------------------------------------------------------------------

EchoStep ==
    \/ FirstNetworkConnect
    \/ FirstMQTTConnect
    \/ FirstStartTask
    \/ FirstSubscribe
    \/ CheckConnection
    \/ ReNetworkConnect
    \/ ReMQTTConnect
    \/ ReStartTask
    \/ ReSubscribe
    \/ Welcome

LedStep == ReadFlag \/ ReadAgain \/ BlinkLow

Next ==
    \/ EchoStep
    \/ KeepAliveExpires
    \/ ClosedByBroker
    \/ LinkChanges
    \/ LedStep

Spec == Init /\ [][Next]_vars

\* Both tasks run and a receive task's keep-alive expires; nothing is assumed of
\* the link, nor of a connection that has no receive task.
FairSpec ==
    /\ Spec
    /\ WF_vars(EchoStep)
    /\ WF_vars(LedStep)
    /\ WF_vars(served /\ KeepAliveExpires)

-----------------------------------------------------------------------------

FirstConnection == {"connect", "mqtt", "start", "sub"}
Reconnection == {"r_connect", "r_mqtt", "r_start", "r_sub", "r_welcome"}

\* Every variable has its type.
TypeOK ==
    /\ pc \in FirstConnection \union Reconnection \union {"loop", "exited"}
    /\ link \in BOOLEAN
    /\ isconnected \in {0, 1}
    /\ served \in BOOLEAN
    /\ subscribed \in BOOLEAN
    /\ mqtt_connect \in {0, 1}
    /\ skipped \in BOOLEAN
    /\ glitches \in 0..MaxGlitches
    /\ monitor \in {"read", "wait", "on", "off"}
    /\ led \in {0, 1}

\* A connection in use hears no commands only if the task itself went on
\* without a subscription after a failed call.
DeafHasCause ==
    isconnected = 1 /\ ~subscribed => skipped \/ pc \in {"start", "sub", "r_start", "r_sub"}

\* The announcement of the server after a reconnection is true: commands are
\* heard then, or the connection has broken since.
WelcomeIsTrue == pc = "r_welcome" => subscribed \/ isconnected = 0

\* If the link holds from some time on, the task ends up connected for good
\* with the flag saying so, unless its very first connection failed.
ReconnectsWhenLinkHolds ==
    <>[]link => \/ <>[](isconnected = 1 /\ mqtt_connect = 1)
                \/ <>[](pc = "exited")

\* An outage that lasts reaches the flag, except on a connection for which
\* MQTTStartTask failed and which the task nevertheless keeps.
OutageIsNoticed == <>[]~link => <>[](mqtt_connect = 0) \/ <>[](isconnected = 1 /\ ~served)

\* The LED comes to tell a connection that lasts (short off, long on) from an
\* outage that lasts (as long on as off), although two tasks lie in between.
LedTellsTheTruth ==
    /\ <>[](isconnected = 1) => <>[](monitor # "wait")
    /\ <>[](isconnected = 0) =>
           /\ <>[](monitor \notin {"on", "off"})
           /\ \A level \in {0, 1} : []<>(monitor = "wait" /\ led = level)
=============================================================================
