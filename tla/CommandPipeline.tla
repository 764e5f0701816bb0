-------------------------- MODULE CommandPipeline --------------------------
(***************************************************************************)
(* The path of a command through the soundbox: the MQTT receive callback   *)
(* messageArrived and the button put JSON texts into mqtt_queue without    *)
(* waiting; mqtt_publisher_thread takes them out one by one and carries    *)
(* them out (src/main/mqtt.c, src/main/button.c).  StartMQTTTask creates   *)
(* both MQTT tasks before it creates the queue they use.                   *)
(*                                                                         *)
(* Commands are numbered in the order of their arrival.  A command is what *)
(* the thread distinguishes in the text: whether RSP is "SN_REQUEST",      *)
(* which Type it has, whether the argument of that Type is there as a      *)
(* string, and how long it is.                                             *)
(*   "PlayAmount"  Amount; len is the number of its digits                 *)
(*   "SET_SN"      SN; len is its strlen                                   *)
(*   "LookUp"      FOTA and LIST_FILE, which read LINK / DISK unchecked    *)
(*   "none"        everything else, texts that are not JSON included       *)
(***************************************************************************)
EXTENDS Naturals, Sequences

CONSTANTS
    QueueLen,     \* the messages mqtt_queue holds (8 in the code)
    Commands,     \* the commands the server sends
    MaxArrivals,  \* bound on the commands that arrive
    MaxLosses     \* bound on power losses

Types == {"PlayAmount", "SET_SN", "LookUp", "none"}
Command == [rsp : BOOLEAN, type : Types, has : BOOLEAN, len : Nat]

ASSUME QueueAssumption == QueueLen \in Nat \ {0}
ASSUME BoundsAssumption == MaxArrivals \in Nat /\ MaxLosses \in Nat
ASSUME CommandsAssumption == Commands \subseteq Command

\* The text the button sends: {"RSP":"SN_REQUEST","MAC_ID":...}.
SN_REQUEST == [rsp |-> TRUE, type |-> "none", has |-> FALSE, len |-> 0]

\* char buff[64], and what sprintf puts into it for an amount: 55 fixed
\* characters, the digits and the terminating NUL.
BuffLen == 64
ReplyLen(c) == 55 + c.len + 1

\* An SN that SET_SN goes on with.
UsableSN(c) == c.has /\ c.len < 64

Numbered(n, c) == [id |-> n, cmd |-> c]
Idle == Numbered(0, SN_REQUEST)

VARIABLES
    main,        \* main_app: "boot", "tasks" (created, no queue yet), "up", "offline"
    publisher,   \* where mqtt_publisher_thread is
    message,     \* the command it is carrying out, or Idle
    mqtt_queue,  \* the commands waiting
    session,     \* of the MQTT client: "down", "deaf" (not subscribed), "up"
    arrived,     \* how many commands have arrived since the first boot
    losses,      \* how often the power failed
    done,        \* history: numbers of the commands carried out, in that order
    lost,        \* history: numbers of the commands that never will be
    acted,       \* history: commands whose amount was read out or SN written
    received     \* what the server received: topic and command number, in order

vars == <<main, publisher, message, mqtt_queue, session, arrived, losses,
          done, lost, acted, received>>
histories == <<done, lost, acted, received>>

Init ==
    /\ main = "boot"
    /\ publisher = "none"
    /\ message = Idle
    /\ mqtt_queue = <<>>
    /\ session = "down"
    /\ arrived = 0
    /\ losses = 0
    /\ done = <<>>
    /\ lost = {}
    /\ acted = {}
    /\ received = <<>>

QueuedIds == {mqtt_queue[i].id : i \in 1..Len(mqtt_queue)}
HeldIds == {message.id} \ {0}

-----------------------------------------------------------------------------
(* main_app *)

\* datacall_start succeeds and StartMQTTTask creates the two tasks.
CreateTasks ==
    /\ main = "boot"
    /\ main' = "tasks"
    /\ publisher' = "waiting"
    /\ UNCHANGED <<message, mqtt_queue, session, arrived, losses, histories>>

\* StartMQTTTask creates the queue, after the tasks that use it.
CreateQueue ==
    /\ main = "tasks"
    /\ main' = "up"
    /\ UNCHANGED <<publisher, message, mqtt_queue, session, arrived, losses, histories>>

\* datacall_start fails: main_app only prints its heap size from here on.
GoOffline ==
    /\ main = "boot"
    /\ main' = "offline"
    /\ UNCHANGED <<publisher, message, mqtt_queue, session, arrived, losses, histories>>

-----------------------------------------------------------------------------
(* The MQTT session, seen from here: MQTTEchoTask brings it up, a failure   *)
(* takes it down.                                                           *)

SessionUp ==
    /\ main \in {"tasks", "up"}
    /\ \/ session = "down" /\ session' \in {"deaf", "up"}
       \/ session = "deaf" /\ session' = "up"
    /\ UNCHANGED <<main, publisher, message, mqtt_queue, arrived, losses, histories>>

SessionDown ==
    /\ session # "down"
    /\ session' = "down"
    /\ UNCHANGED <<main, publisher, message, mqtt_queue, arrived, losses, histories>>

\* pub_mqtt at QoS 0: what is sent without a session is gone, what is sent
\* with one may be, and no caller looks at the result.
pub_mqtt(topic) ==
    \/ UNCHANGED received
    \/ /\ session # "down"
       /\ received' = Append(received, [topic |-> topic, id |-> message.id])

-----------------------------------------------------------------------------
(* The producers *)

\* Mutants: a place of the queue is never used, and the new message is put in
\* front.
Door(c, queue, free) ==
    /\ arrived < MaxArrivals
    /\ arrived' = arrived + 1
    /\ IF main = "up" /\ free
       THEN mqtt_queue' = queue /\ UNCHANGED lost
       ELSE UNCHANGED mqtt_queue /\ lost' = lost \union {arrived'}
    /\ UNCHANGED <<main, publisher, message, session, losses, done, acted, received>>
ReleaseWastes(c) ==
    Door(c, Append(mqtt_queue, Numbered(arrived + 1, c)), Len(mqtt_queue) < QueueLen - 1)
ReleaseInFront(c) ==
    Door(c, <<Numbered(arrived + 1, c)>> \o mqtt_queue, Len(mqtt_queue) < QueueLen)

\* ql_rtos_queue_release with QL_NO_WAIT: no queue or no room, no message;
\* neither caller looks at the result.
Release(c) ==
    /\ arrived < MaxArrivals
    /\ arrived' = arrived + 1
    /\ IF main = "up" /\ Len(mqtt_queue) < QueueLen
       THEN /\ mqtt_queue' = Append(mqtt_queue, Numbered(arrived', c))
            /\ UNCHANGED lost
       ELSE /\ lost' = lost \union {arrived'}
            /\ UNCHANGED mqtt_queue
    /\ UNCHANGED <<main, publisher, message, session, losses, done, acted, received>>

messageArrived(c) == session = "up" /\ Release(c)

\* A short press; the button task runs from power-on.
ShortPress == Release(SN_REQUEST)

-----------------------------------------------------------------------------
(* mqtt_publisher_thread *)

\* The loop comes round: what it was doing is done.
Finish ==
    /\ publisher' = "waiting"
    /\ message' = Idle
    /\ done' = Append(done, message.id)

\* Mutant: the message stays in the queue.
TakeKeeps ==
    /\ publisher = "waiting"
    /\ mqtt_queue # <<>>
    /\ message' = Head(mqtt_queue)
    /\ publisher' = "parsed"
    /\ UNCHANGED <<main, mqtt_queue, session, arrived, losses, histories>>

\* Mutant: commands are taken only while the session is up.
TakeOnline ==
    /\ session = "up"
    /\ publisher = "waiting"
    /\ mqtt_queue # <<>>
    /\ message' = Head(mqtt_queue)
    /\ mqtt_queue' = Tail(mqtt_queue)
    /\ publisher' = "parsed"
    /\ UNCHANGED <<main, session, arrived, losses, histories>>

\* Queue wait returns a text.  Before the queue exists the wait fails at
\* once, its result is ignored and the loop spins, which changes nothing.
Take ==
    /\ publisher = "waiting"
    /\ mqtt_queue # <<>>
    /\ message' = Head(mqtt_queue)
    /\ mqtt_queue' = Tail(mqtt_queue)
    /\ publisher' = "parsed"
    /\ UNCHANGED <<main, session, arrived, losses, histories>>

\* RSP first: an SN_REQUEST is forwarded to TOPIC_SERIAL.  Then the Type
\* chooses the branch; an amount must be a string.
Dispatch ==
    /\ publisher = "parsed"
    /\ IF message.cmd.rsp THEN pub_mqtt("SERIAL") ELSE UNCHANGED received
    /\ publisher' = CASE message.cmd.type = "PlayAmount" /\ message.cmd.has -> "readMoney"
                      [] message.cmd.type = "SET_SN" -> "set_sn"
                      [] message.cmd.type = "LookUp" -> "look_up"
                      [] OTHER -> "loop"
    /\ UNCHANGED <<main, message, mqtt_queue, session, arrived, losses, done, lost, acted>>

\* Nothing (more) to do for this text.
LoopRound ==
    /\ publisher = "loop"
    /\ publisher' = "waiting"
    /\ message' = Idle
    /\ done' = Append(done, message.id)
    /\ UNCHANGED <<main, mqtt_queue, session, arrived, losses, lost, acted, received>>

\* readMoney has handed every clip of the amount to the player.
Announce ==
    /\ publisher = "readMoney"
    /\ publisher' = "reply"
    /\ acted' = acted \union {message.id}
    /\ UNCHANGED <<main, message, mqtt_queue, session, arrived, losses, done, lost, received>>

\* The reply is built in buff and published on topic_rec.
Reply ==
    /\ publisher = "reply"
    /\ publisher' = "loop"
    /\ pub_mqtt("REC")
    /\ UNCHANGED <<main, message, mqtt_queue, session, arrived, losses, done, lost, acted>>

\* A missing or too long SN: the thread function returns, for good.
SetSNReturns ==
    /\ publisher = "set_sn"
    /\ ~UsableSN(message.cmd)
    /\ publisher' = "dead"
    /\ message' = Idle
    /\ lost' = lost \union {message.id}
    /\ UNCHANGED <<main, mqtt_queue, session, arrived, losses, done, acted, received>>

\* Mutant: the result of the write is ignored.
SetSNWriteUnchecked ==
    /\ publisher = "set_sn"
    /\ UsableSN(message.cmd)
    /\ publisher' = "confirm"
    /\ acted' \in {acted, acted \union {message.id}}
    /\ UNCHANGED <<main, message, mqtt_queue, session, arrived, losses, done, lost, received>>

\* Erase (result ignored) and write: a failed write ends the command.
SetSNWrite ==
    /\ publisher = "set_sn"
    /\ UsableSN(message.cmd)
    /\ \/ publisher' = "loop" /\ UNCHANGED acted
       \/ publisher' = "confirm" /\ acted' = acted \union {message.id}
    /\ UNCHANGED <<main, message, mqtt_queue, session, arrived, losses, done, lost, received>>

\* A written SN is confirmed to the server; ql_power_reset comes next.
SetSNConfirm ==
    /\ publisher = "confirm"
    /\ publisher' = "reset"
    /\ pub_mqtt("REC")
    /\ message' = Idle
    /\ done' = Append(done, message.id)
    /\ UNCHANGED <<main, mqtt_queue, session, arrived, losses, lost, acted>>

\* LINK is printed or DISK is listed.  A NULL dereference that does not fault
\* reads garbage and goes on.
LookUp ==
    /\ publisher = "look_up"
    /\ publisher' = "loop"
    /\ UNCHANGED <<main, message, mqtt_queue, session, arrived, losses, histories>>

-----------------------------------------------------------------------------
(* Restarts *)

\* RAM is gone: the tasks, the queue, the session and what they held.
Restart ==
    /\ main' = "boot"
    /\ publisher' = "none"
    /\ message' = Idle
    /\ mqtt_queue' = <<>>
    /\ session' = "down"
    /\ lost' = lost \union QueuedIds \union HeldIds
    /\ UNCHANGED <<arrived, done, acted, received>>

\* ql_power_reset, after SET_SN.
PowerReset == publisher = "reset" /\ Restart /\ UNCHANGED losses

\* The absent argument was dereferenced, a reply has overrun buff, or readMoney
\* has indexed past units[] (10^18 and more, 19 digits).
Fault ==
    /\ \/ publisher = "readMoney" /\ message.cmd.len > 18
       \/ publisher = "look_up" /\ ~message.cmd.has
       \/ publisher = "loop" /\ message.cmd.type = "PlayAmount" /\ ReplyLen(message.cmd) > BuffLen
    /\ Restart
    /\ UNCHANGED losses

PowerLoss ==
    /\ losses < MaxLosses
    /\ losses' = losses + 1
    /\ Restart

-----------------------------------------------------------------------------

PublisherStep ==
    \/ Take
    \/ Dispatch
    \/ LoopRound
    \/ Announce
    \/ Reply
    \/ SetSNReturns
    \/ SetSNWrite
    \/ SetSNConfirm
    \/ LookUp
    \/ PowerReset

MainStep == CreateTasks \/ GoOffline \/ CreateQueue

Next ==
    \/ MainStep
    \/ SessionUp
    \/ SessionDown
    \/ \E c \in Commands : messageArrived(c)
    \/ ShortPress
    \/ PublisherStep
    \/ Fault
    \/ PowerLoss

Spec == Init /\ [][Next]_vars

\* The RTOS runs both tasks; sessions, presses and power are the world's.
\* readMoney is not promised to return: it waits without a limit for a player
\* that may never be free again (mp3.c:88, the run audio_stuck).
FairSpec ==
    /\ Spec
    /\ WF_vars(PublisherStep /\ publisher # "readMoney")
    /\ WF_vars(MainStep)

-----------------------------------------------------------------------------

Entry == [id : Nat, cmd : Command]

\* Every variable has its type.
TypeOK ==
    /\ main \in {"boot", "tasks", "up", "offline"}
    /\ publisher \in {"none", "waiting", "parsed", "readMoney", "reply", "set_sn",
                      "confirm", "reset", "look_up", "loop", "dead"}
    /\ message \in Entry
    /\ mqtt_queue \in Seq(Entry)
    /\ Len(mqtt_queue) <= QueueLen
    /\ session \in {"down", "deaf", "up"}
    /\ arrived \in Nat
    /\ losses \in Nat
    /\ done \in Seq(Nat)
    /\ lost \in SUBSET Nat
    /\ acted \in SUBSET Nat
    /\ received \in Seq([topic : {"SERIAL", "REC"}, id : Nat])

\* Commands are carried out in the order in which they arrived: everything
\* done is older than what is in hand, which is older than what waits.
DoneInOrder ==
    /\ \A i, j \in 1..Len(done) : i < j => done[i] < done[j]
    /\ message.id # 0 => \A i \in 1..Len(done) : done[i] < message.id
QueueInOrder ==
    /\ \A i, j \in 1..Len(mqtt_queue) : i < j => mqtt_queue[i].id < mqtt_queue[j].id
    /\ \A i \in 1..Len(mqtt_queue) : message.id < mqtt_queue[i].id
    /\ \A i \in 1..Len(mqtt_queue), j \in 1..Len(done) : done[j] < mqtt_queue[i].id
InOrder == DoneInOrder /\ QueueInOrder

DoneIds == {done[i] : i \in 1..Len(done)}

\* Each command that arrived is waiting, in hand, done or lost, and a lost one
\* is nothing else.
Placed ==
    /\ 1..arrived = QueuedIds \union HeldIds \union DoneIds \union lost
    /\ lost \intersect (QueuedIds \union HeldIds \union DoneIds) = {}

\* What waits is not in hand, neither of them is done, and no command waits in
\* two places of the queue or was carried out twice.
NoneTwice ==
    /\ QueuedIds \intersect HeldIds = {}
    /\ DoneIds \intersect (QueuedIds \union HeldIds) = {}
    /\ \A i, j \in 1..Len(mqtt_queue) : mqtt_queue[i].id = mqtt_queue[j].id => i = j
    /\ \A i, j \in 1..Len(done) : done[i] = done[j] => i = j

\* No command vanishes and none is carried out twice: each one that arrived
\* is waiting, in hand, done or lost, and only one of these, once.
Accounted == Placed /\ NoneTwice

\* The server hears of a command on topic_rec only after the amount was read
\* out or the SN written, at most once, and in the order of the commands.
RepliesTellTheTruth ==
    /\ \A i \in 1..Len(received) : received[i].topic = "REC" => received[i].id \in acted
    /\ \A i, j \in 1..Len(received) :
           i < j => \/ received[i].id < received[j].id
                    \/ /\ received[i].id = received[j].id
                       /\ received[i].topic = "SERIAL" /\ received[j].topic = "REC"

\* What the comment at mqtt.c:266 says of buff: it was made large enough for
\* the text put into it not to overflow.
RepliesFit == publisher = "reply" => ReplyLen(message.cmd) <= BuffLen

\* A command is lost for one of four reasons: a restart, the return of the
\* thread, a full queue, and a queue that does not exist (yet).
LossHasCause ==
    [][lost' # lost => \/ main' = "boot"
                       \/ publisher' = "dead" /\ publisher # "dead"
                       \/ Len(mqtt_queue) = QueueLen
                       \/ main # "up"]_vars

\* A command that got into the queue is carried out or lost, unless the
\* thread that should take it is gone, or stays in readMoney for good, held up
\* by the player.
CommandsSettle ==
    \A n \in 1..MaxArrivals :
        \/ n \in QueuedIds \union HeldIds ~> \/ n \in DoneIds \union lost
                                             \/ publisher = "dead"
        \/ <>[](publisher = "readMoney")

-----------------------------------------------------------------------------

\* The numbers of the commands accepted and not yet carried out.
Ids(queue) == [i \in 1..Len(queue) |-> queue[i].id]
InHandId == IF message.id = 0 THEN <<>> ELSE <<message.id>>

Fifo == INSTANCE LossyFifo WITH pending <- InHandId \o Ids(mqtt_queue), out <- done

\* The path of a command is a FIFO that may lose commands, and does nothing
\* else to them: the promise of LossyFifo.
IsLossyFifo == Fifo!Spec

=============================================================================
