----------------------- MODULE CommandPipelineProofs -----------------------
(* Proofs about CommandPipeline, for every queue length, set of commands   *)
(* and bound.                                                              *)
EXTENDS CommandPipeline, TLAPS

\* What the button sends is a command, so everything that is queued is one.
LEMMA ButtonSendsACommand == SN_REQUEST \in Command /\ Idle \in Entry
BY DEF SN_REQUEST, Command, Types, Idle, Numbered, Entry

\* Every variable of the command path keeps its type, and mqtt_queue never
\* holds more than QueueLen messages (mqtt.c:377).
THEOREM TypeCorrect == Spec => []TypeOK
<1>1. Init => TypeOK
  <2> SUFFICES ASSUME Init
               PROVE  TypeOK
    OBVIOUS
  <2>1. Len(mqtt_queue) <= QueueLen
    BY QueueAssumption DEF Init
  <2>2. QED
    BY <2>1, ButtonSendsACommand DEF Init, TypeOK
<1>2. TypeOK /\ [Next]_vars => TypeOK'
  <2> SUFFICES ASSUME TypeOK, [Next]_vars
               PROVE  TypeOK'
    OBVIOUS
  <2> USE QueueAssumption, ButtonSendsACommand DEF TypeOK, histories
  <2>1. CASE MainStep
    BY <2>1 DEF MainStep, CreateTasks, CreateQueue, GoOffline
  <2>2. CASE SessionUp \/ SessionDown
    BY <2>2 DEF SessionUp, SessionDown
  <2>3. ASSUME NEW c \in Command, Release(c)
        PROVE  TypeOK'
    <3>1. arrived' \in Nat /\ lost' \in SUBSET Nat
      <4>1. arrived' \in Nat
        BY <2>3 DEF Release
      <4>2. lost' = lost \/ lost' = lost \union {arrived'}
        BY <2>3 DEF Release
      <4>3. QED
        BY <4>1, <4>2
    <3>2. Numbered(arrived', c) \in Entry
      BY <2>3, <3>1 DEF Numbered, Entry
    <3>3. mqtt_queue' \in Seq(Entry) /\ Len(mqtt_queue') <= QueueLen
      <4>1. CASE main = "up" /\ Len(mqtt_queue) < QueueLen
        <5>1. mqtt_queue' = Append(mqtt_queue, Numbered(arrived', c))
          BY <2>3, <4>1 DEF Release
        <5>2. QED
          BY <3>2, <4>1, <5>1
      <4>2. CASE ~(main = "up" /\ Len(mqtt_queue) < QueueLen)
        BY <2>3, <4>2 DEF Release
      <4>3. QED
        BY <4>1, <4>2
    <3>4. QED
      BY <2>3, <3>1, <3>3 DEF Release
  <2>4. CASE Take
    <3>1. /\ Head(mqtt_queue) \in Entry
          /\ Tail(mqtt_queue) \in Seq(Entry)
          /\ Len(Tail(mqtt_queue)) <= QueueLen
      BY <2>4 DEF Take
    <3>2. QED
      BY <2>4, <3>1 DEF Take
  <2>5. /\ message.id \in Nat
        /\ Append(done, message.id) \in Seq(Nat)
        /\ \A t \in {"SERIAL", "REC"} :
              Append(received, [topic |-> t, id |-> message.id])
                 \in Seq([topic : {"SERIAL", "REC"}, id : Nat])
    BY DEF Entry
  <2>6. CASE Dispatch
    <3>1. received' \in Seq([topic : {"SERIAL", "REC"}, id : Nat])
      BY <2>5, <2>6 DEF Dispatch, pub_mqtt
    <3>2. publisher' \in {"readMoney", "set_sn", "look_up", "loop"}
      BY <2>6 DEF Dispatch
    <3>3. QED
      BY <2>6, <3>1, <3>2 DEF Dispatch
  <2>7. CASE LoopRound
    BY <2>5, <2>7 DEF LoopRound
  <2>8. CASE Announce
    BY <2>5, <2>8 DEF Announce
  <2>9. CASE Reply
    BY <2>5, <2>9 DEF Reply, pub_mqtt
  <2>10. CASE SetSNReturns
    BY <2>5, <2>10 DEF SetSNReturns
  <2>11. CASE SetSNWrite
    BY <2>5, <2>11 DEF SetSNWrite
  <2>12. CASE SetSNConfirm
    BY <2>5, <2>12 DEF SetSNConfirm, pub_mqtt
  <2>13. CASE LookUp
    BY <2>13 DEF LookUp
  <2>14. CASE Restart /\ losses' \in Nat
    <3>1. QueuedIds \subseteq Nat /\ HeldIds \subseteq Nat
      <4>1. ASSUME NEW i \in 1..Len(mqtt_queue)
            PROVE  mqtt_queue[i].id \in Nat
        <5>1. mqtt_queue[i] \in Entry
          OBVIOUS
        <5>2. QED
          BY <5>1 DEF Entry
      <4>2. QED
        BY <2>5, <4>1 DEF QueuedIds, HeldIds
    <3>2. QED
      BY <2>14, <3>1 DEF Restart
  <2>15. CASE UNCHANGED vars
    BY <2>15 DEF vars
  <2>16. QED
    BY <2>1, <2>2, <2>3, <2>4, <2>6, <2>7, <2>8, <2>9, <2>10, <2>11, <2>12, <2>13,
       <2>14, <2>15, CommandsAssumption
    DEF Next, PublisherStep, messageArrived, ShortPress, PowerReset, Fault, PowerLoss
<1>3. QED
  BY <1>1, <1>2, PTL DEF Spec

-----------------------------------------------------------------------------
(* Sequences of entries and of numbers, as the queue and the history use   *)
(* them.                                                                   *)

LEMMA AppendedSeq ==
    ASSUME NEW S, NEW s \in Seq(S), NEW x \in S
    PROVE  /\ Append(s, x) \in Seq(S)
           /\ Len(Append(s, x)) = Len(s) + 1
           /\ \A i \in 1..Len(s) : Append(s, x)[i] = s[i]
           /\ Append(s, x)[Len(s) + 1] = x
OBVIOUS

LEMMA TailSeq ==
    ASSUME NEW S, NEW s \in Seq(S), s # <<>>
    PROVE  /\ Tail(s) \in Seq(S)
           /\ Len(s) \in Nat \ {0}
           /\ Len(Tail(s)) = Len(s) - 1
           /\ \A i \in 1..Len(Tail(s)) : Tail(s)[i] = s[i + 1]
           /\ Head(s) = s[1]
OBVIOUS

\* The numbers queued after one more entry.
LEMMA IdsOfAppend ==
    ASSUME NEW q \in Seq(Entry), NEW e \in Entry
    PROVE  {Append(q, e)[i].id : i \in 1..Len(Append(q, e))}
              = {q[i].id : i \in 1..Len(q)} \union {e.id}
<1>1. Len(Append(q, e)) = Len(q) + 1 /\ Len(q) \in Nat
  OBVIOUS
<1>2. 1..(Len(q) + 1) = (1..Len(q)) \union {Len(q) + 1}
  BY <1>1
<1>3. Append(q, e)[Len(q) + 1] = e /\ \A i \in 1..Len(q) : Append(q, e)[i] = q[i]
  BY AppendedSeq
<1>4. QED
  BY <1>1, <1>2, <1>3

\* The numbers queued before the head is taken.
LEMMA IdsOfTail ==
    ASSUME NEW q \in Seq(Entry), q # <<>>
    PROVE  {q[i].id : i \in 1..Len(q)}
              = {Head(q).id} \union {Tail(q)[i].id : i \in 1..Len(Tail(q))}
<1>1. /\ Len(q) \in Nat \ {0} /\ Len(Tail(q)) = Len(q) - 1 /\ Head(q) = q[1]
      /\ \A i \in 1..Len(Tail(q)) : Tail(q)[i] = q[i + 1]
  BY TailSeq
<1>2. ASSUME NEW i \in 1..Len(q)
      PROVE  q[i].id \in {Head(q).id} \union {Tail(q)[j].id : j \in 1..Len(Tail(q))}
  <2>1. CASE i = 1
    BY <1>1, <2>1
  <2>2. CASE i # 1
    <3>1. i - 1 \in 1..Len(Tail(q)) /\ Tail(q)[i - 1] = q[i]
      BY <1>1, <2>2
    <3>2. QED
      BY <3>1
  <2>3. QED
    BY <2>1, <2>2
<1>3. ASSUME NEW i \in 1..Len(Tail(q))
      PROVE  Tail(q)[i].id \in {q[j].id : j \in 1..Len(q)}
  <2>1. i + 1 \in 1..Len(q) /\ Tail(q)[i] = q[i + 1]
    BY <1>1
  <2>2. QED
    BY <2>1
<1>4. Head(q).id \in {q[j].id : j \in 1..Len(q)}
  BY <1>1
<1>5. QED
  BY <1>2, <1>3, <1>4

\* A place in a sequence one longer is an old place or the last one.
LEMMA SplitLast ==
    ASSUME NEW n \in Nat, NEW i \in 1..(n + 1)
    PROVE  i \in 1..n \/ i = n + 1
OBVIOUS

\* The numbers done after one more.
LEMMA ElementsOfAppend ==
    ASSUME NEW s \in Seq(Nat), NEW n \in Nat
    PROVE  {Append(s, n)[i] : i \in 1..Len(Append(s, n))}
              = {s[i] : i \in 1..Len(s)} \union {n}
<1>1. Len(Append(s, n)) = Len(s) + 1 /\ Len(s) \in Nat
  OBVIOUS
<1>2. 1..(Len(s) + 1) = (1..Len(s)) \union {Len(s) + 1}
  BY <1>1
<1>3. Append(s, n)[Len(s) + 1] = n /\ \A i \in 1..Len(s) : Append(s, n)[i] = s[i]
  BY AppendedSeq
<1>4. QED
  BY <1>1, <1>2, <1>3

-----------------------------------------------------------------------------

\* The thread has a command in hand exactly while it is carrying one out,
\* and there is no thread before StartMQTTTask.
InHand ==
    /\ message.id = 0 <=> publisher \in {"none", "waiting", "reset", "dead"}
    /\ main = "boot" => publisher = "none"

\* The inductive invariant of the order and the bookkeeping of commands.
OrderInv == InHand /\ InOrder /\ Placed

\* A step that moves no command from one place to another.
LEMMA QuietStep ==
    ASSUME OrderInv, InHand', UNCHANGED <<message, mqtt_queue, arrived, done, lost>>
    PROVE  OrderInv'
BY DEF OrderInv, InOrder, DoneInOrder, QueueInOrder, Placed, QueuedIds, HeldIds, DoneIds

\* A producer's step: the new command is younger than every other one.
LEMMA ReleaseStep ==
    ASSUME TypeOK, OrderInv, NEW c \in Command, Release(c)
    PROVE  OrderInv'
<1> USE DEF TypeOK
<1>1. arrived' = arrived + 1 /\ arrived' \in Nat /\ 1..arrived' = (1..arrived) \union {arrived'}
  BY DEF Release
<1>2. UNCHANGED <<main, publisher, message, done>>
  BY DEF Release
<1>3. InHand' /\ DoneInOrder'
  BY <1>2 DEF OrderInv, InHand, InOrder, DoneInOrder
<1>4. /\ \A i \in 1..Len(mqtt_queue) : mqtt_queue[i].id \in 1..arrived
      /\ \A i \in 1..Len(done) : done[i] \in 1..arrived
      /\ message.id \in 0..arrived
      /\ lost \subseteq 1..arrived
  <2>1. message.id \in Nat
    BY DEF Entry
  <2>2. QED
    BY <2>1 DEF OrderInv, Placed, QueuedIds, DoneIds, HeldIds
<1>5. CASE main = "up" /\ Len(mqtt_queue) < QueueLen
  <2> DEFINE e == Numbered(arrived', c)
  <2>1. e \in Entry /\ e.id = arrived'
    BY <1>1 DEF Numbered, Entry
  <2>2. mqtt_queue' = Append(mqtt_queue, e) /\ lost' = lost
    BY <1>5 DEF Release
  <2>3. QueuedIds' = QueuedIds \union {arrived'}
    BY <2>1, <2>2, IdsOfAppend DEF QueuedIds
  <2> HIDE DEF e
  <2>4. /\ Len(mqtt_queue') = Len(mqtt_queue) + 1 /\ Len(mqtt_queue) \in Nat
        /\ \A i \in 1..Len(mqtt_queue) : mqtt_queue'[i] = mqtt_queue[i]
        /\ mqtt_queue'[Len(mqtt_queue) + 1] = e
    BY <2>1, <2>2, AppendedSeq
  <2>5. QueueInOrder'
    <3>1. ASSUME NEW i \in 1..(Len(mqtt_queue) + 1), NEW j \in 1..(Len(mqtt_queue) + 1), i < j
          PROVE  mqtt_queue'[i].id < mqtt_queue'[j].id
      <4>1. i \in 1..Len(mqtt_queue)
        BY <2>4, <3>1
      <4>2. CASE j \in 1..Len(mqtt_queue)
        BY <2>4, <3>1, <4>1, <4>2 DEF OrderInv, InOrder, QueueInOrder
      <4>3. CASE j = Len(mqtt_queue) + 1
        <5>1. mqtt_queue'[j].id = arrived' /\ mqtt_queue'[i].id = mqtt_queue[i].id
          BY <2>1, <2>4, <4>1, <4>3
        <5>2. mqtt_queue[i].id < arrived'
          BY <1>1, <1>4, <4>1
        <5>3. QED
          BY <5>1, <5>2
      <4>4. j \in 1..Len(mqtt_queue) \/ j = Len(mqtt_queue) + 1
        <5> HIDE DEF TypeOK
        <5>1. QED
          BY <2>4, <3>1, SplitLast
      <4>5. QED
        BY <4>2, <4>3, <4>4
    <3>2. ASSUME NEW i \in 1..(Len(mqtt_queue) + 1)
          PROVE  /\ message.id < mqtt_queue'[i].id
                 /\ \A j \in 1..Len(done) : done[j] < mqtt_queue'[i].id
      <4>1. CASE i \in 1..Len(mqtt_queue)
        <5>1. mqtt_queue'[i].id = mqtt_queue[i].id
          BY <2>4, <4>1
        <5>2. QED
          BY <4>1, <5>1 DEF OrderInv, InOrder, QueueInOrder
      <4>2. CASE i = Len(mqtt_queue) + 1
        <5>1. mqtt_queue'[i].id = arrived'
          BY <2>1, <2>4, <4>2
        <5>2. message.id < arrived' /\ \A j \in 1..Len(done) : done[j] < arrived'
          BY <1>1, <1>4
        <5>3. QED
          BY <5>1, <5>2
      <4>3. i \in 1..Len(mqtt_queue) \/ i = Len(mqtt_queue) + 1
        <5> HIDE DEF TypeOK
        <5>1. QED
          BY <2>4, <3>2, SplitLast
      <4>4. QED
        BY <4>1, <4>2, <4>3
    <3>3. QED
      BY <1>2, <2>4, <3>1, <3>2 DEF QueueInOrder
  <2>6. Placed'
    <3>1. HeldIds' = HeldIds /\ DoneIds' = DoneIds
      BY <1>2 DEF HeldIds, DoneIds
    <3>2. arrived' \notin lost
      BY <1>1, <1>4
    <3>3. QED
      BY <1>1, <2>2, <2>3, <3>1, <3>2 DEF OrderInv, Placed
  <2>7. QED
    BY <1>3, <2>5, <2>6 DEF OrderInv, InOrder
<1>6. CASE ~(main = "up" /\ Len(mqtt_queue) < QueueLen)
  <2>1. mqtt_queue' = mqtt_queue /\ lost' = lost \union {arrived'}
    BY <1>6 DEF Release
  <2>2. QueuedIds' = QueuedIds /\ HeldIds' = HeldIds /\ DoneIds' = DoneIds
    BY <1>2, <2>1 DEF QueuedIds, HeldIds, DoneIds
  <2>3. QueueInOrder'
    BY <1>2, <2>1 DEF OrderInv, InOrder, QueueInOrder
  <2>4. arrived' \notin QueuedIds \union HeldIds \union DoneIds
    BY <1>1, <1>4 DEF QueuedIds, HeldIds, DoneIds
  <2>5. Placed'
    BY <1>1, <2>1, <2>2, <2>4 DEF OrderInv, Placed
  <2>6. QED
    BY <1>3, <2>3, <2>5 DEF OrderInv, InOrder
<1>7. QED
  BY <1>5, <1>6

\* Take moves the head of the queue into the thread's hand.
LEMMA TakeStep ==
    ASSUME TypeOK, OrderInv, Take
    PROVE  OrderInv'
<1> USE DEF TypeOK
<1>1. /\ message' = mqtt_queue[1] /\ mqtt_queue' = Tail(mqtt_queue)
      /\ publisher' = "parsed" /\ publisher = "waiting"
      /\ UNCHANGED <<main, arrived, done, lost>>
      /\ message.id = 0
  BY TailSeq DEF Take, OrderInv, InHand, histories
<1>2. /\ Len(mqtt_queue) \in Nat \ {0}
      /\ Len(mqtt_queue') = Len(mqtt_queue) - 1
      /\ \A i \in 1..Len(mqtt_queue') : mqtt_queue'[i] = mqtt_queue[i + 1]
  BY <1>1, TailSeq DEF Take
<1>3. 1 \in 1..Len(mqtt_queue) /\ message' \in Entry /\ 0 < message'.id
  <2>1. 1 \in 1..Len(mqtt_queue)
    BY <1>2
  <2>2. mqtt_queue[1] \in Entry
    BY <2>1
  <2>3. QED
    BY <1>1, <2>1, <2>2 DEF OrderInv, InOrder, QueueInOrder
<1>4. QueuedIds = QueuedIds' \union {message'.id}
  <2>1. mqtt_queue # <<>> /\ mqtt_queue \in Seq(Entry)
    BY DEF Take
  <2>2. QueuedIds = {Head(mqtt_queue).id}
                       \union {Tail(mqtt_queue)[i].id : i \in 1..Len(Tail(mqtt_queue))}
    BY <2>1, IdsOfTail DEF QueuedIds
  <2>3. Head(mqtt_queue) = message'
    BY DEF Take
  <2>4. QueuedIds' = {Tail(mqtt_queue)[i].id : i \in 1..Len(Tail(mqtt_queue))}
    BY <1>1 DEF QueuedIds
  <2>5. QED
    BY <2>2, <2>3, <2>4
<1>5. DoneInOrder'
  BY <1>1, <1>3 DEF OrderInv, InOrder, DoneInOrder, QueueInOrder
<1>6. QueueInOrder'
  <2>1. ASSUME NEW i \in 1..Len(mqtt_queue')
        PROVE  i + 1 \in 1..Len(mqtt_queue) /\ mqtt_queue'[i] = mqtt_queue[i + 1]
    BY <1>2
  <2>2. QED
    BY <1>1, <1>2, <1>3, <2>1 DEF OrderInv, InOrder, QueueInOrder
<1>7. Placed'
  <2>1. HeldIds = {} /\ HeldIds' = {message'.id} /\ DoneIds' = DoneIds
    BY <1>1, <1>3 DEF HeldIds, DoneIds, Entry
  <2>2. QED
    BY <1>1, <1>4, <2>1 DEF OrderInv, Placed
<1>8. InHand'
  BY <1>1, <1>3 DEF InHand, Entry, OrderInv
<1>9. QED
  BY <1>5, <1>6, <1>7, <1>8 DEF OrderInv, InOrder

\* The command in hand is carried out.
LEMMA FinishStep ==
    ASSUME TypeOK, OrderInv, message.id # 0,
           message' = Idle, done' = Append(done, message.id),
           publisher # "none", publisher' \in {"waiting", "reset"},
           UNCHANGED <<main, mqtt_queue, arrived, lost>>
    PROVE  OrderInv'
<1> USE DEF TypeOK
<1>1. message.id \in Nat /\ message'.id = 0
  BY DEF Entry, Idle, Numbered
<1>2. /\ Len(done') = Len(done) + 1 /\ Len(done) \in Nat
      /\ \A i \in 1..Len(done) : done'[i] = done[i]
      /\ done'[Len(done) + 1] = message.id
  BY <1>1, AppendedSeq
<1>3. DoneInOrder'
  <2>1. ASSUME NEW i \in 1..Len(done'), NEW j \in 1..Len(done'), i < j
        PROVE  done'[i] < done'[j]
    <3>1. i \in 1..Len(done)
      BY <1>2, <2>1
    <3>2. CASE j \in 1..Len(done)
      BY <1>2, <2>1, <3>1, <3>2 DEF OrderInv, InOrder, DoneInOrder
    <3>3. CASE j = Len(done) + 1
      BY <1>2, <3>1, <3>3 DEF OrderInv, InOrder, DoneInOrder
    <3>4. QED
      BY <1>2, <3>2, <3>3
  <2>2. QED
    BY <1>1, <2>1 DEF DoneInOrder
<1>4. QueueInOrder'
  <2>1. ASSUME NEW i \in 1..Len(mqtt_queue), NEW j \in 1..Len(done')
        PROVE  done'[j] < mqtt_queue[i].id
    <3>1. CASE j \in 1..Len(done)
      BY <1>2, <3>1 DEF OrderInv, InOrder, QueueInOrder
    <3>2. CASE j = Len(done) + 1
      BY <1>2, <3>2 DEF OrderInv, InOrder, QueueInOrder
    <3>3. QED
      BY <1>2, <3>1, <3>2
  <2>2. \A i \in 1..Len(mqtt_queue) : 0 < mqtt_queue[i].id
    <3>1. ASSUME NEW i \in 1..Len(mqtt_queue)
          PROVE  0 < mqtt_queue[i].id
      <4>1. mqtt_queue[i] \in Entry
        OBVIOUS
      <4>2. message.id < mqtt_queue[i].id /\ mqtt_queue[i].id \in Nat
        BY <4>1 DEF OrderInv, InOrder, QueueInOrder, Entry
      <4>3. QED
        BY <1>1, <4>2
    <3>2. QED
      BY <3>1
  <2>3. QED
    BY <1>1, <2>1, <2>2 DEF OrderInv, InOrder, QueueInOrder
<1>5. Placed'
  <2>1. DoneIds' = DoneIds \union {message.id}
    <3>1. {Append(done, message.id)[i] : i \in 1..Len(Append(done, message.id))}
             = DoneIds \union {message.id}
      BY <1>1, ElementsOfAppend DEF DoneIds
    <3>2. QED
      BY <3>1 DEF DoneIds
  <2>2. HeldIds = {message.id} /\ HeldIds' = {} /\ QueuedIds' = QueuedIds
    BY <1>1 DEF HeldIds, QueuedIds
  <2>3. QED
    BY <2>1, <2>2 DEF OrderInv, Placed
<1>6. InHand'
  BY <1>1 DEF InHand, OrderInv
<1>7. QED
  BY <1>3, <1>4, <1>5, <1>6 DEF OrderInv, InOrder

\* The command in hand is lost with the thread.
LEMMA ReturnStep ==
    ASSUME TypeOK, OrderInv, SetSNReturns
    PROVE  OrderInv'
<1> USE DEF TypeOK
<1>1. /\ message'.id = 0 /\ lost' = lost \union {message.id} /\ publisher' = "dead"
      /\ publisher = "set_sn" /\ UNCHANGED <<main, mqtt_queue, arrived, done>>
  BY DEF SetSNReturns, Idle, Numbered
<1>2. message.id \in Nat \ {0}
  BY DEF SetSNReturns, OrderInv, InHand, Entry
<1>3. DoneInOrder' /\ InHand'
  BY <1>1 DEF OrderInv, InOrder, DoneInOrder, InHand
<1>4. QueueInOrder'
  <2>1. ASSUME NEW i \in 1..Len(mqtt_queue)
        PROVE  0 < mqtt_queue[i].id
    <3>1. mqtt_queue[i] \in Entry
      OBVIOUS
    <3>2. message.id < mqtt_queue[i].id /\ mqtt_queue[i].id \in Nat
      BY <3>1 DEF OrderInv, InOrder, QueueInOrder, Entry
    <3>3. QED
      BY <1>2, <3>2
  <2>2. QED
    BY <1>1, <2>1 DEF OrderInv, InOrder, QueueInOrder
<1>5. Placed'
  <2>1. HeldIds = {message.id} /\ HeldIds' = {} /\ QueuedIds' = QueuedIds /\ DoneIds' = DoneIds
    BY <1>1, <1>2 DEF HeldIds, QueuedIds, DoneIds
  <2>2. message.id \notin QueuedIds \union DoneIds
    <3>1. ASSUME NEW i \in 1..Len(mqtt_queue)
          PROVE  mqtt_queue[i].id # message.id
      BY <1>2 DEF OrderInv, InOrder, QueueInOrder, Entry
    <3>2. ASSUME NEW i \in 1..Len(done)
          PROVE  done[i] # message.id
      BY <1>2 DEF OrderInv, InOrder, DoneInOrder
    <3>3. QED
      BY <3>1, <3>2 DEF QueuedIds, DoneIds
  <2>3. QED
    BY <1>1, <2>1, <2>2 DEF OrderInv, Placed
<1>6. QED
  BY <1>3, <1>4, <1>5 DEF OrderInv, InOrder

\* A restart loses what waits and what is in hand.
LEMMA RestartStep ==
    ASSUME TypeOK, OrderInv, Restart
    PROVE  OrderInv'
<1> USE DEF TypeOK
<1>1. /\ message'.id = 0 /\ mqtt_queue' = <<>> /\ publisher' = "none"
      /\ lost' = lost \union QueuedIds \union HeldIds /\ UNCHANGED <<arrived, done>>
  BY DEF Restart, Idle, Numbered
<1>2. DoneInOrder' /\ InHand' /\ QueueInOrder'
  BY <1>1 DEF OrderInv, InOrder, DoneInOrder, InHand, QueueInOrder
<1>3. QueuedIds' = {} /\ HeldIds' = {} /\ DoneIds' = DoneIds
  BY <1>1 DEF QueuedIds, HeldIds, DoneIds
<1>4. DoneIds \intersect (QueuedIds \union HeldIds) = {}
  <2>1. ASSUME NEW i \in 1..Len(done)
        PROVE  done[i] \notin QueuedIds \union HeldIds
    <3>1. done[i] \in Nat /\ message.id \in Nat
      BY DEF Entry
    <3>2. done[i] \notin HeldIds
      BY <3>1 DEF OrderInv, InOrder, DoneInOrder, HeldIds
    <3>3. ASSUME NEW j \in 1..Len(mqtt_queue)
          PROVE  done[i] # mqtt_queue[j].id
      BY <3>1 DEF OrderInv, InOrder, QueueInOrder
    <3>4. QED
      BY <3>2, <3>3 DEF QueuedIds
  <2>2. QED
    BY <2>1 DEF DoneIds
<1>5. Placed'
  BY <1>1, <1>3, <1>4 DEF OrderInv, Placed
<1>6. QED
  BY <1>2, <1>5 DEF OrderInv, InOrder

\* Every step of the command path keeps the order and the books.
LEMMA OrderInvariant == Spec => []OrderInv
<1>1. Init => OrderInv
  <2> SUFFICES ASSUME Init
               PROVE  OrderInv
    OBVIOUS
  <2>1. message.id = 0
    BY DEF Init, Idle, Numbered
  <2>2. QueuedIds = {} /\ HeldIds = {} /\ DoneIds = {} /\ 1..arrived = {}
    BY <2>1 DEF Init, QueuedIds, HeldIds, DoneIds
  <2>3. Placed
    BY <2>2 DEF Init, Placed
  <2>4. InOrder
    BY <2>1 DEF Init, InOrder, DoneInOrder, QueueInOrder
  <2>5. QED
    BY <2>1, <2>3, <2>4 DEF Init, OrderInv, InHand
<1>2. TypeOK /\ OrderInv /\ [Next]_vars => OrderInv'
  <2> SUFFICES ASSUME TypeOK, OrderInv, [Next]_vars
               PROVE  OrderInv'
    OBVIOUS
  <2> DEFINE Books == <<message, mqtt_queue, arrived, done, lost>>
  <2>1. CASE MainStep \/ SessionUp \/ SessionDown
    <3>1. InHand' /\ UNCHANGED Books
      BY <2>1 DEF MainStep, CreateTasks, CreateQueue, GoOffline, SessionUp,
                  SessionDown, histories, OrderInv, InHand
    <3>2. QED
      BY <3>1, QuietStep
  <2>2. ASSUME NEW c \in Command, Release(c)
        PROVE  OrderInv'
    BY <2>2, ReleaseStep
  <2>3. CASE Take
    BY <2>3, TakeStep
  <2>4. CASE Dispatch
    <3>1. publisher = "parsed" /\ publisher' \in {"readMoney", "set_sn", "look_up", "loop"}
      BY <2>4 DEF Dispatch
    <3>2. UNCHANGED Books /\ UNCHANGED main
      BY <2>4 DEF Dispatch
    <3>3. InHand'
      BY <3>1, <3>2 DEF OrderInv, InHand
    <3>4. QED
      BY <3>2, <3>3, QuietStep
  <2>5. CASE Announce \/ Reply \/ SetSNWrite \/ LookUp
    <3>1. UNCHANGED Books /\ UNCHANGED main
      BY <2>5 DEF Announce, Reply, SetSNWrite, LookUp, histories
    <3>2. message.id # 0 /\ main # "boot" /\ publisher' \in {"reply", "loop", "confirm"}
      BY <2>5 DEF Announce, Reply, SetSNWrite, LookUp, OrderInv, InHand
    <3>3. InHand'
      BY <3>1, <3>2 DEF InHand
    <3>4. QED
      BY <3>1, <3>3, QuietStep
  <2>6. CASE LoopRound \/ SetSNConfirm
    <3>1. message.id # 0
      BY <2>6 DEF LoopRound, SetSNConfirm, OrderInv, InHand
    <3>2. /\ message' = Idle /\ done' = Append(done, message.id)
          /\ publisher # "none" /\ publisher' \in {"waiting", "reset"}
          /\ UNCHANGED <<main, mqtt_queue, arrived, lost>>
      BY <2>6 DEF LoopRound, SetSNConfirm
    <3>3. QED
      BY <3>1, <3>2, FinishStep
  <2>7. CASE SetSNReturns
    BY <2>7, ReturnStep
  <2>8. CASE Restart
    BY <2>8, RestartStep
  <2>9. CASE UNCHANGED vars
    <3>1. InHand' /\ UNCHANGED Books
      BY <2>9 DEF vars, OrderInv, InHand
    <3>2. QED
      BY <3>1, QuietStep
  <2>10. QED
    BY <2>1, <2>2, <2>3, <2>4, <2>5, <2>6, <2>7, <2>8, <2>9, CommandsAssumption,
       ButtonSendsACommand
    DEF Next, PublisherStep, messageArrived, ShortPress, PowerReset, Fault, PowerLoss
<1>3. QED
  BY <1>1, <1>2, TypeCorrect, PTL DEF Spec

\* Commands are carried out in the order of their arrival, across full
\* queues, deaths of the thread and restarts (mqtt.c:65, 239, 340).
THEOREM CommandsInOrder == Spec => []InOrder
<1>1. OrderInv => InOrder
  BY DEF OrderInv
<1>2. QED
  BY <1>1, OrderInvariant, PTL

\* What is in order is nowhere twice: the numbers rise through done, the hand
\* and the queue.
LEMMA OrderedOnce ==
    ASSUME TypeOK, OrderInv
    PROVE  NoneTwice
<1>1. /\ Len(done) \in Nat /\ \A i \in 1..Len(done) : done[i] \in Nat
      /\ Len(mqtt_queue) \in Nat /\ \A i \in 1..Len(mqtt_queue) : mqtt_queue[i].id \in Nat
      /\ message.id \in Nat
  <2>1. /\ mqtt_queue \in Seq(Entry) /\ done \in Seq(Nat) /\ message \in Entry
    BY DEF TypeOK
  <2>2. \A i \in 1..Len(mqtt_queue) : mqtt_queue[i] \in Entry
    BY <2>1
  <2>3. \A i \in 1..Len(done) : done[i] \in Nat
    BY <2>1
  <2>4. Len(mqtt_queue) \in Nat /\ Len(done) \in Nat
    BY <2>1
  <2>5. QED
    BY <2>1, <2>2, <2>3, <2>4 DEF Entry
<1>2. QueuedIds \intersect HeldIds = {}
  BY <1>1 DEF OrderInv, InOrder, QueueInOrder, QueuedIds, HeldIds
<1>3. DoneIds \intersect QueuedIds = {}
  BY <1>1 DEF OrderInv, InOrder, QueueInOrder, QueuedIds, DoneIds
<1>4. DoneIds \intersect HeldIds = {}
  BY <1>1 DEF OrderInv, InOrder, DoneInOrder, HeldIds, DoneIds
<1>5. \A i, j \in 1..Len(mqtt_queue) : mqtt_queue[i].id = mqtt_queue[j].id => i = j
  BY <1>1 DEF OrderInv, InOrder, QueueInOrder
<1>6. \A i, j \in 1..Len(done) : done[i] = done[j] => i = j
  <2>1. \A i, j \in 1..Len(done) : i < j => done[i] < done[j]
    BY DEF OrderInv, InOrder, DoneInOrder
  <2>2. SUFFICES ASSUME NEW i \in 1..Len(done), NEW j \in 1..Len(done), done[i] = done[j]
                 PROVE  i = j
    OBVIOUS
  <2>3. done[i] \in Nat /\ i \in Nat /\ j \in Nat
    BY <1>1
  <2>4. ~(i < j) /\ ~(j < i)
    BY <2>1, <2>2, <2>3
  <2>5. QED
    BY <2>3, <2>4
<1>7. QED
  BY <1>2, <1>3, <1>4, <1>5, <1>6 DEF NoneTwice

\* Every command that arrived is waiting, in hand, done or lost, in exactly one
\* of these places and once in it (mqtt.c:65, 239, 340).
THEOREM NoCommandVanishes == Spec => []Accounted
<1>1. TypeOK /\ OrderInv => Accounted
  BY OrderedOnce DEF OrderInv, Accounted
<1>2. QED
  BY <1>1, OrderInvariant, TypeCorrect, PTL

-----------------------------------------------------------------------------
(* What the server hears.                                                  *)

\* What was received is about commands that arrived, is older than what
\* waits, and is no answer yet to the command in hand.
SentBefore ==
    \A i \in 1..Len(received) :
        /\ received[i].id <= arrived
        /\ \A j \in 1..Len(mqtt_queue) : received[i].id < mqtt_queue[j].id
        /\ publisher = "parsed" => received[i].id < message.id
        /\ publisher \in {"readMoney", "reply", "set_sn", "confirm"} =>
               \/ received[i].id < message.id
               \/ received[i].id = message.id /\ received[i].topic = "SERIAL"

\* The thread confirms nothing it has not done.
ActedFirst == publisher \in {"reply", "confirm"} => message.id \in acted

ReplyInv == SentBefore /\ ActedFirst /\ RepliesTellTheTruth

LEMMA SeqElement == ASSUME NEW S, NEW s \in Seq(S), NEW i \in 1..Len(s) PROVE s[i] \in S
OBVIOUS

LEMMA ReceivedTyped ==
    ASSUME TypeOK, NEW i \in 1..Len(received)
    PROVE  received[i] \in [topic : {"SERIAL", "REC"}, id : Nat] /\ received[i].id \in Nat
<1> DEFINE S == [topic : {"SERIAL", "REC"}, id : Nat]
<1>1. received \in Seq(S)
  BY DEF TypeOK
<1>2. \A m \in S : m.id \in Nat
  OBVIOUS
<1> HIDE DEF S
<1>3. received[i] \in S
  BY <1>1, SeqElement
<1>4. QED
  BY <1>2, <1>3 DEF S

\* A message about the command in hand, lost on the way or not.
LEMMA PublishStep ==
    ASSUME TypeOK, OrderInv, ReplyInv, NEW t \in {"SERIAL", "REC"}, pub_mqtt(t),
           message.id # 0,
           t = "SERIAL" => publisher = "parsed",
           t = "REC" => publisher \in {"reply", "confirm"},
           UNCHANGED <<mqtt_queue, arrived, acted>>
    PROVE  /\ RepliesTellTheTruth'
           /\ \A i \in 1..Len(received') :
                 /\ received'[i].id <= arrived
                 /\ \A j \in 1..Len(mqtt_queue) : received'[i].id < mqtt_queue[j].id
                 /\ \/ received'[i].id < message.id
                    \/ received'[i].id = message.id /\ received'[i].topic \in {"SERIAL", t}
<1>1. /\ message.id \in 1..arrived
      /\ \A j \in 1..Len(mqtt_queue) : message.id < mqtt_queue[j].id
  BY DEF TypeOK, Entry, OrderInv, InOrder, QueueInOrder, Placed, HeldIds
<1>2. /\ received \in Seq([topic : {"SERIAL", "REC"}, id : Nat])
      /\ Len(received) \in Nat
      /\ arrived \in Nat /\ message.id \in Nat
  BY DEF TypeOK, Entry
<1>3. \A i \in 1..Len(received) :
         /\ received[i] \in [topic : {"SERIAL", "REC"}, id : Nat]
         /\ received[i].id <= arrived
         /\ \A j \in 1..Len(mqtt_queue) : received[i].id < mqtt_queue[j].id
         /\ \/ received[i].id < message.id
            \/ t = "REC" /\ received[i].id = message.id /\ received[i].topic = "SERIAL"
  <2>1. \A i \in 1..Len(received) : received[i] \in [topic : {"SERIAL", "REC"}, id : Nat]
    BY ReceivedTyped
  <2>2. SentBefore
    BY DEF ReplyInv
  <2>3. CASE t = "SERIAL"
    BY <2>1, <2>2, <2>3 DEF SentBefore
  <2>4. CASE t = "REC"
    BY <2>1, <2>2, <2>4 DEF SentBefore
  <2>5. QED
    BY <2>3, <2>4
<1>4. CASE UNCHANGED received
  BY <1>3, <1>4 DEF ReplyInv, RepliesTellTheTruth
<1>5. CASE received' = Append(received, [topic |-> t, id |-> message.id])
  <2> DEFINE r == [topic |-> t, id |-> message.id]
  <2>1. r \in [topic : {"SERIAL", "REC"}, id : Nat] /\ r.id = message.id /\ r.topic = t
    BY <1>2
  <2> HIDE DEF r
  <2>2. /\ Len(received') = Len(received) + 1
        /\ \A i \in 1..Len(received) : received'[i] = received[i]
        /\ received'[Len(received) + 1] = r
    BY <1>2, <1>5, <2>1, AppendedSeq DEF r
  <2>3. t = "REC" => message.id \in acted
    BY DEF ReplyInv, ActedFirst
  <2>4. ASSUME NEW i \in 1..Len(received'), received'[i].topic = "REC"
        PROVE  received'[i].id \in acted
    <3>1. CASE i \in 1..Len(received)
      BY <2>2, <2>4, <3>1 DEF ReplyInv, RepliesTellTheTruth
    <3>2. CASE i = Len(received) + 1
      BY <2>1, <2>2, <2>3, <2>4, <3>2
    <3>3. QED
      BY <1>2, <2>2, <3>1, <3>2, SplitLast
  <2>5. ASSUME NEW i \in 1..Len(received'), NEW j \in 1..Len(received'), i < j
        PROVE  \/ received'[i].id < received'[j].id
               \/ /\ received'[i].id = received'[j].id
                  /\ received'[i].topic = "SERIAL" /\ received'[j].topic = "REC"
    <3>1. i \in 1..Len(received)
      BY <1>2, <2>2, <2>5
    <3>2. CASE j \in 1..Len(received)
      BY <2>2, <2>5, <3>1, <3>2 DEF ReplyInv, RepliesTellTheTruth
    <3>3. CASE j = Len(received) + 1
      BY <1>3, <2>1, <2>2, <3>1, <3>3
    <3>4. QED
      BY <1>2, <2>2, <3>2, <3>3, SplitLast
  <2>6. ASSUME NEW i \in 1..Len(received')
        PROVE  /\ received'[i].id <= arrived
               /\ \A j \in 1..Len(mqtt_queue) : received'[i].id < mqtt_queue[j].id
               /\ \/ received'[i].id < message.id
                  \/ received'[i].id = message.id /\ received'[i].topic \in {"SERIAL", t}
    <3>1. CASE i \in 1..Len(received)
      BY <1>3, <2>2, <3>1
    <3>2. CASE i = Len(received) + 1
      BY <1>1, <1>2, <2>1, <2>2, <3>2
    <3>3. QED
      BY <1>2, <2>2, <3>1, <3>2, SplitLast
  <2>7. RepliesTellTheTruth'
    BY <2>4, <2>5 DEF RepliesTellTheTruth
  <2>8. QED
    BY <2>6, <2>7
<1>6. QED
  BY <1>4, <1>5 DEF pub_mqtt

\* A step after which the server has heard no more, and which leaves the
\* thread where nothing is owed, or where it was.
LEMMA SilentStep ==
    ASSUME ReplyInv, UNCHANGED <<received, arrived, mqtt_queue>>,
           acted \subseteq acted',
           \/ UNCHANGED <<publisher, message>>
           \/ publisher' \in {"none", "waiting", "loop", "look_up", "reset", "dead"}
    PROVE  ReplyInv'
BY DEF ReplyInv, SentBefore, ActedFirst, RepliesTellTheTruth

LEMMA RepliesStep == TypeOK /\ OrderInv /\ ReplyInv /\ [Next]_vars => ReplyInv'
<1> SUFFICES ASSUME TypeOK, OrderInv, ReplyInv, [Next]_vars
             PROVE  ReplyInv'
  OBVIOUS
<1>1. CASE MainStep \/ SessionUp \/ SessionDown \/ LookUp
  <2>1. UNCHANGED <<received, arrived, mqtt_queue, acted>>
    BY <1>1 DEF MainStep, CreateTasks, CreateQueue, GoOffline, SessionUp, SessionDown,
                LookUp, histories
  <2>2. UNCHANGED <<publisher, message>> \/ publisher' \in {"waiting", "loop"}
    BY <1>1 DEF MainStep, CreateTasks, CreateQueue, GoOffline, SessionUp, SessionDown, LookUp
  <2>3. QED
    BY <2>1, <2>2, SilentStep
<1>2. ASSUME NEW c \in Command, Release(c)
      PROVE  ReplyInv'
  <2>1. arrived \in Nat /\ arrived' = arrived + 1
    BY <1>2 DEF Release, TypeOK
  <2>2. UNCHANGED <<publisher, message, acted, received>>
    BY <1>2 DEF Release
  <2>3. \A i \in 1..Len(received) : received[i].id \in Nat /\ received[i].id <= arrived
    <3>1. ASSUME NEW i \in 1..Len(received)
          PROVE  received[i].id \in Nat
      BY ReceivedTyped
    <3>2. QED
      BY <3>1 DEF ReplyInv, SentBefore
  <2>4. ASSUME NEW i \in 1..Len(received), NEW j \in 1..Len(mqtt_queue')
        PROVE  received[i].id < mqtt_queue'[j].id
    <3>1. CASE mqtt_queue' = mqtt_queue
      BY <3>1, <2>4 DEF ReplyInv, SentBefore
    <3>2. CASE mqtt_queue' = Append(mqtt_queue, Numbered(arrived', c))
      <4> DEFINE e == Numbered(arrived', c)
      <4>1. e \in Entry /\ e.id = arrived'
        BY <2>1 DEF Numbered, Entry
      <4> HIDE DEF e
      <4>2. /\ Len(mqtt_queue') = Len(mqtt_queue) + 1 /\ Len(mqtt_queue) \in Nat
            /\ \A l \in 1..Len(mqtt_queue) : mqtt_queue'[l] = mqtt_queue[l]
            /\ mqtt_queue'[Len(mqtt_queue) + 1] = e
        BY <3>2, <4>1, AppendedSeq DEF TypeOK, e
      <4>3. CASE j \in 1..Len(mqtt_queue)
        BY <4>2, <4>3 DEF ReplyInv, SentBefore
      <4>4. CASE j = Len(mqtt_queue) + 1
        BY <2>1, <2>3, <4>1, <4>2, <4>4
      <4>5. QED
        BY <4>2, <4>3, <4>4, SplitLast
    <3>3. QED
      BY <1>2, <3>1, <3>2 DEF Release
  <2>5. \A i \in 1..Len(received) : received[i].id <= arrived'
    BY <2>1, <2>3
  <2>6. SentBefore'
    BY <2>2, <2>4, <2>5 DEF ReplyInv, SentBefore
  <2>7. ActedFirst' /\ RepliesTellTheTruth'
    BY <2>2 DEF ReplyInv, ActedFirst, RepliesTellTheTruth
  <2>8. QED
    BY <2>6, <2>7 DEF ReplyInv
<1>3. CASE Take
  <2>1. /\ mqtt_queue # <<>> /\ message' = mqtt_queue[1] /\ publisher' = "parsed"
        /\ mqtt_queue' = Tail(mqtt_queue) /\ UNCHANGED <<arrived, acted, received>>
    BY <1>3, TailSeq DEF Take, histories, TypeOK
  <2>2. /\ Len(mqtt_queue) \in Nat \ {0}
        /\ Len(mqtt_queue') = Len(mqtt_queue) - 1
        /\ \A i \in 1..Len(mqtt_queue') : mqtt_queue'[i] = mqtt_queue[i + 1]
    BY <2>1, TailSeq DEF TypeOK
  <2>3. 1 \in 1..Len(mqtt_queue) /\ \A j \in 1..Len(mqtt_queue') : j + 1 \in 1..Len(mqtt_queue)
    BY <2>2
  <2>4. ASSUME NEW i \in 1..Len(received)
        PROVE  /\ received[i].id <= arrived
               /\ received[i].id < message'.id
               /\ \A j \in 1..Len(mqtt_queue') : received[i].id < mqtt_queue'[j].id
    <3>1. \A j \in 1..Len(mqtt_queue) : received[i].id < mqtt_queue[j].id
      BY DEF ReplyInv, SentBefore
    <3>2. received[i].id <= arrived
      BY DEF ReplyInv, SentBefore
    <3>3. received[i].id < message'.id
      BY <2>1, <2>3, <3>1
    <3>4. \A j \in 1..Len(mqtt_queue') : received[i].id < mqtt_queue'[j].id
      BY <2>2, <2>3, <3>1
    <3>5. QED
      BY <3>2, <3>3, <3>4
  <2>5. SentBefore'
    BY <2>1, <2>4 DEF SentBefore
  <2>6. ActedFirst' /\ RepliesTellTheTruth'
    BY <2>1 DEF ReplyInv, ActedFirst, RepliesTellTheTruth
  <2>7. QED
    BY <2>5, <2>6 DEF ReplyInv
<1>4. CASE Dispatch
  <2>1. /\ publisher = "parsed" /\ publisher' \in {"readMoney", "set_sn", "look_up", "loop"}
        /\ UNCHANGED <<message, mqtt_queue, arrived, acted>>
        /\ pub_mqtt("SERIAL") \/ UNCHANGED received
    BY <1>4 DEF Dispatch
  <2>2. pub_mqtt("SERIAL") /\ message.id # 0
    BY <2>1 DEF pub_mqtt, OrderInv, InHand
  <2>3. QED
    BY <2>1, <2>2, PublishStep DEF ReplyInv, SentBefore, ActedFirst
<1>5. CASE LoopRound \/ SetSNReturns
  <2>1. UNCHANGED <<received, arrived, mqtt_queue, acted>> /\ publisher' \in {"waiting", "dead"}
    BY <1>5 DEF LoopRound, SetSNReturns
  <2>2. QED
    BY <2>1, SilentStep
<1>6. CASE Announce
  BY <1>6 DEF Announce, ReplyInv, SentBefore, ActedFirst, RepliesTellTheTruth
<1>7. CASE Reply \/ SetSNConfirm
  <2>1. /\ publisher \in {"reply", "confirm"} /\ publisher' \in {"loop", "reset"}
        /\ UNCHANGED <<mqtt_queue, arrived, acted>> /\ pub_mqtt("REC")
    BY <1>7 DEF Reply, SetSNConfirm
  <2>2. message.id # 0
    BY <2>1 DEF OrderInv, InHand
  <2>3. QED
    BY <2>1, <2>2, PublishStep DEF ReplyInv, SentBefore, ActedFirst
<1>8. CASE SetSNWrite
  BY <1>8 DEF SetSNWrite, ReplyInv, SentBefore, ActedFirst, RepliesTellTheTruth
<1>9. CASE Restart
  BY <1>9 DEF Restart, ReplyInv, SentBefore, ActedFirst, RepliesTellTheTruth
<1>10. CASE UNCHANGED vars
  BY <1>10, SilentStep DEF vars
<1>11. QED
  BY <1>1, <1>2, <1>3, <1>4, <1>5, <1>6, <1>7, <1>8, <1>9, <1>10, CommandsAssumption,
     ButtonSendsACommand
  DEF Next, PublisherStep, messageArrived, ShortPress, PowerReset, Fault, PowerLoss

\* The server is told of a read amount or a written serial only when it was,
\* once, and in the order of the commands (mqtt.c:257-271, 323-340).
THEOREM AnswersAreTrue == Spec => []RepliesTellTheTruth
<1>1. Init => ReplyInv
  BY DEF Init, ReplyInv, SentBefore, ActedFirst, RepliesTellTheTruth
<1>2. QED
  BY <1>1, RepliesStep, TypeCorrect, OrderInvariant, PTL DEF Spec, ReplyInv

-----------------------------------------------------------------------------
(* The command path as a FIFO.                                             *)

LEMMA SameSeq ==
    ASSUME NEW S, NEW s \in Seq(S), NEW t \in Seq(S), Len(s) = Len(t),
           \A i \in 1..Len(s) : s[i] = t[i]
    PROVE  s = t
OBVIOUS

LEMMA IdsTyped ==
    ASSUME NEW q \in Seq(Entry)
    PROVE  /\ Ids(q) \in Seq(Nat) /\ Len(Ids(q)) = Len(q)
           /\ \A i \in 1..Len(q) : Ids(q)[i] = q[i].id
<1>1. \A i \in 1..Len(q) : q[i].id \in Nat
  <2> TAKE i \in 1..Len(q)
  <2>1. q[i] \in Entry
    OBVIOUS
  <2>2. QED
    BY <2>1 DEF Entry
<1>2. QED
  BY <1>1 DEF Ids

LEMMA Cons ==
    ASSUME NEW S, NEW n \in S, NEW s \in Seq(S)
    PROVE  /\ <<n>> \o s \in Seq(S) /\ <<n>> \o s # <<>>
           /\ Len(<<n>> \o s) = Len(s) + 1 /\ (<<n>> \o s)[1] = n
           /\ \A i \in 1..Len(s) : (<<n>> \o s)[i + 1] = s[i]
           /\ Head(<<n>> \o s) = n /\ Tail(<<n>> \o s) = s
           /\ <<>> \o s = s
<1>1. <<n>> \o s \in Seq(S) /\ Len(<<n>> \o s) = Len(s) + 1 /\ Len(s) \in Nat
  OBVIOUS
<1>2. (<<n>> \o s)[1] = n /\ \A i \in 1..Len(s) : (<<n>> \o s)[i + 1] = s[i]
  OBVIOUS
<1>3. <<n>> \o s # <<>>
  BY <1>1
<1> DEFINE t == <<n>> \o s
<1>4. /\ t \in Seq(S) /\ t # <<>> /\ Len(t) = Len(s) + 1 /\ t[1] = n
      /\ \A i \in 1..Len(s) : t[i + 1] = s[i]
  BY <1>1, <1>2, <1>3
<1> HIDE DEF t
<1>5. Tail(t) \in Seq(S) /\ Len(Tail(t)) = Len(s) /\ \A i \in 1..Len(s) : Tail(t)[i] = s[i]
  BY <1>1, <1>4
<1>6. Tail(t) = s
  BY <1>5, SameSeq
<1>7. Head(t) = n
  BY <1>4
<1>8. <<>> \o s = s
  OBVIOUS
<1>9. QED
  BY <1>1, <1>2, <1>3, <1>6, <1>7, <1>8 DEF t

LEMMA ConcatAppend ==
    ASSUME NEW S, NEW r \in Seq(S), NEW s \in Seq(S), NEW n \in S
    PROVE  r \o Append(s, n) = Append(r \o s, n)
OBVIOUS

LEMMA IdsAppend ==
    ASSUME NEW q \in Seq(Entry), NEW e \in Entry
    PROVE  Ids(Append(q, e)) = Append(Ids(q), e.id)
<1>1. /\ Append(q, e) \in Seq(Entry) /\ Len(Append(q, e)) = Len(q) + 1 /\ Len(q) \in Nat
      /\ Append(q, e)[Len(q) + 1] = e /\ \A i \in 1..Len(q) : Append(q, e)[i] = q[i]
  OBVIOUS
<1>2. e.id \in Nat
  BY DEF Entry
<1> DEFINE s == Ids(Append(q, e))
           t == Append(Ids(q), e.id)
<1>3. s \in Seq(Nat) /\ Len(s) = Len(q) + 1 /\ \A i \in 1..(Len(q) + 1) : s[i] = Append(q, e)[i].id
  BY <1>1, IdsTyped
<1>4. t \in Seq(Nat) /\ Len(t) = Len(q) + 1 /\ t[Len(q) + 1] = e.id /\ \A i \in 1..Len(q) : t[i] = q[i].id
  BY <1>1, <1>2, IdsTyped
<1> HIDE DEF s, t
<1>5. \A i \in 1..(Len(q) + 1) : s[i] = t[i]
  BY <1>1, <1>3, <1>4
<1>6. s = t
  BY <1>3, <1>4, <1>5, SameSeq
<1>7. QED
  BY <1>6 DEF s, t

LEMMA IdsOfHead ==
    ASSUME NEW q \in Seq(Entry), q # <<>>
    PROVE  Ids(q) = <<Head(q).id>> \o Ids(Tail(q))
<1> SUFFICES ASSUME NEW h \in Nat, h = Head(q).id, NEW r \in Seq(Entry), r = Tail(q)
             PROVE  Ids(q) = <<h>> \o Ids(r)
  <2>1. Head(q) \in Entry /\ Tail(q) \in Seq(Entry)
    OBVIOUS
  <2>2. QED
    BY <2>1 DEF Entry
<1>1. /\ Len(q) \in Nat \ {0} /\ Len(r) = Len(q) - 1
      /\ h = q[1].id /\ \A i \in 1..Len(r) : r[i] = q[i + 1]
  OBVIOUS
<1> DEFINE s == Ids(q)
           u == Ids(r)
           t == <<h>> \o u
<1>2. s \in Seq(Nat) /\ Len(s) = Len(q) /\ \A i \in 1..Len(q) : s[i] = q[i].id
  BY IdsTyped
<1>3. u \in Seq(Nat) /\ Len(u) = Len(q) - 1 /\ \A i \in 1..Len(u) : u[i] = q[i + 1].id
  BY <1>1, IdsTyped
<1> HIDE DEF s, u
<1>4. t \in Seq(Nat) /\ Len(t) = Len(u) + 1 /\ t[1] = h /\ \A i \in 1..Len(u) : t[i + 1] = u[i]
  BY <1>3, Cons
<1> HIDE DEF t
<1>5. ASSUME NEW i \in 1..Len(q) PROVE s[i] = t[i]
  <2>1. CASE i = 1
    BY <1>1, <1>2, <1>4, <2>1
  <2>2. CASE i # 1
    <3>1. i - 1 \in 1..Len(u) /\ (i - 1) + 1 = i
      BY <1>1, <1>3, <2>2
    <3>2. QED
      BY <1>2, <1>3, <1>4, <3>1
  <2>3. QED
    BY <2>1, <2>2
<1>6. s = t
  BY <1>1, <1>2, <1>3, <1>4, <1>5, SameSeq
<1>7. QED
  BY <1>6 DEF s, t, u

-----------------------------------------------------------------------------

\* What is pending, seen from the command in hand.
LEMMA PendingInHand ==
    ASSUME TypeOK, message.id # 0
    PROVE  /\ Fifo!CarryOut <=> done' = Append(done, message.id)
                                /\ (InHandId \o Ids(mqtt_queue))' = Ids(mqtt_queue) /\ arrived' = arrived
           /\ Fifo!LoseHead <=> (InHandId \o Ids(mqtt_queue))' = Ids(mqtt_queue)
                                /\ arrived' = arrived /\ done' = done
<1>1. message.id \in Nat /\ Ids(mqtt_queue) \in Seq(Nat)
  BY IdsTyped DEF TypeOK, Entry
<1>2. InHandId = <<message.id>>
  BY DEF InHandId
<1>3. /\ InHandId \o Ids(mqtt_queue) # <<>>
      /\ Head(InHandId \o Ids(mqtt_queue)) = message.id
      /\ Tail(InHandId \o Ids(mqtt_queue)) = Ids(mqtt_queue)
  BY <1>1, <1>2, Cons
<1>4. QED
  BY <1>3 DEF Fifo!CarryOut, Fifo!LoseHead

\* Nothing in hand any more: what waits is what is pending.
LEMMA PendingAfter ==
    ASSUME TypeOK, message' = Idle, mqtt_queue' = mqtt_queue
    PROVE  (InHandId \o Ids(mqtt_queue))' = Ids(mqtt_queue)
<1>1. InHandId' = <<>>
  BY DEF InHandId, Idle, Numbered
<1>2. Ids(mqtt_queue) \in Seq(Nat) /\ Ids(mqtt_queue)' = Ids(mqtt_queue)
  BY IdsTyped DEF TypeOK
<1>3. QED
  BY <1>1, <1>2, Cons

\* Every step of the command path is a step of the FIFO, or none of its.
LEMMA FifoStep == TypeOK /\ OrderInv /\ [Next]_vars => [Fifo!Next]_<<arrived, InHandId \o Ids(mqtt_queue), done>>
<1> SUFFICES ASSUME TypeOK, OrderInv, [Next]_vars
             PROVE  [Fifo!Next]_<<arrived, InHandId \o Ids(mqtt_queue), done>>
  OBVIOUS
<1> DEFINE pending == InHandId \o Ids(mqtt_queue)
<1>1. CASE UNCHANGED <<message, mqtt_queue, arrived, done>>
  BY <1>1 DEF InHandId, Ids
<1>2. ASSUME NEW c \in Command, Release(c)
      PROVE  Fifo!Next
  <2>1. UNCHANGED <<message, done>> /\ arrived' = arrived + 1
    BY <1>2 DEF Release
  <2>2. InHandId' = InHandId
    BY <2>1 DEF InHandId
  <2>3. CASE mqtt_queue' = mqtt_queue
    <3>1. Fifo!Refuse
      BY <2>1, <2>2, <2>3 DEF Fifo!Refuse, Ids
    <3>2. QED
      BY <3>1 DEF Fifo!Next
  <2>4. CASE mqtt_queue' = Append(mqtt_queue, Numbered(arrived', c))
    <3>1. arrived' \in Nat /\ Numbered(arrived', c) \in Entry /\ Numbered(arrived', c).id = arrived'
      BY <2>1 DEF TypeOK, Numbered, Entry
    <3>2. Ids(mqtt_queue)' = Append(Ids(mqtt_queue), arrived')
      BY <2>4, <3>1, IdsAppend DEF TypeOK
    <3>3. InHandId \in Seq(Nat) /\ Ids(mqtt_queue) \in Seq(Nat)
      <4>1. message.id \in Nat
        BY DEF TypeOK, Entry
      <4>2. <<>> \in Seq(Nat) /\ <<message.id>> \in Seq(Nat)
        BY <4>1
      <4>3. Ids(mqtt_queue) \in Seq(Nat)
        BY IdsTyped DEF TypeOK
      <4>4. QED
        BY <4>2, <4>3 DEF InHandId
    <3>4. pending' = Append(pending, arrived')
      BY <2>2, <3>1, <3>2, <3>3, ConcatAppend
    <3>5. Fifo!Accept
      BY <2>1, <3>4 DEF Fifo!Accept
    <3>6. QED
      BY <3>5 DEF Fifo!Next
  <2>5. QED
    BY <1>2, <2>3, <2>4 DEF Release
<1>3. CASE Take
  <2>1. /\ message.id = 0 /\ mqtt_queue # <<>> /\ message' = Head(mqtt_queue)
        /\ mqtt_queue' = Tail(mqtt_queue) /\ UNCHANGED <<arrived, done>>
    BY <1>3 DEF Take, OrderInv, InHand, histories
  <2>2. Head(mqtt_queue) = mqtt_queue[1] /\ 1 \in 1..Len(mqtt_queue)
    BY <2>1, TailSeq DEF TypeOK
  <2>3. message'.id # 0
    BY <2>1, <2>2 DEF OrderInv, InOrder, QueueInOrder
  <2>4. InHandId = <<>> /\ InHandId' = <<Head(mqtt_queue).id>>
    BY <2>1, <2>3 DEF InHandId
  <2>5. Ids(mqtt_queue) = <<Head(mqtt_queue).id>> \o Ids(mqtt_queue')
    BY <2>1, IdsOfHead DEF TypeOK
  <2>6. Ids(mqtt_queue) \in Seq(Nat) /\ 0 \in Nat
    BY IdsTyped DEF TypeOK
  <2>7. <<>> \o Ids(mqtt_queue) = Ids(mqtt_queue)
    BY <2>6, Cons
  <2>8. pending' = pending
    BY <2>4, <2>5, <2>7
  <2>9. QED
    BY <2>1, <2>8
<1>4. CASE LoopRound \/ SetSNConfirm
  <2>1. message.id # 0 /\ done' = Append(done, message.id)
        /\ message' = Idle /\ UNCHANGED <<mqtt_queue, arrived>>
    BY <1>4 DEF LoopRound, SetSNConfirm, OrderInv, InHand
  <2>2. Fifo!CarryOut
    BY <2>1, PendingAfter, PendingInHand
  <2>3. QED
    BY <2>2 DEF Fifo!Next
<1>5. CASE SetSNReturns
  <2>1. message.id # 0 /\ message' = Idle /\ UNCHANGED <<mqtt_queue, arrived, done>>
    BY <1>5 DEF SetSNReturns, OrderInv, InHand
  <2>2. Fifo!LoseHead
    BY <2>1, PendingAfter, PendingInHand
  <2>3. QED
    BY <2>2 DEF Fifo!Next
<1>6. CASE Restart
  <2>1. pending' = <<>>
    <3>1. InHandId' = <<>>
      BY <1>6 DEF Restart, InHandId, Idle, Numbered
    <3>2. Ids(mqtt_queue)' = <<>>
      BY <1>6 DEF Restart, Ids
    <3>3. QED
      BY <3>1, <3>2
  <2>2. Fifo!LoseAll
    BY <1>6, <2>1 DEF Restart, Fifo!LoseAll
  <2>3. QED
    BY <2>2 DEF Fifo!Next
<1>7. ASSUME \/ MainStep \/ SessionUp \/ SessionDown \/ Dispatch \/ Announce \/ Reply
             \/ SetSNWrite \/ LookUp \/ UNCHANGED vars
      PROVE  UNCHANGED <<message, mqtt_queue, arrived, done>>
  BY <1>7 DEF MainStep, CreateTasks, CreateQueue, GoOffline, SessionUp, SessionDown, Dispatch,
              Announce, Reply, SetSNWrite, LookUp, vars, histories
<1>8. QED
  BY <1>1, <1>2, <1>3, <1>4, <1>5, <1>6, <1>7, CommandsAssumption, ButtonSendsACommand
  DEF Next, PublisherStep, messageArrived, ShortPress, PowerReset, Fault, PowerLoss

\* Refinement: whatever the queue holds, whichever commands come and however
\* often the power fails, the command path accepts, refuses, carries out and
\* loses commands as LossyFifo does, and does nothing else to them
\* (mqtt.c:65, 239, 340, button.c:94).
THEOREM PathIsAFifo == Spec => IsLossyFifo
<1>1. Init => Fifo!Init
  BY DEF Init, Fifo!Init, InHandId, Ids, Idle, Numbered
<1>2. QED
  BY <1>1, FifoStep, TypeCorrect, OrderInvariant, PTL DEF Spec, IsLossyFifo, Fifo!Spec

\* A command is lost only by a restart, by the return of the thread, at a
\* full queue or before there is one (mqtt.c:239, 296-305, 373-377).
THEOREM LossesHaveCauses == Spec => LossHasCause
<1> DEFINE Cause == \/ main' = "boot"
                    \/ publisher' = "dead" /\ publisher # "dead"
                    \/ Len(mqtt_queue) = QueueLen
                    \/ main # "up"
<1>1. TypeOK /\ [Next]_vars => [lost' # lost => Cause]_vars
  <2> SUFFICES ASSUME TypeOK, Next, lost' # lost
               PROVE  Cause
    OBVIOUS
  <2>1. ASSUME NEW c \in Command, Release(c)
        PROVE  Cause
    <3>1. main # "up" \/ ~(Len(mqtt_queue) < QueueLen)
      BY <2>1 DEF Release
    <3>2. Len(mqtt_queue) \in Nat /\ Len(mqtt_queue) <= QueueLen /\ QueueLen \in Nat
      BY QueueAssumption DEF TypeOK
    <3>3. QED
      BY <3>1, <3>2
  <2>2. CASE SetSNReturns
    BY <2>2 DEF SetSNReturns
  <2>3. CASE Restart
    BY <2>3 DEF Restart
  <2>4. QED
    BY <2>1, <2>2, <2>3, CommandsAssumption, ButtonSendsACommand
    DEF Next, MainStep, CreateTasks, CreateQueue, GoOffline, SessionUp, SessionDown,
        PublisherStep, Take, Dispatch, LoopRound, Announce, Reply, SetSNWrite, SetSNConfirm,
        LookUp, messageArrived, ShortPress, PowerReset, Fault, PowerLoss, histories
<1>2. QED
  BY <1>1, TypeCorrect, PTL DEF Spec, LossHasCause

=============================================================================
