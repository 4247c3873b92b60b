--------------------------- MODULE Delivery_proofs ---------------------------
(* At QoS 1 the service loop implements Delivery: the invariant that makes  *)
(* a message new to msgQueue when it is put there, and the simulation.      *)
EXTENDS AgentCycle_proofs

Distinct(q) == \A i, j \in 1..Len(q) : q[i] = q[j] => i = j

(* A connection delivers a message once: what the client still holds of it  *)
(* is neither twice in inbound nor on msgQueue, and the broker still owes   *)
(* it; a message is acknowledged, if it can be, as it is put on msgQueue.   *)
InboundFresh(c) ==
    /\ Distinct(inbound[c])
    /\ Contents(inbound[c]) \cap Contents(queue) = {}
    /\ \A m \in Contents(inbound[c]) :
         broker[m] # "settled" /\ (link = "up" => broker[m] = "inflight")

QueueFresh ==
    /\ Distinct(queue)
    /\ link = "up" => \A m \in Contents(queue) : broker[m] = "settled"

FreshInv ==
    /\ \A c \in Cycles : c = cycle => InboundFresh(c)
    /\ QueueFresh
    /\ phase = "connect" =>
         queue = <<>> /\ \A c \in Cycles : c = cycle => inbound[c] = <<>>
-----------------------------------------------------------------------------
LEMMA ContentsOfEmpty == Contents(<<>>) = {} /\ Distinct(<<>>)
BY DEF Contents, Distinct

(* A send of a message that is not on the queue repeats none.               *)
LEMMA DistinctAppend ==
  ASSUME NEW q \in Seq(Messages), NEW m \in Messages, Distinct(q), m \notin Contents(q)
  PROVE  Distinct(Append(q, m))
<1> DEFINE r == Append(q, m)
<1>1. Len(q) \in Nat /\ Len(r) = Len(q) + 1
  OBVIOUS
<1>2. \A i \in 1..Len(q) : r[i] = q[i] /\ r[i] # m
  BY DEF Contents
<1>3. r[Len(q) + 1] = m
  OBVIOUS
<1>4. \A i \in 1..Len(r) : i \in 1..Len(q) \/ i = Len(q) + 1
  BY <1>1
<1> HIDE DEF r
<1>5. Distinct(r)
  BY <1>1, <1>2, <1>3, <1>4 DEF Distinct
<1> QED BY <1>5 DEF r

(* The head of a queue without repetitions is not left in its tail.         *)
LEMMA DistinctTail ==
  ASSUME NEW q \in Seq(Messages), q # <<>>, Distinct(q)
  PROVE  /\ Distinct(Tail(q))
         /\ Contents(Tail(q)) = Contents(q) \ {Head(q)}
<1>1. Len(q) \in Nat \ {0} /\ Head(q) = q[1] /\ Len(Tail(q)) = Len(q) - 1
  OBVIOUS
<1>2. \A i \in 1..Len(Tail(q)) : Tail(q)[i] = q[i + 1] /\ i + 1 \in 1..Len(q) /\ i + 1 # 1
  OBVIOUS
<1>3. Distinct(Tail(q))
  <2> SUFFICES ASSUME NEW i \in 1..Len(Tail(q)), NEW j \in 1..Len(Tail(q)),
                      Tail(q)[i] = Tail(q)[j]
               PROVE  i = j
    BY DEF Distinct
  <2>1. i + 1 = j + 1 BY <1>2 DEF Distinct
  <2> QED BY <2>1
<1>4. Head(q) \notin Contents(Tail(q))
  <2> SUFFICES ASSUME NEW i \in 1..Len(Tail(q)), Tail(q)[i] = Head(q) PROVE FALSE
    BY DEF Contents
  <2>1. 1 \in 1..Len(q) BY <1>1
  <2> QED BY <1>1, <1>2, <2>1 DEF Distinct
<1> QED BY <1>3, <1>4, ContentsOfTail
-----------------------------------------------------------------------------
(* What the other steps leave alone: the messages, the connection that      *)
(* carries them and the history of what became of them.                     *)
Untouched ==
    /\ UNCHANGED <<queue, inbound, broker, cycle, link, started, dropped, abandoned>>
    /\ phase' = "connect" => phase = "connect"

(* The steps that do touch them.                                            *)
Touches ==
    \/ StartCycle \/ ConnectCompleted \/ Disconnect \/ ConnectionLost \/ JoinWorkers
    \/ \E c \in Cycles : Enqueue(c) \/ Drop(c) \/ DropReturns(c) \/ InboundDiscarded(c)
    \/ \E w \in Workers : Take(w)
    \/ \E m \in Messages : Deliver(m)

(* Every step is one of those or leaves the messages alone.                 *)
LEMMA MessageSteps == [Next]_vars => Untouched \/ Touches
<1> SUFFICES ASSUME [Next]_vars, ~Touches PROVE Untouched
  OBVIOUS
<1> USE DEF Untouched, mainVars, linkVars, poolVars, inVars, history
<1>1. CASE Main
  BY <1>1 DEF Touches, Main, SkipWait, WaitStopped, WaitElapsed, ConnectFailed,
    ConnectInterrupted, PublishProperties, SubscribeCompleted, SubscribeFailed,
    SubscribeInterrupted, OnlineStopped, OnlineLost, OnlineRenew, ReturnFrom, Drain,
    Unsubscribe, Quiesced, CancelCycle, CloseQueue
<1>2. CASE Environment
  BY <1>2 DEF Touches, Environment, RequestStop, BrokerSubscribes, SubackArrives, NotifyLost
<1>3. ASSUME NEW c \in Cycles, Callback(c) PROVE Untouched
  BY <1>3 DEF Touches, Callback, Dispatch, SendOnClosed
<1>4. ASSUME NEW w \in Workers, Worker(w) PROVE Untouched
  BY <1>4 DEF Touches, Worker, Finish, Exit
<1>5. CASE UNCHANGED vars
  BY <1>5 DEF vars
<1> QED BY <1>1, <1>2, <1>3, <1>4, <1>5 DEF Next, Over

(* The message of a running callback.                                       *)
LEMMA HeadOfInbound ==
  ASSUME TypeOK, CallbackInv, NEW c \in Cycles, callback[c] # "idle"
  PROVE  /\ c <= cycle /\ inbound[c] # <<>> /\ inbound[c] \in Seq(Messages)
         /\ Head(inbound[c]) \in Messages /\ Head(inbound[c]) \in Contents(inbound[c])
<1>1. c <= cycle /\ inbound[c] # <<>> /\ inbound[c] \in Seq(Messages)
  BY DEF TypeOK, CallbackInv
<1>2. Head(inbound[c]) \in Messages
  BY <1>1
<1>3. Head(inbound[c]) \in Contents(inbound[c])
  BY <1>1, ContentsOfTail
<1> QED BY <1>1, <1>2, <1>3
-----------------------------------------------------------------------------
(* The agent acknowledges or queues the head of inbound: what is left of    *)
(* inbound is as fresh as before.                                           *)
LEMMA SettleKeepsFresh ==
  ASSUME TypeOK, CallbackInv, FreshInv, NEW c \in Cycles, callback[c] # "idle",
         Settle(c), cycle' = cycle, link' = link,
         Contents(queue') \subseteq Contents(queue) \cup {Head(inbound[c])},
         c = cycle \/ queue' = queue
  PROVE  \A d \in Cycles : d = cycle' => InboundFresh(d)'
<1> SUFFICES ASSUME NEW d \in Cycles, d = cycle PROVE InboundFresh(d)'
  BY DEF FreshInv
<1>1. InboundFresh(d) /\ inbound[d] \in Seq(Messages)
  BY DEF FreshInv, TypeOK
<1>2. CASE d = c
  <2>1. inbound'[d] = Tail(inbound[d])
    BY <1>2 DEF Settle, TypeOK
  <2>2. Distinct(inbound'[d]) /\ Contents(inbound'[d]) = Contents(inbound[d]) \ {Head(inbound[d])}
    BY <1>1, <1>2, <2>1, HeadOfInbound, DistinctTail DEF InboundFresh
  <2>3. \A m \in Contents(inbound'[d]) : broker'[m] = broker[m]
    BY <1>2, <2>2 DEF Settle, TypeOK
  <2> QED BY <1>1, <1>2, <2>2, <2>3 DEF InboundFresh
<1>3. CASE d # c
  <2>1. inbound'[d] = inbound[d] /\ broker' = broker
    BY <1>3 DEF Settle, TypeOK
  <2> QED BY <1>1, <1>3, <2>1 DEF InboundFresh
<1> QED BY <1>2, <1>3

(* Every step keeps the messages fresh, at QoS 1.                           *)
LEMMA FreshStep ==
  ASSUME QoS = 1, IInv, FreshInv, [Next]_vars
  PROVE  FreshInv'
<1> USE DEF mainVars, linkVars, poolVars, inVars, history
<1>1. TypeOK /\ CycleInv /\ CallbackInv /\ PoolInv
  BY DEF IInv
<1>2. CASE Untouched
  BY <1>2 DEF Untouched, FreshInv, InboundFresh, QueueFresh
<1>3. CASE StartCycle
  <2>1. queue' = <<>> /\ inbound' = inbound /\ cycle' = cycle + 1 /\ cycle \in Nat
    BY <1>1, <1>3 DEF StartCycle, TypeOK
  <2>2. \A c \in Cycles : c = cycle' => inbound'[c] = <<>>
    BY <1>1, <2>1 DEF CallbackInv, Cycles
  <2> QED BY <2>1, <2>2, ContentsOfEmpty DEF FreshInv, InboundFresh, QueueFresh
<1>4. CASE ConnectCompleted
  <2>1. /\ UNCHANGED <<queue, inbound, cycle, broker>> /\ phase' = "publish"
        /\ queue = <<>> /\ \A c \in Cycles : c = cycle => inbound[c] = <<>>
    BY <1>4 DEF ConnectCompleted, FreshInv
  <2> QED BY <2>1, ContentsOfEmpty DEF FreshInv, InboundFresh, QueueFresh
<1>5. CASE Disconnect \/ ConnectionLost
  <2>1. /\ UNCHANGED <<queue, inbound, cycle>> /\ link' # "up"
        /\ phase' = "connect" => phase = "connect"
    BY <1>5 DEF Disconnect, ConnectionLost
  <2>2. \A m \in Messages : broker[m] # "settled" => broker'[m] # "settled"
    BY <1>5 DEF Disconnect, ConnectionLost, Requeue
  <2>3. \A c \in Cycles : Contents(inbound[c]) \subseteq Messages
    BY <1>1 DEF Contents, TypeOK
  <2> QED BY <2>1, <2>2, <2>3 DEF FreshInv, InboundFresh, QueueFresh
<1>6. CASE JoinWorkers
  BY <1>6, ContentsOfEmpty DEF JoinWorkers, FreshInv, InboundFresh, QueueFresh
<1>7. ASSUME NEW c \in Cycles, Enqueue(c) PROVE FreshInv'
  <2> DEFINE h == Head(inbound[c])
  <2>1. c = cycle /\ callback[c] # "idle"
    BY <1>1, <1>7, HeadOfInbound DEF Enqueue, Closed, TypeOK, Cycles
  <2>2. /\ h \in Messages /\ h \in Contents(inbound[c]) /\ queue \in Seq(Messages)
        /\ h \notin Contents(queue)
    BY <1>1, <2>1, HeadOfInbound DEF TypeOK, FreshInv, InboundFresh
  <2>3. queue' = Append(queue, h) /\ Contents(queue') = Contents(queue) \cup {h}
    BY <1>7, <2>2, ContentsOfAppend DEF Enqueue
  <2>4. UNCHANGED <<cycle, link, phase>> /\ Settle(c)
    BY <1>7 DEF Enqueue
  <2>5. \A d \in Cycles : d = cycle' => InboundFresh(d)'
    BY <1>1, <2>1, <2>3, <2>4, SettleKeepsFresh
  <2>6. Distinct(queue')
    BY <2>2, <2>3, DistinctAppend DEF FreshInv, QueueFresh
  <2>7. link = "up" => \A m \in Contents(queue') : broker'[m] = "settled"
    BY <1>1, <2>1, <2>2, <2>3, <2>4 DEF Settle, TypeOK, FreshInv, QueueFresh
  <2>8. phase # "connect"
    BY <1>1, <2>1, HeadOfInbound DEF FreshInv
  <2> QED BY <2>4, <2>5, <2>6, <2>7, <2>8 DEF FreshInv, QueueFresh
<1>8. ASSUME NEW c \in Cycles, Drop(c) PROVE FreshInv'
  BY <1>8 DEF Drop, FreshInv, InboundFresh, QueueFresh
<1>9. ASSUME NEW c \in Cycles, DropReturns(c) PROVE FreshInv'
  <2>1. UNCHANGED <<cycle, link, phase, queue>> /\ Settle(c) /\ callback[c] # "idle"
    BY <1>9 DEF DropReturns
  <2>2. \A d \in Cycles : d = cycle' => InboundFresh(d)'
    BY <1>1, <2>1, SettleKeepsFresh
  <2>3. \A m \in Messages : broker[m] = "settled" => broker'[m] = "settled"
    BY <1>1, <2>1 DEF Settle, TypeOK
  <2>4. Contents(queue) \subseteq Messages
    BY <1>1 DEF Contents, TypeOK
  <2>5. phase = "connect" => \A d \in Cycles : d = cycle => inbound'[d] = <<>>
    <3> SUFFICES ASSUME phase = "connect", NEW d \in Cycles, d = cycle
                 PROVE  inbound'[d] = <<>>
      OBVIOUS
    <3>1. inbound[d] = <<>> BY DEF FreshInv
    <3>2. d # c BY <1>1, <2>1, <3>1, HeadOfInbound
    <3> QED BY <1>1, <2>1, <3>1, <3>2 DEF Settle, TypeOK
  <2> QED BY <2>1, <2>2, <2>3, <2>4, <2>5 DEF FreshInv, QueueFresh
<1>10. ASSUME NEW c \in Cycles, InboundDiscarded(c) PROVE FreshInv'
  <2>1. UNCHANGED <<cycle, link, phase, queue, broker>>
    BY <1>10 DEF InboundDiscarded
  <2>2. \A d \in Cycles : inbound'[d] = inbound[d] \/ inbound'[d] = <<>>
    BY <1>1, <1>10 DEF InboundDiscarded, TypeOK
  <2> QED BY <2>1, <2>2, ContentsOfEmpty DEF FreshInv, InboundFresh, QueueFresh
<1>11. ASSUME NEW w \in Workers, Take(w) PROVE FreshInv'
  <2>1. /\ UNCHANGED <<cycle, link, phase, inbound, broker>>
        /\ queue # <<>> /\ queue' = Tail(queue) /\ queue \in Seq(Messages)
    BY <1>1, <1>11 DEF Take, TypeOK
  <2>2. Distinct(queue') /\ Contents(queue') \subseteq Contents(queue)
    BY <2>1, DistinctTail DEF FreshInv, QueueFresh
  <2> QED BY <2>1, <2>2 DEF FreshInv, InboundFresh, QueueFresh
<1>12. ASSUME NEW m \in Messages, Deliver(m) PROVE FreshInv'
  <2>1. /\ UNCHANGED <<cycle, link, phase, queue>> /\ link = "up"
        /\ cycle \in Cycles /\ phase # "connect" /\ broker[m] = "queued"
    BY <1>1, <1>12 DEF Deliver, CycleInv, Connected, TypeOK, Cycles
  <2>2. /\ inbound'[cycle] = Append(inbound[cycle], m) /\ inbound[cycle] \in Seq(Messages)
        /\ broker' = [broker EXCEPT ![m] = "inflight"]
    BY <1>1, <1>12, <2>1 DEF Deliver, TypeOK
  <2>3. m \notin Contents(inbound[cycle]) /\ m \notin Contents(queue)
    BY <2>1 DEF FreshInv, InboundFresh, QueueFresh
  <2>4. Contents(inbound'[cycle]) = Contents(inbound[cycle]) \cup {m}
    BY <2>2, ContentsOfAppend
  <2>5. Distinct(inbound'[cycle])
    BY <2>1, <2>2, <2>3, DistinctAppend DEF FreshInv, InboundFresh
  <2>6. InboundFresh(cycle)'
    BY <1>1, <2>1, <2>2, <2>3, <2>4, <2>5 DEF FreshInv, InboundFresh, TypeOK
  <2>7. QueueFresh'
    BY <1>1, <2>1, <2>2, <2>3 DEF FreshInv, QueueFresh, TypeOK
  <2> QED BY <2>1, <2>6, <2>7 DEF FreshInv
<1> QED
  BY <1>2, <1>3, <1>4, <1>5, <1>6, <1>7, <1>8, <1>9, <1>10, <1>11, <1>12, MessageSteps
  DEF Touches

(* At QoS 1 no message is put on msgQueue of a connection that already      *)
(* carried it there.                                                        *)
THEOREM AlwaysFresh == QoS = 1 => (Spec => []FreshInv)
<1> SUFFICES ASSUME QoS = 1 PROVE Spec => []FreshInv
  OBVIOUS
<1>1. Init => FreshInv
  BY ContentsOfEmpty DEF Init, FreshInv, InboundFresh, QueueFresh
<1>2. IInv /\ FreshInv /\ [Next]_vars => FreshInv'
  BY FreshStep
<1> QED BY <1>1, <1>2, Invariance, PTL DEF Spec
-----------------------------------------------------------------------------
(* The state of Delivery that a state of the loop stands for.               *)
Owed == {m \in Messages : broker[m] # "settled"}
Lost == dropped \cup abandoned

(* The four variables of Delivery are left alone.                           *)
Unseen == Owed' = Owed /\ Contents(queue)' = Contents(queue) /\ started' = started /\ Lost' = Lost

(* The initial states are those of Delivery.                                *)
LEMMA DeliveryInit == Init => Promise!Init
<1> SUFFICES ASSUME Init PROVE Promise!Init
  OBVIOUS
<1>1. Contents(queue) = {} /\ {m \in Messages : broker[m] # "settled"} = Messages
  BY ContentsOfEmpty DEF Init
<1> QED BY <1>1 DEF Init, Promise!Init

(* The send on msgQueue accepts the command; the acknowledgement releases   *)
(* the broker from it if the connection is still up.                        *)
LEMMA EnqueueAccepts ==
  ASSUME QoS = 1, IInv, FreshInv, NEW c \in Cycles, Enqueue(c)
  PROVE  \E m \in Messages : Promise!Accept(m)
<1> USE DEF mainVars, linkVars, poolVars, inVars, history
<1> DEFINE h == Head(inbound[c])
<1>1. TypeOK /\ CallbackInv /\ c = cycle /\ callback[c] # "idle"
  BY HeadOfInbound DEF IInv, Enqueue, Closed, TypeOK, Cycles
<1>2. h \in Messages /\ h \in Contents(inbound[c]) /\ queue \in Seq(Messages)
  BY <1>1, HeadOfInbound DEF TypeOK
<1>3. h \in Owed \ Contents(queue)
  BY <1>1, <1>2 DEF FreshInv, InboundFresh, Owed
<1>4. Contents(queue') = Contents(queue) \cup {h}
  BY <1>2, ContentsOfAppend DEF Enqueue
<1>5. Owed' \in {Owed, Owed \ {h}}
  <2>1. broker' = broker \/ broker' = [broker EXCEPT ![h] = "settled"]
    BY DEF Enqueue, Settle
  <2>2. CASE broker' = broker
    BY <2>2 DEF Owed
  <2>3. CASE broker' = [broker EXCEPT ![h] = "settled"]
    <3>1. Owed' = Owed \ {h}
      BY <1>1, <2>3 DEF Owed, TypeOK
    <3> QED BY <3>1
  <2> QED BY <2>1, <2>2, <2>3
<1>6. UNCHANGED <<started, dropped, abandoned>>
  BY DEF Enqueue
<1> QED BY <1>2, <1>3, <1>4, <1>5, <1>6 DEF Promise!Accept, Owed

(* The return of a callback that dropped releases the broker, or nobody     *)
(* sees it.                                                                 *)
LEMMA DropReleases ==
  ASSUME IInv, NEW c \in Cycles, DropReturns(c)
  PROVE  Unseen \/ \E m \in Messages : Promise!Release(m)
<1> USE DEF mainVars, linkVars, poolVars, inVars, history
<1> DEFINE h == Head(inbound[c])
<1>1. TypeOK /\ CallbackInv
  BY DEF IInv
<1>2. h \in Messages /\ h \in dropped
  BY <1>1, HeadOfInbound DEF DropReturns, CallbackInv
<1>3. UNCHANGED <<queue, started, dropped, abandoned>>
  BY DEF DropReturns
<1>4. CASE broker' = broker
  BY <1>3, <1>4 DEF Unseen, Owed, Lost
<1>5. CASE broker' = [broker EXCEPT ![h] = "settled"]
  <2>1. Owed' = Owed \ {h}
    BY <1>1, <1>5 DEF Owed, TypeOK
  <2> QED BY <1>2, <1>3, <2>1 DEF Promise!Release, Owed
<1> QED BY <1>4, <1>5 DEF DropReturns, Settle

(* A worker's receive runs the command.                                     *)
LEMMA TakeRuns ==
  ASSUME IInv, FreshInv, NEW w \in Workers, Take(w)
  PROVE  \E m \in Messages : Promise!Run(m)
<1> USE DEF mainVars, linkVars, poolVars, inVars, history
<1>1. queue \in Seq(Messages) /\ queue # <<>> /\ queue' = Tail(queue)
  BY DEF IInv, TypeOK, Take
<1>2. Head(queue) \in Contents(queue) /\ Contents(queue') = Contents(queue) \ {Head(queue)}
  BY <1>1, ContentsOfTail, DistinctTail DEF FreshInv, QueueFresh
<1>3. started' = started \cup {Head(queue)} /\ UNCHANGED <<broker, dropped, abandoned>>
  BY DEF Take
<1> QED BY <1>1, <1>2, <1>3 DEF Promise!Run

(* Every step of the loop at QoS 1 is a step of Delivery or leaves its      *)
(* variables alone.                                                         *)
LEMMA DeliveryStep ==
  ASSUME QoS = 1, IInv, FreshInv, [Next]_vars
  PROVE  [Promise!Next]_(Promise!vars)
<1> USE DEF mainVars, linkVars, poolVars, inVars, history
<1>1. TypeOK /\ CallbackInv /\ PoolInv
  BY DEF IInv
<1>2. SUFFICES Promise!Next \/ Unseen
  BY DEF Unseen, Owed, Lost, Promise!vars
<1>3. CASE Untouched
  BY <1>3 DEF Untouched, Unseen, Owed, Lost
<1>4. CASE StartCycle
  BY <1>1, <1>4 DEF StartCycle, PoolInv, Between, Unseen, Owed, Lost
<1>5. CASE ConnectCompleted
  BY <1>5 DEF ConnectCompleted, Unseen, Owed, Lost
<1>6. CASE Disconnect \/ ConnectionLost
  <2>1. Owed' = Owed
    BY <1>6 DEF Disconnect, ConnectionLost, Requeue, Owed
  <2> QED BY <1>6, <2>1 DEF Disconnect, ConnectionLost, Unseen, Lost
<1>7. CASE JoinWorkers
  <2>1. Promise!EndCycle
    BY <1>7, ContentsOfEmpty DEF JoinWorkers, Promise!EndCycle
  <2> QED BY <2>1 DEF Promise!Next
<1>8. ASSUME NEW c \in Cycles, Enqueue(c) PROVE Promise!Next
  <2>1. \E m \in Messages : Promise!Accept(m)
    BY <1>8, EnqueueAccepts
  <2> QED BY <2>1 DEF Promise!Next
<1>9. ASSUME NEW c \in Cycles, Drop(c) PROVE Promise!Next
  <2>1. Head(inbound[c]) \in Messages
    BY <1>1, <1>9, HeadOfInbound DEF Drop
  <2>2. /\ UNCHANGED <<broker, queue, started, abandoned>>
        /\ dropped' = dropped \cup {Head(inbound[c])}
    BY <1>9 DEF Drop
  <2>3. Promise!Drop(Head(inbound[c]))
    BY <2>2 DEF Promise!Drop
  <2> QED BY <2>1, <2>3 DEF Promise!Next
<1>10. ASSUME NEW c \in Cycles, DropReturns(c) PROVE Promise!Next \/ Unseen
  <2>1. Unseen \/ \E m \in Messages : Promise!Release(m)
    BY <1>10, DropReleases
  <2> QED BY <2>1 DEF Promise!Next
<1>11. ASSUME NEW c \in Cycles, InboundDiscarded(c) PROVE Unseen
  BY <1>11 DEF InboundDiscarded, Unseen, Owed, Lost
<1>12. ASSUME NEW w \in Workers, Take(w) PROVE Promise!Next
  <2>1. \E m \in Messages : Promise!Run(m)
    BY <1>12, TakeRuns
  <2> QED BY <2>1 DEF Promise!Next
<1>13. ASSUME NEW m \in Messages, Deliver(m) PROVE Unseen
  <2>1. broker[m] = "queued" /\ broker' = [broker EXCEPT ![m] = "inflight"]
    BY <1>13 DEF Deliver
  <2>2. Owed' = Owed
    BY <1>1, <2>1 DEF Owed, TypeOK
  <2> QED BY <1>13, <2>2 DEF Deliver, Unseen, Lost
<1> QED
  BY <1>3, <1>4, <1>5, <1>6, <1>7, <1>8, <1>9, <1>10, <1>11, <1>12, <1>13, MessageSteps
  DEF Touches

(* At QoS 1 the service loop implements Delivery, for every number of       *)
(* messages, workers and cycles, every capacity of msgQueue, and whether    *)
(* Disconnect waits for the callback or not: enqueueMessage's               *)
(* acknowledgement releases the broker only from a message that was queued  *)
(* or counted, and a message is not queued again once released.             *)
THEOREM DeliveryImplemented == QoS = 1 => (Spec => ImplementsDelivery)
<1> SUFFICES ASSUME QoS = 1 PROVE Spec => ImplementsDelivery
  OBVIOUS
<1>1. IInv /\ FreshInv /\ [Next]_vars => [Promise!Next]_(Promise!vars)
  BY DeliveryStep
<1>2. Spec => []FreshInv
  BY AlwaysFresh
<1> QED
  BY <1>1, <1>2, DeliveryInit, Invariance, PTL DEF Spec, ImplementsDelivery, Promise!Spec
=============================================================================
