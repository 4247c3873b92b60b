-------------------------- MODULE AgentCycle_proofs --------------------------
(* The inductive invariant of AgentCycle and the theorems that follow.     *)
EXTENDS AgentCycle, TLAPS

InCycle == phase \in BeforeDrain \cup Teardown
Between == phase \in {"loop", "start", "exited"}

Connected ==
    {"publish", "subscribe", "online", "drain", "unsubscribe", "disconnect", "crashed"}

(* Which cycle runs, and that the bound on cycles is kept.                 *)
CycleInv ==
    /\ InCycle => cycle >= 1
    /\ phase = "start" => cycle < MaxCycles
    /\ failures <= cycle
    /\ InCycle => failures < cycle
    /\ stopCycle <= cycle
    /\ link # "down" => cycle >= 1 /\ phase \in Connected
    /\ brokerSub => cycle >= 1

(* The reconnect wait has a timeout from the first cycle on, and grows;    *)
(* only a cycle that has subscribed clears it.                             *)
RungInv ==
    /\ ret.clear => subscribed
    /\ phase = "online" => subscribed
    /\ InCycle => rung >= 1
    /\ InCycle => rung >= failures + 1 \/ rung = MaxRung
    /\ (Between /\ cycle >= 1) => rung >= 1
    /\ (Between /\ cycle >= 1) => (rung >= failures \/ rung = MaxRung)

(* A cycle that starts after the stop request is the only one.             *)
StopInv ==
    /\ stopped => cycle <= stopCycle + 1
    /\ (stopped /\ phase = "start") => cycle <= stopCycle

(* A callback that runs has its message at the head of inbound, and only   *)
(* connections that were opened have messages.  A message that is being     *)
(* dropped is counted, and its cycle is in its teardown.                   *)
CallbackInv ==
    \A c \in Cycles :
        /\ callback[c] # "idle" => inbound[c] # <<>>
        /\ inbound[c] # <<>> => c <= cycle
        /\ callback[c] = "notifying" => Head(inbound[c]) \in dropped /\ Draining(c)

(* Between two cycles the pool is gone and the queue is closed and empty.  *)
PoolInv ==
    /\ Between => \A w \in Workers : worker[w] = "gone"
    /\ Between => queue = <<>>
    /\ (Between /\ cycle >= 1) => closed
    /\ phase = "join" => closed
    /\ closed => phase \in {"join", "loop", "start", "exited", "crashed"}

(* When Disconnect waits for the dispatch goroutine: nothing is left of a  *)
(* connection once it returned.                                            *)
QuietInv ==
    ~QuiesceBounded =>
        /\ phase # "crashed"
        /\ \A c \in Cycles :
             c < cycle \/ phase \in {"cancel", "close", "join", "loop", "start", "exited"}
                => callback[c] = "idle" /\ inbound[c] = <<>>

(* The inductive invariant.                                                *)
IInv ==
    /\ TypeOK /\ CycleInv /\ RungInv /\ StopInv
    /\ CallbackInv /\ PoolInv /\ QuietInv /\ LossAccounted
-----------------------------------------------------------------------------
(* The assumptions on the constants that the steps below use.              *)
LEMMA Params ==
    /\ MaxCycles \in Nat \ {0} /\ MaxRung \in Nat \ {0}
    /\ QueueSize \in Nat \ {0} /\ InboundSize \in Nat \ {0}
    /\ QoS \in {0, 1} /\ QuiesceBounded \in BOOLEAN
BY SizesAssumption, ModesAssumption

(* What msgQueue holds after a send.                                       *)
LEMMA ContentsOfAppend ==
  ASSUME NEW q \in Seq(Messages), NEW m \in Messages
  PROVE  Contents(Append(q, m)) = Contents(q) \cup {m}
BY DEF Contents

(* A queue is not empty after a send.                                     *)
LEMMA AppendNotEmpty ==
  ASSUME NEW q \in Seq(Messages), NEW m \in Messages
  PROVE  Append(q, m) # <<>>
<1>1. Len(Append(q, m)) = Len(q) + 1 /\ Len(q) \in Nat
  OBVIOUS
<1> QED BY <1>1

(* The head leaves msgQueue with the receive, the rest stays.              *)
LEMMA ContentsOfTail ==
  ASSUME NEW q \in Seq(Messages), q # <<>>
  PROVE  Contents(q) = Contents(Tail(q)) \cup {Head(q)}
<1>1. Len(q) \in Nat \ {0} /\ Head(q) = q[1]
  OBVIOUS
<1>2. \A i \in 1..Len(Tail(q)) : Tail(q)[i] = q[i + 1]
  OBVIOUS
<1>3. Len(Tail(q)) = Len(q) - 1
  OBVIOUS
<1>4. ASSUME NEW i \in 1..Len(q) PROVE q[i] \in Contents(Tail(q)) \cup {Head(q)}
  <2>1. CASE i = 1 BY <1>1, <2>1
  <2>2. CASE i # 1
    <3>1. i - 1 \in 1..Len(Tail(q)) /\ (i - 1) + 1 = i BY <1>1, <1>3, <2>2
    <3> QED BY <1>2, <3>1 DEF Contents
  <2> QED BY <2>1, <2>2
<1>5. ASSUME NEW i \in 1..Len(Tail(q)) PROVE Tail(q)[i] \in Contents(q)
  <2>1. i + 1 \in 1..Len(q) BY <1>1, <1>3
  <2> QED BY <1>2, <2>1 DEF Contents
<1> QED BY <1>1, <1>4, <1>5 DEF Contents
-----------------------------------------------------------------------------
(* Every step keeps the types.  The message of a callback is the head of    *)
(* inbound, and the bound on cycles holds where a cycle starts.            *)
LEMMA TypeStep ==
  ASSUME TypeOK, CycleInv, CallbackInv, [Next]_vars
  PROVE  TypeOK'
<1> USE Params DEF TypeOK, CycleInv, CallbackInv, Connected, Draining, InCycle,
    Between, Phases, BeforeDrain, Teardown, Ended, Running, Cycles, vars,
    mainVars, linkVars, poolVars, inVars, history
<1>1. CASE SkipWait BY <1>1 DEF SkipWait
<1>2. CASE WaitStopped BY <1>2 DEF WaitStopped
<1>3. CASE WaitElapsed BY <1>3 DEF WaitElapsed
<1>4. CASE StartCycle
  <2>1. phase' \in Phases BY <1>4 DEF StartCycle
  <2>6. cycle' \in 0..MaxCycles
    <3>1. cycle < MaxCycles /\ cycle' = cycle + 1 BY <1>4 DEF StartCycle
    <3> QED BY <3>1
  <2>2. ret' \in [exit : BOOLEAN, clear : BOOLEAN]
    <3>1. \/ ret' = [exit |-> FALSE, clear |-> FALSE]
          \/ ret' = [exit |-> TRUE, clear |-> FALSE]
      BY <1>4 DEF StartCycle
    <3>2. CASE ret' = [exit |-> FALSE, clear |-> FALSE] BY <3>2
    <3>3. CASE ret' = [exit |-> TRUE, clear |-> FALSE] BY <3>3
    <3> QED BY <3>1, <3>2, <3>3
  <2>3. rung' \in 0..MaxRung BY <1>4 DEF StartCycle, NextRung
  <2>4. worker' \in [Workers -> {"idle", "busy", "gone"}] BY <1>4 DEF StartCycle
  <2>5. queue' \in Seq(Messages) /\ Len(queue') <= QueueSize
    BY <1>4 DEF StartCycle
  <2> QED BY <1>4, <2>1, <2>2, <2>3, <2>4, <2>5, <2>6 DEF StartCycle
<1>5. CASE ConnectCompleted BY <1>5 DEF ConnectCompleted
<1>6. CASE ConnectFailed BY <1>6 DEF ConnectFailed, ReturnFrom
<1>7. CASE ConnectInterrupted BY <1>7 DEF ConnectInterrupted, ReturnFrom
<1>8. CASE PublishProperties BY <1>8 DEF PublishProperties
<1>9. CASE SubscribeCompleted BY <1>9 DEF SubscribeCompleted
<1>10. CASE SubscribeFailed BY <1>10 DEF SubscribeFailed, ReturnFrom
<1>11. CASE SubscribeInterrupted BY <1>11 DEF SubscribeInterrupted, ReturnFrom
<1>12. CASE OnlineStopped BY <1>12 DEF OnlineStopped, ReturnFrom
<1>13. CASE OnlineLost BY <1>13 DEF OnlineLost, ReturnFrom
<1>14. CASE OnlineRenew BY <1>14 DEF OnlineRenew, ReturnFrom
<1>15. CASE Drain BY <1>15 DEF Drain
<1>16. CASE Unsubscribe
  <2>1. brokerSub' \in BOOLEAN BY <1>16 DEF Unsubscribe
  <2> QED BY <1>16, <2>1 DEF Unsubscribe
<1>17. CASE Disconnect BY <1>17 DEF Disconnect, Requeue
<1>18. CASE Quiesced BY <1>18 DEF Quiesced
<1>19. CASE CancelCycle BY <1>19 DEF CancelCycle
<1>20. CASE CloseQueue BY <1>20 DEF CloseQueue
<1>21. CASE JoinWorkers
  BY <1>21 DEF JoinWorkers, NextRung, ClearedRung, Joined, Contents
<1>22. ASSUME NEW c \in Cycles, Dispatch(c) PROVE TypeOK'
  <2>1. callback' \in [Cycles -> {"idle", "sending", "notifying"}]
    BY <1>22 DEF Dispatch
  <2>2. inbound' \in [Cycles -> Seq(Messages)] BY <1>22 DEF Dispatch
  <2>3. \A k \in Cycles : Len(inbound'[k]) <= InboundSize BY <1>22 DEF Dispatch
  <2>4. broker' \in [Messages -> {"queued", "inflight", "settled"}]
    BY <1>22 DEF Dispatch
  <2>5. queue' \in Seq(Messages) /\ Len(queue') <= QueueSize
    BY <1>22 DEF Dispatch
  <2> QED BY <1>22, <2>1, <2>2, <2>3, <2>4, <2>5 DEF Dispatch
<1>23. ASSUME NEW c \in Cycles, Enqueue(c) PROVE TypeOK'
  <2>1. callback' \in [Cycles -> {"idle", "sending", "notifying"}]
    BY <1>23 DEF Enqueue, Settle, HasRoom
  <2>2. inbound' \in [Cycles -> Seq(Messages)]
    BY <1>23 DEF Enqueue, Settle, HasRoom
  <2>3. \A k \in Cycles : Len(inbound'[k]) <= InboundSize
    <3>1. inbound[c] # <<>> /\ Len(Tail(inbound[c])) <= InboundSize
      BY <1>23 DEF Enqueue, Settle
    <3> QED BY <1>23, <3>1 DEF Enqueue, Settle
  <2>4. broker' \in [Messages -> {"queued", "inflight", "settled"}]
    BY <1>23 DEF Enqueue, Settle, HasRoom
  <2>5. queue' \in Seq(Messages) /\ Len(queue') <= QueueSize
    <3>1. Head(inbound[c]) \in Messages BY <1>23 DEF Enqueue
    <3>2. queue' = Append(queue, Head(inbound[c])) /\ Len(queue) < QueueSize
      BY <1>23 DEF Enqueue, HasRoom
    <3> QED BY <3>1, <3>2
  <2>6. UNCHANGED <<mainVars, linkVars, draining, cancelled, closed, worker,
      history>>
    BY <1>23 DEF Enqueue
  <2> HIDE DEF CycleInv, CallbackInv, Draining
  <2> QED BY <2>1, <2>2, <2>3, <2>4, <2>5, <2>6, SMTT(30)
<1>24. ASSUME NEW c \in Cycles, Drop(c) PROVE TypeOK'
  <2>1. callback' \in [Cycles -> {"idle", "sending", "notifying"}]
    BY <1>24 DEF Drop
  <2>2. dropped' \subseteq Messages BY <1>24 DEF Drop
  <2>3. UNCHANGED <<mainVars, linkVars, poolVars, inbound, broker, started,
      abandoned,
                    failures, stopCycle>>
    BY <1>24 DEF Drop
  <2> HIDE DEF CycleInv, CallbackInv, Draining
  <2> QED BY <2>1, <2>2, <2>3, SMTT(30)
<1>25. ASSUME NEW c \in Cycles, DropReturns(c) PROVE TypeOK'
  <2>1. callback' \in [Cycles -> {"idle", "sending", "notifying"}]
    BY <1>25 DEF DropReturns, Settle
  <2>2. inbound' \in [Cycles -> Seq(Messages)] BY <1>25 DEF DropReturns, Settle
  <2>3. \A k \in Cycles : Len(inbound'[k]) <= InboundSize
    <3>1. inbound[c] # <<>> /\ Len(Tail(inbound[c])) <= InboundSize
      BY <1>25 DEF DropReturns, Settle
    <3> QED BY <1>25, <3>1 DEF DropReturns, Settle
  <2>4. broker' \in [Messages -> {"queued", "inflight", "settled"}]
    BY <1>25 DEF DropReturns, Settle
  <2>5. UNCHANGED <<mainVars, linkVars, poolVars, history>>
    BY <1>25 DEF DropReturns
  <2> HIDE DEF CycleInv, CallbackInv, Draining
  <2> QED BY <2>1, <2>2, <2>3, <2>4, <2>5, SMTT(30)
<1>26. ASSUME NEW c \in Cycles, SendOnClosed(c) PROVE TypeOK'
  BY <1>26 DEF SendOnClosed, Closed
<1>27. ASSUME NEW w \in Workers, Take(w) PROVE TypeOK' BY <1>27 DEF Take
<1>28. ASSUME NEW w \in Workers, Finish(w) PROVE TypeOK' BY <1>28 DEF Finish
<1>29. ASSUME NEW w \in Workers, Exit(w) PROVE TypeOK' BY <1>29 DEF Exit
<1>30. CASE RequestStop BY <1>30 DEF RequestStop
<1>31. CASE BrokerSubscribes BY <1>31 DEF BrokerSubscribes
<1>32. CASE SubackArrives BY <1>32 DEF SubackArrives
<1>33. CASE ConnectionLost
  <2>1. broker' \in [Messages -> {"queued", "inflight", "settled"}]
    BY <1>33 DEF ConnectionLost, Requeue
  <2> QED BY <1>33, <2>1 DEF ConnectionLost
<1>34. CASE NotifyLost BY <1>34 DEF NotifyLost
<1>35. ASSUME NEW m \in Messages, Deliver(m) PROVE TypeOK'
  <2>1. inbound' \in [Cycles -> Seq(Messages)] BY <1>35 DEF Deliver
  <2>2. \A k \in Cycles : Len(inbound'[k]) <= InboundSize
    <3>1. cycle \in Cycles /\ Len(Append(inbound[cycle], m)) <= InboundSize
      BY <1>35 DEF Deliver
    <3> QED BY <1>35, <3>1 DEF Deliver
  <2>3. broker' \in [Messages -> {"queued", "inflight", "settled"}]
    BY <1>35 DEF Deliver
  <2>4. UNCHANGED <<mainVars, linkVars, poolVars, callback, history>>
    BY <1>35 DEF Deliver
  <2> HIDE DEF CycleInv, CallbackInv, Draining
  <2> QED BY <2>1, <2>2, <2>3, <2>4, SMTT(30)
<1>36. ASSUME NEW c \in Cycles, InboundDiscarded(c) PROVE TypeOK'
  <2>1. callback' \in [Cycles -> {"idle", "sending", "notifying"}]
    BY <1>36 DEF InboundDiscarded
  <2>2. inbound' \in [Cycles -> Seq(Messages)] BY <1>36 DEF InboundDiscarded
  <2>3. \A k \in Cycles : Len(inbound'[k]) <= InboundSize
    BY <1>36 DEF InboundDiscarded
  <2>4. broker' \in [Messages -> {"queued", "inflight", "settled"}]
    BY <1>36 DEF InboundDiscarded
  <2>5. queue' \in Seq(Messages) /\ Len(queue') <= QueueSize
    BY <1>36 DEF InboundDiscarded
  <2> QED BY <1>36, <2>1, <2>2, <2>3, <2>4, <2>5 DEF InboundDiscarded
<1>37. CASE UNCHANGED vars BY <1>37
<1> QED
  BY <1>1, <1>2, <1>3, <1>4, <1>5, <1>6, <1>7, <1>8, <1>9, <1>10, <1>11, <1>12,
      <1>13, <1>14, <1>15, <1>16, <1>17, <1>18, <1>19, <1>20, <1>21, <1>22,
      <1>23, <1>24, <1>25, <1>26, <1>27, <1>28, <1>29, <1>30, <1>31, <1>32,
      <1>33, <1>34, <1>35, <1>36, <1>37 DEF Next, Main, Callback, Worker,
      Environment, Over

(* Every step keeps the relation of phase, cycle and connection.           *)
LEMMA CycleStep ==
  ASSUME TypeOK, CycleInv, [Next]_vars
  PROVE  CycleInv'
<1> USE Params DEF TypeOK, CycleInv, Connected, InCycle, Between, Phases,
    BeforeDrain, Teardown, Ended, Running, Cycles, vars, mainVars, linkVars,
    poolVars, inVars, history
<1>1. CASE SkipWait BY <1>1 DEF SkipWait
<1>2. CASE WaitStopped BY <1>2 DEF WaitStopped
<1>3. CASE WaitElapsed BY <1>3 DEF WaitElapsed
<1>4. CASE StartCycle BY <1>4 DEF StartCycle, NextRung
<1>5. CASE ConnectCompleted BY <1>5 DEF ConnectCompleted
<1>6. CASE ConnectFailed BY <1>6 DEF ConnectFailed, ReturnFrom
<1>7. CASE ConnectInterrupted BY <1>7 DEF ConnectInterrupted, ReturnFrom
<1>8. CASE PublishProperties BY <1>8 DEF PublishProperties
<1>9. CASE SubscribeCompleted BY <1>9 DEF SubscribeCompleted
<1>10. CASE SubscribeFailed BY <1>10 DEF SubscribeFailed, ReturnFrom
<1>11. CASE SubscribeInterrupted BY <1>11 DEF SubscribeInterrupted, ReturnFrom
<1>12. CASE OnlineStopped BY <1>12 DEF OnlineStopped, ReturnFrom
<1>13. CASE OnlineLost BY <1>13 DEF OnlineLost, ReturnFrom
<1>14. CASE OnlineRenew BY <1>14 DEF OnlineRenew, ReturnFrom
<1>15. CASE Drain BY <1>15 DEF Drain
<1>16. CASE Unsubscribe BY <1>16 DEF Unsubscribe
<1>17. CASE Disconnect BY <1>17 DEF Disconnect, Requeue
<1>18. CASE Quiesced BY <1>18 DEF Quiesced
<1>19. CASE CancelCycle BY <1>19 DEF CancelCycle
<1>20. CASE CloseQueue BY <1>20 DEF CloseQueue
<1>21. CASE JoinWorkers
  BY <1>21 DEF JoinWorkers, NextRung, ClearedRung, Joined, Contents
<1>22. ASSUME NEW c \in Cycles, Dispatch(c) PROVE CycleInv'
  BY <1>22 DEF Dispatch
<1>23. ASSUME NEW c \in Cycles, Enqueue(c) PROVE CycleInv'
  BY <1>23 DEF Enqueue, Settle, HasRoom, Closed
<1>24. ASSUME NEW c \in Cycles, Drop(c) PROVE CycleInv'
  BY <1>24 DEF Drop, MayDrop, Draining
<1>25. ASSUME NEW c \in Cycles, DropReturns(c) PROVE CycleInv'
  BY <1>25 DEF DropReturns, Settle
<1>26. ASSUME NEW c \in Cycles, SendOnClosed(c) PROVE CycleInv'
  BY <1>26 DEF SendOnClosed, Closed
<1>27. ASSUME NEW w \in Workers, Take(w) PROVE CycleInv' BY <1>27 DEF Take
<1>28. ASSUME NEW w \in Workers, Finish(w) PROVE CycleInv' BY <1>28 DEF Finish
<1>29. ASSUME NEW w \in Workers, Exit(w) PROVE CycleInv' BY <1>29 DEF Exit
<1>30. CASE RequestStop BY <1>30 DEF RequestStop
<1>31. CASE BrokerSubscribes BY <1>31 DEF BrokerSubscribes
<1>32. CASE SubackArrives BY <1>32 DEF SubackArrives
<1>33. CASE ConnectionLost BY <1>33 DEF ConnectionLost, Requeue
<1>34. CASE NotifyLost BY <1>34 DEF NotifyLost
<1>35. ASSUME NEW m \in Messages, Deliver(m) PROVE CycleInv'
  BY <1>35 DEF Deliver
<1>36. ASSUME NEW c \in Cycles, InboundDiscarded(c) PROVE CycleInv'
  BY <1>36 DEF InboundDiscarded
<1>37. CASE UNCHANGED vars BY <1>37
<1> QED
  BY <1>1, <1>2, <1>3, <1>4, <1>5, <1>6, <1>7, <1>8, <1>9, <1>10, <1>11, <1>12,
      <1>13, <1>14, <1>15, <1>16, <1>17, <1>18, <1>19, <1>20, <1>21, <1>22,
      <1>23, <1>24, <1>25, <1>26, <1>27, <1>28, <1>29, <1>30, <1>31, <1>32,
      <1>33, <1>34, <1>35, <1>36, <1>37 DEF Next, Main, Callback, Worker,
      Environment, Over

(* Every step keeps the backoff at or above the number of failed cycles.   *)
LEMMA RungStep ==
  ASSUME TypeOK, CycleInv, RungInv, [Next]_vars
  PROVE  RungInv'
<1> USE Params DEF TypeOK, CycleInv, RungInv, Connected, InCycle, Between,
    Phases, BeforeDrain, Teardown, Ended, Running, Cycles, vars, mainVars,
    linkVars, poolVars, inVars, history
<1>1. CASE SkipWait BY <1>1 DEF SkipWait
<1>2. CASE WaitStopped BY <1>2 DEF WaitStopped
<1>3. CASE WaitElapsed BY <1>3 DEF WaitElapsed
<1>4. CASE StartCycle BY <1>4 DEF StartCycle, NextRung
<1>5. CASE ConnectCompleted BY <1>5 DEF ConnectCompleted
<1>6. CASE ConnectFailed BY <1>6 DEF ConnectFailed, ReturnFrom
<1>7. CASE ConnectInterrupted BY <1>7 DEF ConnectInterrupted, ReturnFrom
<1>8. CASE PublishProperties BY <1>8 DEF PublishProperties
<1>9. CASE SubscribeCompleted BY <1>9 DEF SubscribeCompleted
<1>10. CASE SubscribeFailed BY <1>10 DEF SubscribeFailed, ReturnFrom
<1>11. CASE SubscribeInterrupted BY <1>11 DEF SubscribeInterrupted, ReturnFrom
<1>12. CASE OnlineStopped BY <1>12 DEF OnlineStopped, ReturnFrom
<1>13. CASE OnlineLost BY <1>13 DEF OnlineLost, ReturnFrom
<1>14. CASE OnlineRenew BY <1>14 DEF OnlineRenew, ReturnFrom
<1>15. CASE Drain BY <1>15 DEF Drain
<1>16. CASE Unsubscribe BY <1>16 DEF Unsubscribe
<1>17. CASE Disconnect BY <1>17 DEF Disconnect, Requeue
<1>18. CASE Quiesced BY <1>18 DEF Quiesced
<1>19. CASE CancelCycle BY <1>19 DEF CancelCycle
<1>20. CASE CloseQueue BY <1>20 DEF CloseQueue
<1>21. CASE JoinWorkers
  BY <1>21 DEF JoinWorkers, NextRung, ClearedRung, Joined, Contents
<1>22. ASSUME NEW c \in Cycles, Dispatch(c) PROVE RungInv' BY <1>22 DEF Dispatch
<1>23. ASSUME NEW c \in Cycles, Enqueue(c) PROVE RungInv'
  BY <1>23 DEF Enqueue, Settle, HasRoom, Closed
<1>24. ASSUME NEW c \in Cycles, Drop(c) PROVE RungInv'
  BY <1>24 DEF Drop, MayDrop, Draining
<1>25. ASSUME NEW c \in Cycles, DropReturns(c) PROVE RungInv'
  BY <1>25 DEF DropReturns, Settle
<1>26. ASSUME NEW c \in Cycles, SendOnClosed(c) PROVE RungInv'
  BY <1>26 DEF SendOnClosed, Closed
<1>27. ASSUME NEW w \in Workers, Take(w) PROVE RungInv' BY <1>27 DEF Take
<1>28. ASSUME NEW w \in Workers, Finish(w) PROVE RungInv' BY <1>28 DEF Finish
<1>29. ASSUME NEW w \in Workers, Exit(w) PROVE RungInv' BY <1>29 DEF Exit
<1>30. CASE RequestStop BY <1>30 DEF RequestStop
<1>31. CASE BrokerSubscribes BY <1>31 DEF BrokerSubscribes
<1>32. CASE SubackArrives BY <1>32 DEF SubackArrives
<1>33. CASE ConnectionLost BY <1>33 DEF ConnectionLost, Requeue
<1>34. CASE NotifyLost BY <1>34 DEF NotifyLost
<1>35. ASSUME NEW m \in Messages, Deliver(m) PROVE RungInv' BY <1>35 DEF Deliver
<1>36. ASSUME NEW c \in Cycles, InboundDiscarded(c) PROVE RungInv'
  BY <1>36 DEF InboundDiscarded
<1>37. CASE UNCHANGED vars BY <1>37
<1> QED
  BY <1>1, <1>2, <1>3, <1>4, <1>5, <1>6, <1>7, <1>8, <1>9, <1>10, <1>11, <1>12,
      <1>13, <1>14, <1>15, <1>16, <1>17, <1>18, <1>19, <1>20, <1>21, <1>22,
      <1>23, <1>24, <1>25, <1>26, <1>27, <1>28, <1>29, <1>30, <1>31, <1>32,
      <1>33, <1>34, <1>35, <1>36, <1>37 DEF Next, Main, Callback, Worker,
      Environment, Over

(* Every step keeps the bound on the cycles started after a stop request.  *)
LEMMA StopStep ==
  ASSUME TypeOK, CycleInv, RungInv, StopInv, [Next]_vars
  PROVE  StopInv'
<1> USE Params DEF TypeOK, CycleInv, RungInv, StopInv, Connected, InCycle,
    Between, Phases, BeforeDrain, Teardown, Ended, Running, Cycles, vars,
    mainVars, linkVars, poolVars, inVars, history
<1>1. CASE SkipWait BY <1>1 DEF SkipWait
<1>2. CASE WaitStopped BY <1>2 DEF WaitStopped
<1>3. CASE WaitElapsed BY <1>3 DEF WaitElapsed
<1>4. CASE StartCycle BY <1>4 DEF StartCycle, NextRung
<1>5. CASE ConnectCompleted BY <1>5 DEF ConnectCompleted
<1>6. CASE ConnectFailed BY <1>6 DEF ConnectFailed, ReturnFrom
<1>7. CASE ConnectInterrupted BY <1>7 DEF ConnectInterrupted, ReturnFrom
<1>8. CASE PublishProperties BY <1>8 DEF PublishProperties
<1>9. CASE SubscribeCompleted BY <1>9 DEF SubscribeCompleted
<1>10. CASE SubscribeFailed BY <1>10 DEF SubscribeFailed, ReturnFrom
<1>11. CASE SubscribeInterrupted BY <1>11 DEF SubscribeInterrupted, ReturnFrom
<1>12. CASE OnlineStopped BY <1>12 DEF OnlineStopped, ReturnFrom
<1>13. CASE OnlineLost BY <1>13 DEF OnlineLost, ReturnFrom
<1>14. CASE OnlineRenew BY <1>14 DEF OnlineRenew, ReturnFrom
<1>15. CASE Drain BY <1>15 DEF Drain
<1>16. CASE Unsubscribe BY <1>16 DEF Unsubscribe
<1>17. CASE Disconnect BY <1>17 DEF Disconnect, Requeue
<1>18. CASE Quiesced BY <1>18 DEF Quiesced
<1>19. CASE CancelCycle BY <1>19 DEF CancelCycle
<1>20. CASE CloseQueue BY <1>20 DEF CloseQueue
<1>21. CASE JoinWorkers
  BY <1>21 DEF JoinWorkers, NextRung, ClearedRung, Joined, Contents
<1>22. ASSUME NEW c \in Cycles, Dispatch(c) PROVE StopInv' BY <1>22 DEF Dispatch
<1>23. ASSUME NEW c \in Cycles, Enqueue(c) PROVE StopInv'
  BY <1>23 DEF Enqueue, Settle, HasRoom, Closed
<1>24. ASSUME NEW c \in Cycles, Drop(c) PROVE StopInv'
  BY <1>24 DEF Drop, MayDrop, Draining
<1>25. ASSUME NEW c \in Cycles, DropReturns(c) PROVE StopInv'
  BY <1>25 DEF DropReturns, Settle
<1>26. ASSUME NEW c \in Cycles, SendOnClosed(c) PROVE StopInv'
  BY <1>26 DEF SendOnClosed, Closed
<1>27. ASSUME NEW w \in Workers, Take(w) PROVE StopInv' BY <1>27 DEF Take
<1>28. ASSUME NEW w \in Workers, Finish(w) PROVE StopInv' BY <1>28 DEF Finish
<1>29. ASSUME NEW w \in Workers, Exit(w) PROVE StopInv' BY <1>29 DEF Exit
<1>30. CASE RequestStop BY <1>30 DEF RequestStop
<1>31. CASE BrokerSubscribes BY <1>31 DEF BrokerSubscribes
<1>32. CASE SubackArrives BY <1>32 DEF SubackArrives
<1>33. CASE ConnectionLost BY <1>33 DEF ConnectionLost, Requeue
<1>34. CASE NotifyLost BY <1>34 DEF NotifyLost
<1>35. ASSUME NEW m \in Messages, Deliver(m) PROVE StopInv' BY <1>35 DEF Deliver
<1>36. ASSUME NEW c \in Cycles, InboundDiscarded(c) PROVE StopInv'
  BY <1>36 DEF InboundDiscarded
<1>37. CASE UNCHANGED vars BY <1>37
<1> QED
  BY <1>1, <1>2, <1>3, <1>4, <1>5, <1>6, <1>7, <1>8, <1>9, <1>10, <1>11, <1>12,
      <1>13, <1>14, <1>15, <1>16, <1>17, <1>18, <1>19, <1>20, <1>21, <1>22,
      <1>23, <1>24, <1>25, <1>26, <1>27, <1>28, <1>29, <1>30, <1>31, <1>32,
      <1>33, <1>34, <1>35, <1>36, <1>37 DEF Next, Main, Callback, Worker,
      Environment, Over

(* Every step keeps the message of a running callback in place.            *)
LEMMA CallbackStep ==
  ASSUME TypeOK, CycleInv, CallbackInv, [Next]_vars
  PROVE  CallbackInv'
<1> USE Params DEF TypeOK, CycleInv, CallbackInv, Connected, Draining, InCycle,
    Between, Phases, BeforeDrain, Teardown, Ended, Running, Cycles, vars,
    mainVars, linkVars, poolVars, inVars, history
<1>1. CASE SkipWait BY <1>1 DEF SkipWait
<1>2. CASE WaitStopped BY <1>2 DEF WaitStopped
<1>3. CASE WaitElapsed BY <1>3 DEF WaitElapsed
<1>4. CASE StartCycle BY <1>4 DEF StartCycle, NextRung
<1>5. CASE ConnectCompleted BY <1>5 DEF ConnectCompleted
<1>6. CASE ConnectFailed BY <1>6 DEF ConnectFailed, ReturnFrom
<1>7. CASE ConnectInterrupted BY <1>7 DEF ConnectInterrupted, ReturnFrom
<1>8. CASE PublishProperties BY <1>8 DEF PublishProperties
<1>9. CASE SubscribeCompleted BY <1>9 DEF SubscribeCompleted
<1>10. CASE SubscribeFailed BY <1>10 DEF SubscribeFailed, ReturnFrom
<1>11. CASE SubscribeInterrupted BY <1>11 DEF SubscribeInterrupted, ReturnFrom
<1>12. CASE OnlineStopped BY <1>12 DEF OnlineStopped, ReturnFrom
<1>13. CASE OnlineLost BY <1>13 DEF OnlineLost, ReturnFrom
<1>14. CASE OnlineRenew BY <1>14 DEF OnlineRenew, ReturnFrom
<1>15. CASE Drain BY <1>15 DEF Drain
<1>16. CASE Unsubscribe BY <1>16 DEF Unsubscribe
<1>17. CASE Disconnect BY <1>17 DEF Disconnect, Requeue
<1>18. CASE Quiesced BY <1>18 DEF Quiesced
<1>19. CASE CancelCycle BY <1>19 DEF CancelCycle
<1>20. CASE CloseQueue BY <1>20 DEF CloseQueue
<1>21. CASE JoinWorkers
  BY <1>21 DEF JoinWorkers, NextRung, ClearedRung, Joined, Contents
<1>22. ASSUME NEW c \in Cycles, Dispatch(c) PROVE CallbackInv'
  BY <1>22 DEF Dispatch
<1>23. ASSUME NEW c \in Cycles, Enqueue(c) PROVE CallbackInv'
  BY <1>23 DEF Enqueue, Settle, HasRoom, Closed
<1>24. ASSUME NEW c \in Cycles, Drop(c) PROVE CallbackInv'
  BY <1>24 DEF Drop, MayDrop, Draining
<1>25. ASSUME NEW c \in Cycles, DropReturns(c) PROVE CallbackInv'
  BY <1>25 DEF DropReturns, Settle
<1>26. ASSUME NEW c \in Cycles, SendOnClosed(c) PROVE CallbackInv'
  BY <1>26 DEF SendOnClosed, Closed
<1>27. ASSUME NEW w \in Workers, Take(w) PROVE CallbackInv' BY <1>27 DEF Take
<1>28. ASSUME NEW w \in Workers, Finish(w) PROVE CallbackInv'
  BY <1>28 DEF Finish
<1>29. ASSUME NEW w \in Workers, Exit(w) PROVE CallbackInv' BY <1>29 DEF Exit
<1>30. CASE RequestStop BY <1>30 DEF RequestStop
<1>31. CASE BrokerSubscribes BY <1>31 DEF BrokerSubscribes
<1>32. CASE SubackArrives BY <1>32 DEF SubackArrives
<1>33. CASE ConnectionLost BY <1>33 DEF ConnectionLost, Requeue
<1>34. CASE NotifyLost BY <1>34 DEF NotifyLost
<1>35. ASSUME NEW m \in Messages, Deliver(m) PROVE CallbackInv'
  <2>1. cycle \in Cycles BY <1>35 DEF Deliver
  <2>2. \A k \in Cycles : k # cycle => inbound'[k] = inbound[k]
    BY <1>35 DEF Deliver
  <2>3. inbound'[cycle] = Append(inbound[cycle], m) BY <1>35, <2>1 DEF Deliver
  <2>4. inbound[cycle] # <<>> => Head(inbound'[cycle]) = Head(inbound[cycle])
    BY <2>1, <2>3
  <2>5. inbound'[cycle] # <<>> BY <2>1, <2>3, AppendNotEmpty
  <2>6. callback' = callback /\ cycle' = cycle /\ dropped' = dropped /\
      draining' = draining
    BY <1>35 DEF Deliver
  <2> QED BY <2>1, <2>2, <2>4, <2>5, <2>6
<1>36. ASSUME NEW c \in Cycles, InboundDiscarded(c) PROVE CallbackInv'
  BY <1>36 DEF InboundDiscarded
<1>37. CASE UNCHANGED vars BY <1>37
<1> QED
  BY <1>1, <1>2, <1>3, <1>4, <1>5, <1>6, <1>7, <1>8, <1>9, <1>10, <1>11, <1>12,
      <1>13, <1>14, <1>15, <1>16, <1>17, <1>18, <1>19, <1>20, <1>21, <1>22,
      <1>23, <1>24, <1>25, <1>26, <1>27, <1>28, <1>29, <1>30, <1>31, <1>32,
      <1>33, <1>34, <1>35, <1>36, <1>37 DEF Next, Main, Callback, Worker,
      Environment, Over

(* Every step keeps the pool gone and the queue closed between two cycles. *)
LEMMA PoolStep ==
  ASSUME TypeOK, CycleInv, CallbackInv, PoolInv, [Next]_vars
  PROVE  PoolInv'
<1> USE Params DEF TypeOK, CycleInv, CallbackInv, PoolInv, Joined, Closed,
    Connected, Draining, InCycle, Between, Phases, BeforeDrain, Teardown, Ended,
    Running, Cycles, vars, mainVars, linkVars, poolVars, inVars, history
<1>1. CASE SkipWait BY <1>1 DEF SkipWait
<1>2. CASE WaitStopped BY <1>2 DEF WaitStopped
<1>3. CASE WaitElapsed BY <1>3 DEF WaitElapsed
<1>4. CASE StartCycle BY <1>4 DEF StartCycle, NextRung
<1>5. CASE ConnectCompleted BY <1>5 DEF ConnectCompleted
<1>6. CASE ConnectFailed BY <1>6 DEF ConnectFailed, ReturnFrom
<1>7. CASE ConnectInterrupted BY <1>7 DEF ConnectInterrupted, ReturnFrom
<1>8. CASE PublishProperties BY <1>8 DEF PublishProperties
<1>9. CASE SubscribeCompleted BY <1>9 DEF SubscribeCompleted
<1>10. CASE SubscribeFailed BY <1>10 DEF SubscribeFailed, ReturnFrom
<1>11. CASE SubscribeInterrupted BY <1>11 DEF SubscribeInterrupted, ReturnFrom
<1>12. CASE OnlineStopped BY <1>12 DEF OnlineStopped, ReturnFrom
<1>13. CASE OnlineLost BY <1>13 DEF OnlineLost, ReturnFrom
<1>14. CASE OnlineRenew BY <1>14 DEF OnlineRenew, ReturnFrom
<1>15. CASE Drain BY <1>15 DEF Drain
<1>16. CASE Unsubscribe BY <1>16 DEF Unsubscribe
<1>17. CASE Disconnect BY <1>17 DEF Disconnect, Requeue
<1>18. CASE Quiesced BY <1>18 DEF Quiesced
<1>19. CASE CancelCycle BY <1>19 DEF CancelCycle
<1>20. CASE CloseQueue BY <1>20 DEF CloseQueue
<1>21. CASE JoinWorkers
  BY <1>21 DEF JoinWorkers, NextRung, ClearedRung, Joined, Contents
<1>22. ASSUME NEW c \in Cycles, Dispatch(c) PROVE PoolInv' BY <1>22 DEF Dispatch
<1>23. ASSUME NEW c \in Cycles, Enqueue(c) PROVE PoolInv'
  BY <1>23 DEF Enqueue, Settle, HasRoom, Closed
<1>24. ASSUME NEW c \in Cycles, Drop(c) PROVE PoolInv'
  BY <1>24 DEF Drop, MayDrop, Draining
<1>25. ASSUME NEW c \in Cycles, DropReturns(c) PROVE PoolInv'
  BY <1>25 DEF DropReturns, Settle
<1>26. ASSUME NEW c \in Cycles, SendOnClosed(c) PROVE PoolInv'
  BY <1>26 DEF SendOnClosed, Closed
<1>27. ASSUME NEW w \in Workers, Take(w) PROVE PoolInv' BY <1>27 DEF Take
<1>28. ASSUME NEW w \in Workers, Finish(w) PROVE PoolInv' BY <1>28 DEF Finish
<1>29. ASSUME NEW w \in Workers, Exit(w) PROVE PoolInv' BY <1>29 DEF Exit
<1>30. CASE RequestStop BY <1>30 DEF RequestStop
<1>31. CASE BrokerSubscribes BY <1>31 DEF BrokerSubscribes
<1>32. CASE SubackArrives BY <1>32 DEF SubackArrives
<1>33. CASE ConnectionLost BY <1>33 DEF ConnectionLost, Requeue
<1>34. CASE NotifyLost BY <1>34 DEF NotifyLost
<1>35. ASSUME NEW m \in Messages, Deliver(m) PROVE PoolInv' BY <1>35 DEF Deliver
<1>36. ASSUME NEW c \in Cycles, InboundDiscarded(c) PROVE PoolInv'
  BY <1>36 DEF InboundDiscarded
<1>37. CASE UNCHANGED vars BY <1>37
<1> QED
  BY <1>1, <1>2, <1>3, <1>4, <1>5, <1>6, <1>7, <1>8, <1>9, <1>10, <1>11, <1>12,
      <1>13, <1>14, <1>15, <1>16, <1>17, <1>18, <1>19, <1>20, <1>21, <1>22,
      <1>23, <1>24, <1>25, <1>26, <1>27, <1>28, <1>29, <1>30, <1>31, <1>32,
      <1>33, <1>34, <1>35, <1>36, <1>37 DEF Next, Main, Callback, Worker,
      Environment, Over

(* Every step keeps an ended connection quiet, if Disconnect waits.        *)
LEMMA QuietStep ==
  ASSUME TypeOK, CycleInv, CallbackInv, QuietInv, PoolInv, [Next]_vars
  PROVE  QuietInv'
<1> USE Params DEF TypeOK, CycleInv, CallbackInv, QuietInv, PoolInv, Connected,
    Draining, InCycle, Between, Phases, BeforeDrain, Teardown, Ended, Running,
    Cycles, vars, mainVars, linkVars, poolVars, inVars, history
<1>1. CASE SkipWait BY <1>1 DEF SkipWait
<1>2. CASE WaitStopped BY <1>2 DEF WaitStopped
<1>3. CASE WaitElapsed BY <1>3 DEF WaitElapsed
<1>4. CASE StartCycle BY <1>4 DEF StartCycle, NextRung
<1>5. CASE ConnectCompleted BY <1>5 DEF ConnectCompleted
<1>6. CASE ConnectFailed BY <1>6 DEF ConnectFailed, ReturnFrom
<1>7. CASE ConnectInterrupted BY <1>7 DEF ConnectInterrupted, ReturnFrom
<1>8. CASE PublishProperties BY <1>8 DEF PublishProperties
<1>9. CASE SubscribeCompleted BY <1>9 DEF SubscribeCompleted
<1>10. CASE SubscribeFailed BY <1>10 DEF SubscribeFailed, ReturnFrom
<1>11. CASE SubscribeInterrupted BY <1>11 DEF SubscribeInterrupted, ReturnFrom
<1>12. CASE OnlineStopped BY <1>12 DEF OnlineStopped, ReturnFrom
<1>13. CASE OnlineLost BY <1>13 DEF OnlineLost, ReturnFrom
<1>14. CASE OnlineRenew BY <1>14 DEF OnlineRenew, ReturnFrom
<1>15. CASE Drain BY <1>15 DEF Drain
<1>16. CASE Unsubscribe BY <1>16 DEF Unsubscribe
<1>17. CASE Disconnect BY <1>17 DEF Disconnect, Requeue
<1>18. CASE Quiesced BY <1>18 DEF Quiesced
<1>19. CASE CancelCycle BY <1>19 DEF CancelCycle
<1>20. CASE CloseQueue BY <1>20 DEF CloseQueue
<1>21. CASE JoinWorkers
  BY <1>21 DEF JoinWorkers, NextRung, ClearedRung, Joined, Contents
<1>22. ASSUME NEW c \in Cycles, Dispatch(c) PROVE QuietInv'
  BY <1>22 DEF Dispatch
<1>23. ASSUME NEW c \in Cycles, Enqueue(c) PROVE QuietInv'
  BY <1>23 DEF Enqueue, Settle, HasRoom, Closed
<1>24. ASSUME NEW c \in Cycles, Drop(c) PROVE QuietInv'
  BY <1>24 DEF Drop, MayDrop, Draining
<1>25. ASSUME NEW c \in Cycles, DropReturns(c) PROVE QuietInv'
  BY <1>25 DEF DropReturns, Settle
<1>26. ASSUME NEW c \in Cycles, SendOnClosed(c) PROVE QuietInv'
  BY <1>26 DEF SendOnClosed, Closed
<1>27. ASSUME NEW w \in Workers, Take(w) PROVE QuietInv' BY <1>27 DEF Take
<1>28. ASSUME NEW w \in Workers, Finish(w) PROVE QuietInv' BY <1>28 DEF Finish
<1>29. ASSUME NEW w \in Workers, Exit(w) PROVE QuietInv' BY <1>29 DEF Exit
<1>30. CASE RequestStop BY <1>30 DEF RequestStop
<1>31. CASE BrokerSubscribes BY <1>31 DEF BrokerSubscribes
<1>32. CASE SubackArrives BY <1>32 DEF SubackArrives
<1>33. CASE ConnectionLost BY <1>33 DEF ConnectionLost, Requeue
<1>34. CASE NotifyLost BY <1>34 DEF NotifyLost
<1>35. ASSUME NEW m \in Messages, Deliver(m) PROVE QuietInv'
  <2>1. link # "down" /\ cycle \in Cycles BY <1>35 DEF Deliver
  <2>2. phase \in Connected BY <2>1
  <2>3. \A k \in Cycles : k # cycle => inbound'[k] = inbound[k]
    BY <1>35 DEF Deliver
  <2>4. callback' = callback /\ cycle' = cycle /\ phase' = phase
    BY <1>35 DEF Deliver
  <2>5. phase \notin {"cancel", "close", "join", "loop", "start", "exited"}
    BY <2>2
  <2> HIDE DEF TypeOK, CycleInv, CallbackInv, PoolInv, Connected, Draining
  <2> QED BY <2>1, <2>3, <2>4, <2>5
<1>36. ASSUME NEW c \in Cycles, InboundDiscarded(c) PROVE QuietInv'
  BY <1>36 DEF InboundDiscarded
<1>37. CASE UNCHANGED vars BY <1>37
<1> QED
  BY <1>1, <1>2, <1>3, <1>4, <1>5, <1>6, <1>7, <1>8, <1>9, <1>10, <1>11, <1>12,
      <1>13, <1>14, <1>15, <1>16, <1>17, <1>18, <1>19, <1>20, <1>21, <1>22,
      <1>23, <1>24, <1>25, <1>26, <1>27, <1>28, <1>29, <1>30, <1>31, <1>32,
      <1>33, <1>34, <1>35, <1>36, <1>37 DEF Next, Main, Callback, Worker,
      Environment, Over

(* Every step keeps account of the messages the broker no longer owes.     *)
LEMMA LossStep ==
  ASSUME TypeOK, CycleInv, CallbackInv, PoolInv, LossAccounted, [Next]_vars
  PROVE  LossAccounted'
<1> USE Params DEF TypeOK, CycleInv, CallbackInv, PoolInv, LossAccounted,
    Connected, Draining, InCycle, Between, Phases, BeforeDrain, Teardown, Ended,
    Running, Cycles, vars, mainVars, linkVars, poolVars, inVars, history
<1>1. CASE SkipWait BY <1>1 DEF SkipWait
<1>2. CASE WaitStopped BY <1>2 DEF WaitStopped
<1>3. CASE WaitElapsed BY <1>3 DEF WaitElapsed
<1>4. CASE StartCycle BY <1>4 DEF StartCycle, NextRung
<1>5. CASE ConnectCompleted BY <1>5 DEF ConnectCompleted
<1>6. CASE ConnectFailed BY <1>6 DEF ConnectFailed, ReturnFrom
<1>7. CASE ConnectInterrupted BY <1>7 DEF ConnectInterrupted, ReturnFrom
<1>8. CASE PublishProperties BY <1>8 DEF PublishProperties
<1>9. CASE SubscribeCompleted BY <1>9 DEF SubscribeCompleted
<1>10. CASE SubscribeFailed BY <1>10 DEF SubscribeFailed, ReturnFrom
<1>11. CASE SubscribeInterrupted BY <1>11 DEF SubscribeInterrupted, ReturnFrom
<1>12. CASE OnlineStopped BY <1>12 DEF OnlineStopped, ReturnFrom
<1>13. CASE OnlineLost BY <1>13 DEF OnlineLost, ReturnFrom
<1>14. CASE OnlineRenew BY <1>14 DEF OnlineRenew, ReturnFrom
<1>15. CASE Drain BY <1>15 DEF Drain
<1>16. CASE Unsubscribe BY <1>16 DEF Unsubscribe
<1>17. CASE Disconnect BY <1>17 DEF Disconnect, Requeue
<1>18. CASE Quiesced BY <1>18 DEF Quiesced
<1>19. CASE CancelCycle BY <1>19 DEF CancelCycle
<1>20. CASE CloseQueue BY <1>20 DEF CloseQueue
<1>21. CASE JoinWorkers
  BY <1>21 DEF JoinWorkers, NextRung, ClearedRung, Joined, Contents
<1>22. ASSUME NEW c \in Cycles, Dispatch(c) PROVE LossAccounted'
  BY <1>22 DEF Dispatch
<1>23. ASSUME NEW c \in Cycles, Enqueue(c) PROVE LossAccounted'
  <2>1. Head(inbound[c]) \in Messages BY <1>23 DEF Enqueue
  <2>2. queue' = Append(queue, Head(inbound[c])) BY <1>23 DEF Enqueue
  <2>3. Contents(queue') = Contents(queue) \cup {Head(inbound[c])}
    BY <2>1, <2>2, ContentsOfAppend
  <2>4. \A k \in Messages : broker'[k] = "settled" =>
           broker[k] = "settled" \/ k = Head(inbound[c])
    BY <1>23 DEF Enqueue, Settle
  <2> QED BY <1>23, <2>3, <2>4 DEF Enqueue
<1>24. ASSUME NEW c \in Cycles, Drop(c) PROVE LossAccounted'
  BY <1>24 DEF Drop, MayDrop, Draining
<1>25. ASSUME NEW c \in Cycles, DropReturns(c) PROVE LossAccounted'
  BY <1>25 DEF DropReturns, Settle
<1>26. ASSUME NEW c \in Cycles, SendOnClosed(c) PROVE LossAccounted'
  BY <1>26 DEF SendOnClosed, Closed
<1>27. ASSUME NEW w \in Workers, Take(w) PROVE LossAccounted'
  <2>1. queue \in Seq(Messages) /\ queue # <<>> BY <1>27 DEF Take
  <2>2. Contents(queue) = Contents(queue') \cup {Head(queue)}
    BY <1>27, <2>1, ContentsOfTail DEF Take
  <2> QED BY <1>27, <2>2 DEF Take
<1>28. ASSUME NEW w \in Workers, Finish(w) PROVE LossAccounted'
  BY <1>28 DEF Finish
<1>29. ASSUME NEW w \in Workers, Exit(w) PROVE LossAccounted' BY <1>29 DEF Exit
<1>30. CASE RequestStop BY <1>30 DEF RequestStop
<1>31. CASE BrokerSubscribes BY <1>31 DEF BrokerSubscribes
<1>32. CASE SubackArrives BY <1>32 DEF SubackArrives
<1>33. CASE ConnectionLost BY <1>33 DEF ConnectionLost, Requeue
<1>34. CASE NotifyLost BY <1>34 DEF NotifyLost
<1>35. ASSUME NEW m \in Messages, Deliver(m) PROVE LossAccounted'
  BY <1>35 DEF Deliver
<1>36. ASSUME NEW c \in Cycles, InboundDiscarded(c) PROVE LossAccounted'
  BY <1>36 DEF InboundDiscarded
<1>37. CASE UNCHANGED vars BY <1>37
<1> QED
  BY <1>1, <1>2, <1>3, <1>4, <1>5, <1>6, <1>7, <1>8, <1>9, <1>10, <1>11, <1>12,
      <1>13, <1>14, <1>15, <1>16, <1>17, <1>18, <1>19, <1>20, <1>21, <1>22,
      <1>23, <1>24, <1>25, <1>26, <1>27, <1>28, <1>29, <1>30, <1>31, <1>32,
      <1>33, <1>34, <1>35, <1>36, <1>37 DEF Next, Main, Callback, Worker,
      Environment, Over
-----------------------------------------------------------------------------
(* The initial states satisfy the inductive invariant.                     *)
LEMMA InitInv == Init => IInv
<1> SUFFICES ASSUME Init PROVE IInv
  OBVIOUS
<1> USE Params DEF Init
<1>1. TypeOK
  <2>1. ret \in [exit : BOOLEAN, clear : BOOLEAN] OBVIOUS
  <2>2. queue \in Seq(Messages) /\ Len(queue) = 0 OBVIOUS
  <2>3. inbound \in [Cycles -> Seq(Messages)] /\ \A c \in Cycles : Len(inbound[c]) = 0
    OBVIOUS
  <2>4. /\ worker \in [Workers -> {"idle", "busy", "gone"}]
        /\ callback \in [Cycles -> {"idle", "sending", "notifying"}]
        /\ broker \in [Messages -> {"queued", "inflight", "settled"}]
    OBVIOUS
  <2>5. cycle \in 0..MaxCycles /\ rung \in 0..MaxRung /\ failures \in 0..MaxCycles
          /\ stopCycle \in 0..MaxCycles
    OBVIOUS
  <2>6. \A c \in Cycles : Len(inbound[c]) <= InboundSize
    BY <2>3
  <2>7. Len(queue) <= QueueSize
    BY <2>2
  <2>8. /\ started \subseteq Messages /\ dropped \subseteq Messages
        /\ abandoned \subseteq Messages
    OBVIOUS
  <2>9. phase \in Phases
    BY DEF Phases
  <2> QED BY <2>1, <2>2, <2>3, <2>4, <2>5, <2>6, <2>7, <2>8, <2>9 DEF TypeOK
<1>2. CycleInv /\ RungInv /\ StopInv
  BY DEF CycleInv, RungInv, StopInv, InCycle, Between, BeforeDrain, Teardown
<1>3. CallbackInv
  BY DEF CallbackInv, Cycles
<1>4. PoolInv
  BY DEF PoolInv, Between
<1>5. QuietInv
  BY DEF QuietInv, Cycles
<1>6. LossAccounted
  BY DEF LossAccounted
<1> QED BY <1>1, <1>2, <1>3, <1>4, <1>5, <1>6 DEF IInv

(* The invariant is inductive, and so holds in every reachable state.      *)
THEOREM Invariance == Spec => []IInv
<1>1. IInv /\ [Next]_vars => IInv'
  BY TypeStep, CycleStep, RungStep, StopStep, CallbackStep, PoolStep, QuietStep, LossStep
  DEF IInv
<1> QED BY <1>1, InitInv, PTL DEF Spec

(* Type correctness, with the capacity of msgQueue and the bound on cycles. *)
THEOREM TypeCorrect == Spec => []TypeOK
<1>1. IInv => TypeOK
  BY DEF IInv
<1> QED BY <1>1, Invariance, PTL

(* wg.Wait at the end of runCycle: no worker, and so no command, of a cycle *)
(* is left when the next one starts or Execute has returned.               *)
THEOREM WorkersJoined == Spec => []NoWorkerOutlivesCycle
<1>1. IInv => NoWorkerOutlivesCycle
  BY DEF IInv, PoolInv, NoWorkerOutlivesCycle, Joined, Between
<1> QED BY <1>1, Invariance, PTL

(* The order of the deferred teardown: if Disconnect waits for the dispatch *)
(* goroutine, enqueueMessage never sends on a closed msgQueue, whatever the *)
(* number of messages, workers and cycles.                                 *)
THEOREM SendSafety == ~QuiesceBounded => (Spec => []NoSendOnClosedQueue)
<1> SUFFICES ASSUME ~QuiesceBounded PROVE Spec => []NoSendOnClosedQueue
  OBVIOUS
<1>1. IInv => NoSendOnClosedQueue
  BY DEF IInv, QuietInv, PoolInv, NoSendOnClosedQueue, Closed, CallbackInv, TypeOK, Cycles
<1> QED BY <1>1, Invariance, PTL

(* At QoS 1 a settled message was given to a worker, waits in msgQueue, was *)
(* counted as dropped, or was left in msgQueue when its cycle ended.       *)
THEOREM NothingElseLost == Spec => []LossAccounted
<1>1. IInv => LossAccounted
  BY DEF IInv
<1> QED BY <1>1, Invariance, PTL

(* The reconnect wait honours a pending stop: at most one cycle is started *)
(* after the request.                                                      *)
THEOREM StopIsPrompt == Spec => []StopStartsAtMostOneCycle
<1>1. IInv => StopStartsAtMostOneCycle
  BY DEF IInv, StopInv, StopStartsAtMostOneCycle
<1> QED BY <1>1, Invariance, PTL

(* clearBackoff is given only by a cycle that was online: failures in a row *)
(* move the reconnect backoff up to its cap.                               *)
THEOREM FailuresBackOff == Spec => []BackoffGrows
<1>1. IInv => BackoffGrows
  BY Params DEF IInv, RungInv, CycleInv, TypeOK, Between, BackoffGrows
<1> QED BY <1>1, Invariance, PTL

(* Back-pressure: outside a teardown the step that lets the client         *)
(* acknowledge a message is the step that puts it on msgQueue.             *)
THEOREM BackPressure == Spec => AckMeansAccepted
<1> DEFINE A == \A m \in Messages :
                  (broker[m] = "inflight" /\ broker'[m] = "settled" /\ ~draining)
                     => m \in Contents(queue')
<1>1. IInv /\ [Next]_vars => [A]_vars
  <2> SUFFICES ASSUME IInv, Next, NEW m \in Messages,
                      broker[m] = "inflight", broker'[m] = "settled", ~draining
               PROVE  m \in Contents(queue')
    OBVIOUS
  <2> USE DEF mainVars, linkVars, poolVars, inVars, history
  <2>1. TypeOK /\ CallbackInv
    BY DEF IInv
  <2>2. ~Main
    BY <2>1 DEF Main, SkipWait, WaitStopped, WaitElapsed, StartCycle, ConnectCompleted,
      ConnectFailed, ConnectInterrupted, PublishProperties, SubscribeCompleted,
      SubscribeFailed, SubscribeInterrupted, OnlineStopped, OnlineLost, OnlineRenew,
      ReturnFrom, Drain, Unsubscribe, Disconnect, Quiesced, CancelCycle, CloseQueue,
      JoinWorkers, TypeOK, Requeue
  <2>3. ~Environment
    BY <2>1 DEF Environment, RequestStop, BrokerSubscribes, SubackArrives, ConnectionLost,
      NotifyLost, Deliver, InboundDiscarded, TypeOK, Requeue
  <2>4. ASSUME NEW c \in Cycles, Callback(c) PROVE m \in Contents(queue')
    <3>1. ~Dispatch(c) /\ ~Drop(c) /\ ~SendOnClosed(c)
      BY <2>1 DEF Dispatch, Drop, SendOnClosed, TypeOK
    <3>2. ~DropReturns(c)
      BY <2>1 DEF DropReturns, Settle, CallbackInv, Draining, TypeOK, Cycles
    <3>3. CASE Enqueue(c)
      <4>1. m = Head(inbound[c])
        BY <2>1, <3>3 DEF Enqueue, Settle, TypeOK
      <4>2. queue' = Append(queue, m) /\ queue \in Seq(Messages)
        BY <2>1, <3>3, <4>1 DEF Enqueue, TypeOK
      <4> QED BY <4>2, ContentsOfAppend
    <3> QED BY <2>4, <3>1, <3>2, <3>3 DEF Callback
  <2>5. ASSUME NEW w \in Workers, Worker(w) PROVE FALSE
    BY <2>1, <2>5 DEF Worker, Take, Finish, Exit, TypeOK
  <2>6. ~Over
    BY <2>1 DEF Over, vars
  <2> QED BY <2>2, <2>3, <2>4, <2>5, <2>6 DEF Next
<1> QED BY <1>1, Invariance, PTL DEF Spec, AckMeansAccepted
=============================================================================
