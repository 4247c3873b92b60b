----------------------------- MODULE AgentCycle -----------------------------
(***************************************************************************)
(* The service loop of the agent: Execute with its reconnect wait, runCycle*)
(* with its connect / subscribe / online phases and its deferred teardown, *)
(* the worker pool, and enqueueMessage as it runs on the dispatch          *)
(* goroutine of the MQTT client (cmd/agent_smith/service.go).              *)
(*                                                                         *)
(* External, modelled from how service.go uses it: the MQTT client (one    *)
(* ordered dispatch goroutine per connection, a PUBACK sent after the      *)
(* callback returns, Disconnect with a quiesce time) and the broker.       *)
(*                                                                         *)
(* A cycle is one call of runCycle.  Its channels and its context are the  *)
(* unindexed variables; the dispatch goroutine can outlive the call when   *)
(* Disconnect returns at the quiesce bound, so its state is kept per cycle.*)
(***************************************************************************)
EXTENDS Naturals, Sequences, FiniteSets

CONSTANTS
    Messages,        \* commands the broker holds for this device
    Workers,         \* message workers of a cycle (worker_count)
    QueueSize,       \* capacity of msgQueue (message_queue_size)
    InboundSize,     \* messages the MQTT client has read and not yet finished
    QoS,             \* mqtt_qos, 0 or 1 after loadConfig
    QuiesceBounded,  \* Disconnect returns at its quiesce bound although a
                     \* callback still runs (TRUE), or waits for it (FALSE)
    MaxRung,         \* steps of the reconnect backoff until its cap
    MaxCycles        \* bound on the calls of runCycle

ASSUME MessagesAssumption == IsFiniteSet(Messages)
ASSUME WorkersAssumption == IsFiniteSet(Workers)
ASSUME SizesAssumption ==
    /\ QueueSize \in Nat \ {0}
    /\ InboundSize \in Nat \ {0}
    /\ MaxRung \in Nat \ {0}
    /\ MaxCycles \in Nat \ {0}
ASSUME ModesAssumption == QoS \in {0, 1} /\ QuiesceBounded \in BOOLEAN

VARIABLES
    phase,       \* where the goroutine that runs Execute and runCycle stands
    cycle,       \* number of the current, or last, call of runCycle
    ret,         \* the pending result of runCycle: shouldReturn, clearBackoff
    rung,        \* position of the ReconnectTimeoutGenerator; 0 is "no timeout"
    stopped,     \* the stopped channel is closed
    link,        \* the connection: "down", "up" or "broken" (not yet torn down)
    lost,        \* OnConnectionLost has put its token in the lost channel
    suback,      \* the subscribe token resolved without error
    subscribed,  \* runCycle's local of that name
    draining,    \* the draining channel is closed
    cancelled,   \* cycleCtx is cancelled
    closed,      \* msgQueue is closed
    queue,       \* contents of msgQueue
    worker,      \* state of each message worker
    inbound,     \* per cycle: messages read by the MQTT client, head first
    callback,    \* per cycle: state of the subscribe callback
    brokerSub,   \* the broker holds the subscription of this connection
    broker,      \* per message: "queued", "inflight" (unacknowledged), "settled"
    started,     \* history: messages a worker has received
    dropped,     \* history: messages counted in droppedMessages
    abandoned,   \* history: messages left in msgQueue when runCycle returned
    failures,    \* history: cycles in a row that did not subscribe
    stopCycle    \* history: the value of cycle when the stop was requested

mainVars == <<phase, cycle, ret, rung, stopped>>
linkVars == <<link, lost, suback, subscribed, brokerSub>>
poolVars == <<draining, cancelled, closed, queue, worker>>
inVars   == <<inbound, callback, broker>>
history  == <<started, dropped, abandoned, failures, stopCycle>>
vars     == <<mainVars, linkVars, poolVars, inVars, history>>

Cycles == 1..MaxCycles
Ended == {"exited", "crashed"}
BeforeDrain == {"connect", "publish", "subscribe", "online", "drain"}
Teardown == {"drain", "unsubscribe", "disconnect", "quiesce", "cancel", "close", "join"}
Phases == {"loop", "start"} \cup BeforeDrain \cup Teardown \cup Ended

TypeOK ==
    /\ phase \in Phases
    /\ cycle \in 0..MaxCycles
    /\ ret \in [exit : BOOLEAN, clear : BOOLEAN]
    /\ rung \in 0..MaxRung
    /\ link \in {"down", "up", "broken"}
    /\ stopped \in BOOLEAN /\ lost \in BOOLEAN /\ suback \in BOOLEAN
    /\ subscribed \in BOOLEAN /\ brokerSub \in BOOLEAN
    /\ draining \in BOOLEAN /\ cancelled \in BOOLEAN /\ closed \in BOOLEAN
    /\ queue \in Seq(Messages) /\ Len(queue) <= QueueSize
    /\ worker \in [Workers -> {"idle", "busy", "gone"}]
    /\ inbound \in [Cycles -> Seq(Messages)]
    /\ \A c \in Cycles : Len(inbound[c]) <= InboundSize
    /\ callback \in [Cycles -> {"idle", "sending", "notifying"}]
    /\ broker \in [Messages -> {"queued", "inflight", "settled"}]
    /\ started \subseteq Messages /\ dropped \subseteq Messages /\ abandoned \subseteq Messages
    /\ failures \in 0..MaxCycles /\ stopCycle \in 0..MaxCycles

Contents(q) == {q[i] : i \in 1..Len(q)}
-----------------------------------------------------------------------------
Init ==
    /\ phase = "loop" /\ cycle = 0 /\ rung = 0 /\ stopped = FALSE
    /\ ret = [exit |-> FALSE, clear |-> FALSE]
    /\ link = "down" /\ lost = FALSE /\ suback = FALSE /\ subscribed = FALSE
    /\ brokerSub = FALSE
    /\ draining = FALSE /\ cancelled = FALSE /\ closed = FALSE
    /\ queue = <<>> /\ worker = [w \in Workers |-> "gone"]
    /\ inbound = [c \in Cycles |-> <<>>] /\ callback = [c \in Cycles |-> "idle"]
    /\ broker = [m \in Messages |-> "queued"]
    /\ started = {} /\ dropped = {} /\ abandoned = {}
    /\ failures = 0 /\ stopCycle = 0

(* ReconnectTimeoutGenerator.Next: one doubling, up to the cap. *)
NextRung(r) == IF r < MaxRung THEN r + 1 ELSE MaxRung

(* Execute on clearBackoff: rg.Clear() and then rg.Next(), so that the     *)
(* next wait has a timeout.  Mutant: the Next is missing.                  *)
ClearOnly == 0
ClearedRung == NextRung(0)

(* The process has neither exited nor died of a panic. *)
Running == phase \notin Ended

(* What the broker still owes once a connection is gone. *)
Requeue(b) == [m \in Messages |-> IF b[m] = "inflight" THEN "queued" ELSE b[m]]
-----------------------------------------------------------------------------
(* Execute: the reconnect loop. *)

(* The stop_monitor goroutine closes the stopped channel. *)
RequestStop ==
    /\ Running /\ ~stopped
    /\ stopped' = TRUE /\ stopCycle' = cycle
    /\ UNCHANGED <<phase, cycle, ret, rung, linkVars, poolVars, inVars,
                   started, dropped, abandoned, failures>>

SkipWait ==
    /\ phase = "loop" /\ rung = 0 /\ cycle < MaxCycles
    /\ phase' = "start"
    /\ UNCHANGED <<cycle, ret, rung, stopped, linkVars, poolVars, inVars, history>>

WaitStopped ==
    /\ phase = "loop" /\ rung > 0 /\ stopped
    /\ phase' = "exited"
    /\ UNCHANGED <<cycle, ret, rung, stopped, linkVars, poolVars, inVars, history>>

(* time.After fires while the goroutine is parked in the select; a stop    *)
(* that was already pending on entry would have ended the wait at once.    *)
WaitElapsed ==
    /\ phase = "loop" /\ rung > 0 /\ ~stopped /\ cycle < MaxCycles
    /\ phase' = "start"
    /\ UNCHANGED <<cycle, ret, rung, stopped, linkVars, poolVars, inVars, history>>

(* rg.Next and the head of runCycle: context, queue, draining channel and  *)
(* workers are new.  NewClientOptions fails on a key that does not decode, *)
(* so for a given configuration in the first cycle or never.               *)
StartCycle ==
    /\ phase = "start"
    /\ cycle' = cycle + 1
    /\ rung' = NextRung(rung)
    /\ draining' = FALSE /\ cancelled' = FALSE /\ closed' = FALSE
    /\ queue' = <<>> /\ worker' = [w \in Workers |-> "idle"]
    /\ link' = "down" /\ lost' = FALSE /\ suback' = FALSE /\ subscribed' = FALSE
    /\ brokerSub' = FALSE
    /\ \/ /\ phase' = "connect"
          /\ ret' = [exit |-> FALSE, clear |-> FALSE]
       \/ /\ cycle = 0
          /\ phase' = "cancel"
          /\ ret' = [exit |-> TRUE, clear |-> FALSE]
    /\ UNCHANGED <<stopped, inVars, history>>
-----------------------------------------------------------------------------
(* runCycle: connect, publish, subscribe, online. *)

(* `return shouldReturn, clearBackoff, ...` starts the deferred teardown at *)
(* the defer registered last: close(draining) once Subscribe was issued,   *)
(* the MQTT teardown before that.                                          *)
ReturnFrom(first, exit, clear) ==
    /\ phase' = first
    /\ ret' = [exit |-> exit, clear |-> clear]
    /\ UNCHANGED <<cycle, rung, stopped, linkVars, poolVars, inVars, history>>

ConnectCompleted ==
    /\ phase = "connect"
    /\ phase' = "publish" /\ link' = "up"
    /\ UNCHANGED <<cycle, ret, rung, stopped, lost, suback, subscribed, brokerSub,
                   poolVars, inVars, history>>

(* The token resolves with an error, or the wait times out. *)
ConnectFailed == phase = "connect" /\ ReturnFrom("disconnect", FALSE, FALSE)

ConnectInterrupted == phase = "connect" /\ stopped /\ ReturnFrom("disconnect", TRUE, FALSE)

(* The twin update succeeds, fails or times out: each is non-fatal, none   *)
(* looks at the stop.  Subscribe is issued right after it.                 *)
PublishProperties ==
    /\ phase = "publish"
    /\ phase' = "subscribe"
    /\ UNCHANGED <<cycle, ret, rung, stopped, linkVars, poolVars, inVars, history>>

SubscribeCompleted ==
    /\ phase = "subscribe" /\ suback
    /\ phase' = "online" /\ subscribed' = TRUE
    /\ UNCHANGED <<cycle, ret, rung, stopped, link, lost, suback, brokerSub,
                   poolVars, inVars, history>>

(* The token resolves with an error, or the wait times out: the backoff is *)
(* kept, so a throttling broker is not hammered.  Mutant: it is cleared.   *)
SubscribeFailedClears ==
    /\ phase = "subscribe" /\ ~suback
    /\ ReturnFrom("drain", FALSE, TRUE)
SubscribeFailed ==
    /\ phase = "subscribe" /\ ~suback
    /\ ReturnFrom("drain", FALSE, FALSE)

SubscribeInterrupted == phase = "subscribe" /\ stopped /\ ReturnFrom("drain", TRUE, FALSE)

(* The final select.  Notify("AgentStatus:Online") comes before it and can *)
(* take any time, so all three cases may be ready when it is entered.      *)
OnlineStopped == phase = "online" /\ stopped /\ ReturnFrom("drain", TRUE, TRUE)

OnlineLost == phase = "online" /\ lost /\ ReturnFrom("drain", FALSE, TRUE)

OnlineRenew == phase = "online" /\ ReturnFrom("drain", FALSE, TRUE)
-----------------------------------------------------------------------------
(* runCycle: the deferred teardown, last registered first. *)

(* Mutants: the draining channel is never closed; the MQTT teardown is not *)
(* run before the queue is closed.                                         *)
DrainWithoutRelease ==
    /\ phase = "drain"
    /\ phase' = IF subscribed /\ link = "up" THEN "unsubscribe" ELSE "disconnect"
    /\ UNCHANGED <<cycle, ret, rung, stopped, linkVars, poolVars, inVars, history>>
DrainSkipsDisconnect ==
    /\ phase = "drain"
    /\ draining' = TRUE
    /\ phase' = "cancel"
    /\ UNCHANGED <<cycle, ret, rung, stopped, linkVars, cancelled, closed, queue, worker,
                   inVars, history>>
Drain ==
    /\ phase = "drain"
    /\ draining' = TRUE
    /\ phase' = IF subscribed /\ link = "up" THEN "unsubscribe" ELSE "disconnect"
    /\ UNCHANGED <<cycle, ret, rung, stopped, linkVars, cancelled, closed, queue, worker,
                   inVars, history>>

(* The unsubscribe is acknowledged, fails, or its bounded wait runs out. *)
Unsubscribe ==
    /\ phase = "unsubscribe"
    /\ phase' = "disconnect"
    /\ brokerSub' \in {FALSE, brokerSub}
    /\ UNCHANGED <<cycle, ret, rung, stopped, link, lost, suback, subscribed, poolVars,
                   inVars, history>>

(* client.Disconnect closes the connection ... *)
Disconnect ==
    /\ phase = "disconnect"
    /\ phase' = "quiesce"
    /\ link' = "down" /\ brokerSub' = FALSE
    /\ broker' = Requeue(broker)
    /\ UNCHANGED <<cycle, ret, rung, stopped, lost, suback, subscribed, poolVars,
                   inbound, callback, history>>

(* ... and returns when the dispatch goroutine has ended, or at the bound. *)
Quiesced ==
    /\ phase = "quiesce"
    /\ QuiesceBounded \/ (callback[cycle] = "idle" /\ inbound[cycle] = <<>>)
    /\ phase' = "cancel"
    /\ UNCHANGED <<cycle, ret, rung, stopped, linkVars, poolVars, inVars, history>>

(* Mutant: the workers are joined without cancelling their commands.       *)
JoinWithoutCancel ==
    /\ phase = "cancel"
    /\ phase' = "close"
    /\ UNCHANGED <<cycle, ret, rung, stopped, linkVars, poolVars, inVars, history>>
CancelCycle ==
    /\ phase = "cancel"
    /\ phase' = "close" /\ cancelled' = TRUE
    /\ UNCHANGED <<cycle, ret, rung, stopped, linkVars, draining, closed, queue, worker,
                   inVars, history>>

CloseQueue ==
    /\ phase = "close"
    /\ phase' = "join" /\ closed' = TRUE
    /\ UNCHANGED <<cycle, ret, rung, stopped, linkVars, draining, cancelled, queue, worker,
                   inVars, history>>

(* wg.Wait.  Mutant: the workers are not waited for. *)
NoWait == TRUE
Joined == \A w \in Workers : worker[w] = "gone"

(* wg.Wait returns, runCycle returns, Execute acts on its result: what is  *)
(* left in msgQueue is garbage.                                            *)
JoinWorkers ==
    /\ phase = "join"
    /\ Joined
    /\ phase' = IF ret.exit THEN "exited" ELSE "loop"
    /\ rung' = IF ret.clear THEN ClearedRung ELSE rung
    /\ failures' = IF subscribed THEN 0 ELSE failures + 1
    /\ abandoned' = abandoned \cup Contents(queue)
    /\ queue' = <<>>
    /\ UNCHANGED <<cycle, ret, stopped, linkVars, draining, cancelled, closed, worker,
                   inVars, started, dropped, stopCycle>>
-----------------------------------------------------------------------------
(* The subscribe callback, on the dispatch goroutine of cycle c. *)

Draining(c) == c < cycle \/ draining
Closed(c) == c < cycle \/ closed

(* The callback returns: the client acknowledges if its connection is up.  *)
Settle(c) ==
    /\ inbound' = [inbound EXCEPT ![c] = Tail(@)]
    /\ broker' = IF c = cycle /\ link = "up"
                 THEN [broker EXCEPT ![Head(inbound[c])] = "settled"]
                 ELSE broker

Dispatch(c) ==
    /\ Running /\ callback[c] = "idle" /\ inbound[c] # <<>>
    /\ callback' = [callback EXCEPT ![c] = "sending"]
    /\ UNCHANGED <<mainVars, linkVars, poolVars, inbound, broker, history>>

(* The send case is ready.  Mutant: the queue has no capacity. *)
Unbounded == TRUE
HasRoom == Len(queue) < QueueSize

(* The draining case is ready.  Mutant: a full queue drops, too. *)
FullOrDraining(c) == Draining(c) \/ ~HasRoom
MayDrop(c) == Draining(c)

(* enqueueMessage: the send case of the select.  Mutant: the send does not *)
(* block, and a message that finds the queue full is forgotten.            *)
EnqueueOrForget(c) ==
    /\ Running /\ callback[c] = "sending" /\ ~Closed(c)
    /\ queue' = IF HasRoom THEN Append(queue, Head(inbound[c])) ELSE queue
    /\ callback' = [callback EXCEPT ![c] = "idle"]
    /\ Settle(c)
    /\ UNCHANGED <<mainVars, linkVars, draining, cancelled, closed, worker, history>>
Enqueue(c) ==
    /\ Running /\ callback[c] = "sending"
    /\ ~Closed(c) /\ HasRoom
    /\ queue' = Append(queue, Head(inbound[c]))
    /\ callback' = [callback EXCEPT ![c] = "idle"]
    /\ Settle(c)
    /\ UNCHANGED <<mainVars, linkVars, draining, cancelled, closed, worker, history>>

(* enqueueMessage: the draining case; the plugin notification takes time. *)
Drop(c) ==
    /\ Running /\ callback[c] = "sending" /\ MayDrop(c)
    /\ dropped' = dropped \cup {Head(inbound[c])}
    /\ callback' = [callback EXCEPT ![c] = "notifying"]
    /\ UNCHANGED <<mainVars, linkVars, poolVars, inbound, broker, started, abandoned,
                   failures, stopCycle>>

DropReturns(c) ==
    /\ Running /\ callback[c] = "notifying"
    /\ callback' = [callback EXCEPT ![c] = "idle"]
    /\ Settle(c)
    /\ UNCHANGED <<mainVars, linkVars, poolVars, history>>

(* A select with a send case on a closed channel panics when it picks it;  *)
(* nothing recovers a panic on the dispatch goroutine.                     *)
SendOnClosed(c) ==
    /\ Running /\ callback[c] = "sending" /\ Closed(c)
    /\ phase' = "crashed"
    /\ UNCHANGED <<cycle, ret, rung, stopped, linkVars, poolVars, inVars, history>>
-----------------------------------------------------------------------------
(* The message workers. *)

Take(w) ==
    /\ Running /\ worker[w] = "idle" /\ queue # <<>>
    /\ worker' = [worker EXCEPT ![w] = "busy"]
    /\ started' = started \cup {Head(queue)}
    /\ queue' = Tail(queue)
    /\ UNCHANGED <<mainVars, linkVars, draining, cancelled, closed, inVars,
                   dropped, abandoned, failures, stopCycle>>

(* processMessageGuarded returns, normally or by a recovered panic. *)
Finish(w) ==
    /\ Running /\ worker[w] = "busy"
    /\ worker' = [worker EXCEPT ![w] = "idle"]
    /\ UNCHANGED <<mainVars, linkVars, draining, cancelled, closed, queue, inVars, history>>

Exit(w) ==
    /\ Running /\ worker[w] = "idle"
    /\ cancelled \/ (closed /\ queue = <<>>)
    /\ worker' = [worker EXCEPT ![w] = "gone"]
    /\ UNCHANGED <<mainVars, linkVars, draining, cancelled, closed, queue, inVars, history>>
-----------------------------------------------------------------------------
(* The broker and the network. *)

(* The broker takes the subscription while the connection lasts; its       *)
(* SUBACK may come later or never.                                         *)
BrokerSubscribes ==
    /\ Running /\ phase \in {"subscribe", "drain", "disconnect"}
    /\ link = "up" /\ ~brokerSub
    /\ brokerSub' = TRUE
    /\ UNCHANGED <<mainVars, link, lost, suback, subscribed, poolVars, inVars, history>>

SubackArrives ==
    /\ Running /\ phase = "subscribe" /\ link = "up" /\ brokerSub /\ ~suback
    /\ suback' = TRUE
    /\ UNCHANGED <<mainVars, link, lost, subscribed, brokerSub, poolVars, inVars, history>>

Deliver(m) ==
    /\ Running /\ link = "up" /\ brokerSub /\ broker[m] = "queued"
    /\ Len(inbound[cycle]) < InboundSize
    /\ inbound' = [inbound EXCEPT ![cycle] = Append(@, m)]
    /\ broker' = [broker EXCEPT ![m] = IF QoS = 0 THEN "settled" ELSE "inflight"]
    /\ UNCHANGED <<mainVars, linkVars, poolVars, callback, history>>

ConnectionLost ==
    /\ Running /\ link = "up"
    /\ link' = "broken" /\ brokerSub' = FALSE
    /\ broker' = Requeue(broker)
    /\ UNCHANGED <<mainVars, lost, suback, subscribed, poolVars, inbound, callback, history>>

NotifyLost ==
    /\ Running /\ link = "broken" /\ ~lost
    /\ lost' = TRUE
    /\ UNCHANGED <<mainVars, link, suback, subscribed, brokerSub, poolVars, inVars, history>>

(* Messages read from a connection that is gone need not reach a callback. *)
InboundDiscarded(c) ==
    /\ Running /\ callback[c] = "idle" /\ inbound[c] # <<>>
    /\ c < cycle \/ link # "up"
    /\ inbound' = [inbound EXCEPT ![c] = <<>>]
    /\ UNCHANGED <<mainVars, linkVars, poolVars, callback, broker, history>>
-----------------------------------------------------------------------------
Main ==
    \/ SkipWait \/ WaitStopped \/ WaitElapsed \/ StartCycle
    \/ ConnectCompleted \/ ConnectFailed \/ ConnectInterrupted
    \/ PublishProperties
    \/ SubscribeCompleted \/ SubscribeFailed \/ SubscribeInterrupted
    \/ OnlineStopped \/ OnlineLost \/ OnlineRenew
    \/ Drain \/ Unsubscribe \/ Disconnect \/ Quiesced
    \/ CancelCycle \/ CloseQueue \/ JoinWorkers

Callback(c) ==
    Dispatch(c) \/ Enqueue(c) \/ Drop(c) \/ DropReturns(c) \/ SendOnClosed(c)

Worker(w) == Take(w) \/ Finish(w) \/ Exit(w)

Environment ==
    \/ RequestStop
    \/ BrokerSubscribes \/ SubackArrives \/ ConnectionLost \/ NotifyLost
    \/ \E m \in Messages : Deliver(m)
    \/ \E c \in Cycles : InboundDiscarded(c)

(* Once Execute has returned, or a panic was not recovered, the process is *)
(* over.                                                                   *)
Over == phase \in Ended /\ UNCHANGED vars

Next ==
    \/ Main
    \/ Environment
    \/ \E c \in Cycles : Callback(c)
    \/ \E w \in Workers : Worker(w)
    \/ Over

Spec == Init /\ [][Next]_vars

(* Every wait of the main goroutine is bounded by a timer, and goroutines  *)
(* are scheduled.  A command may run for ever until its context is         *)
(* cancelled; then it is killed.  Nothing is assumed of the broker and the *)
(* network: not even that the client ever reports a lost connection, which *)
(* waits for a blocked callback; the renewal timer is the backstop.        *)
Fairness ==
    /\ WF_vars(Main)
    /\ \A c \in Cycles : WF_vars(Callback(c))
    /\ \A w \in Workers : WF_vars(Exit(w)) /\ WF_vars(cancelled /\ Finish(w))

FairSpec == Spec /\ Fairness
-----------------------------------------------------------------------------
(* Properties. *)

(* A payload is never sent on msgQueue after the teardown closed it, which *)
(* would panic on a goroutine that nothing recovers: the comment of        *)
(* runCycle orders the deferred calls for this.                            *)
NoSendOnClosedQueue ==
    \A c \in Cycles : callback[c] = "sending" => ~Closed(c)

(* No worker is left when runCycle has returned: a command of one cycle    *)
(* never runs beside those of the next, nor after Execute returned.        *)
NoWorkerOutlivesCycle ==
    phase \in {"loop", "start", "exited"} => \A w \in Workers : worker[w] = "gone"

(* At QoS 1 a message the broker no longer owes is with the agent, was     *)
(* given to a worker, was counted as dropped, or was in the queue when a   *)
(* cycle ended: enqueueMessage and the workers lose nothing on other ways. *)
LossAccounted ==
    QoS = 1 =>
        \A m \in Messages : broker[m] = "settled" =>
            m \in started \cup Contents(queue) \cup dropped \cup abandoned

(* Back-pressure: outside a teardown a message is acknowledged only in the *)
(* step that puts it on msgQueue, so a full queue holds the broker back.   *)
AckMeansAccepted ==
    [][\A m \in Messages :
         (broker[m] = "inflight" /\ broker'[m] = "settled" /\ ~draining)
            => m \in Contents(queue')]_vars

(* The closed stopped channel is seen by the reconnect wait at the latest: *)
(* after a stop request at most one more cycle is started.                 *)
StopStartsAtMostOneCycle == stopped => cycle <= stopCycle + 1

(* Every wait before a reconnect has a timeout, and it has grown with each *)
(* cycle in a row that did not reach the broker's SUBACK.                  *)
BackoffGrows ==
    (phase = "loop" /\ cycle > 0) =>
        /\ rung >= 1
        /\ rung >= failures \/ rung = MaxRung

(* A stop request ends Execute from every phase of every cycle, with the   *)
(* callback blocked on a full queue and with commands that never end.      *)
StopHonoured == stopped ~> (phase = "exited")

(* A lost connection ends the cycle and leads to the next attempt or the   *)
(* exit; the teardown never waits for ever.                                *)
LostConnectionRecovered ==
    (phase = "online" /\ link = "broken") ~> (phase \in {"loop", "exited"})

(* README, Message Delivery Guarantee, and enqueueMessage's comment: the   *)
(* counted drop in the callback is the only way a message is discarded.    *)
OnlyDropDiscards ==
    QoS = 1 =>
        \A m \in Messages : broker[m] = "settled" =>
            m \in started \cup Contents(queue) \cup dropped

(* At QoS 1 the loop implements Delivery: a message is acknowledged in the *)
(* step that queues it or after the drop that counted it, is queued once   *)
(* per connection, and never again after the broker was released from it.  *)
Promise == INSTANCE Delivery WITH
    owed <- {m \in Messages : broker[m] # "settled"},
    held <- Contents(queue),
    ran  <- started,
    lost <- dropped \cup abandoned
ImplementsDelivery == Promise!Spec
=============================================================================
