------------------------------ MODULE Delivery ------------------------------
(***************************************************************************)
(* What the agent promises about a command that the broker holds for it at *)
(* QoS 1 (README, Message Delivery Guarantee): the broker is released from *)
(* it when the agent has accepted it or has counted it as dropped, and not *)
(* before; an accepted command is run, or lost with its connection cycle;  *)
(* a command that the broker was released from is not accepted again.      *)
(* AgentCycle is shown to implement this.                                  *)
(***************************************************************************)
CONSTANT Messages

VARIABLES
    owed,   \* the broker still has to deliver it
    held,   \* accepted, not yet given to a worker
    ran,    \* given to a worker at least once
    lost    \* counted as dropped, or held when its cycle ended

vars == <<owed, held, ran, lost>>

Init == owed = Messages /\ held = {} /\ ran = {} /\ lost = {}

(* The acknowledgement may not reach the broker any more. *)
Accept(m) ==
    /\ m \in owed \ held
    /\ held' = held \cup {m}
    /\ owed' \in {owed, owed \ {m}}
    /\ UNCHANGED <<ran, lost>>

Run(m) ==
    /\ m \in held
    /\ held' = held \ {m} /\ ran' = ran \cup {m}
    /\ UNCHANGED <<owed, lost>>

Drop(m) == lost' = lost \cup {m} /\ UNCHANGED <<owed, held, ran>>

Release(m) ==
    /\ m \in lost
    /\ owed' = owed \ {m}
    /\ UNCHANGED <<held, ran, lost>>

EndCycle ==
    /\ held' = {} /\ lost' = lost \cup held
    /\ UNCHANGED <<owed, ran>>

Next == \/ \E m \in Messages : Accept(m) \/ Run(m) \/ Drop(m) \/ Release(m)
        \/ EndCycle

Spec == Init /\ [][Next]_vars
=============================================================================
