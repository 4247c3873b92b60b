---------------------------- MODULE MCAgentCycle ----------------------------
(* Small instances of AgentCycle for TLC. *)
EXTENDS AgentCycle, TLC

CONSTANTS m1, m2, m3, w1, w2

TwoMessages == {m1, m2}
ThreeMessages == {m1, m2, m3}
OneWorker == {w1}
TwoWorkers == {w1, w2}

(* Commands and workers are interchangeable; sound for safety only. *)
Symmetry == Permutations(Messages) \cup Permutations(Workers)
=============================================================================
