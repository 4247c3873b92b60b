------------------------ MODULE MCNotifierSupervisor ------------------------
(* Small instances of NotifierSupervisor for TLC. *)
EXTENDS NotifierSupervisor, TLC

CONSTANTS c1, c2, p1, p2, p3

OneCaller == {c1}
TwoCallers == {c1, c2}
TwoHandles == {p1, p2}
ThreeHandles == {p1, p2, p3}

(* Callers and handles are interchangeable; sound for safety only. *)
Symmetry == Permutations(Callers) \cup Permutations(Handles)
=============================================================================
