--------------------------- MODULE MCCommandExec ---------------------------
(* Small instances of CommandExec for TLC. *)
EXTENDS CommandExec

CONSTANTS c1, c2

OneCommand == {c1}
TwoCommands == {c1, c2}
=============================================================================
