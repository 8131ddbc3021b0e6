--------------------------- MODULE MCCommandQueue ---------------------------
(* CommandQueue on small instances: the commands of the configuration go to   *)
(* one machine.                                                              *)
EXTENDS CommandQueue

CONSTANTS m1, m2, c1, c2, c3

\* All commands to one machine.
MCDestOne == [c \in Cmd |-> m1]
=============================================================================
