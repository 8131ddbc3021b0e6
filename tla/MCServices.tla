------------------------------- MODULE MCServices -------------------------------
(***************************************************************************)
(* ServiceParts on small instances: one machine and one dashboard where        *)
(* nothing needs two of them (the values are in Services.cfg).                 *)
(***************************************************************************)
EXTENDS ServiceParts

CONSTANTS c1, c2, m1

\* Both commands are for the one machine.
MCDest == [c \in {c1, c2} |-> m1]
=============================================================================
