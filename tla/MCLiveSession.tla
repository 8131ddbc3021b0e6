---------------------------- MODULE MCLiveSession ----------------------------
(* Remote access on small instances: one or two sessions of one machine.     *)
EXTENDS LiveSession

CONSTANTS s1, s2
=============================================================================
