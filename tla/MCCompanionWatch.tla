-------------------------- MODULE MCCompanionWatch --------------------------
(* One machine: see the configuration. *)
EXTENDS CompanionWatch, TLC
=============================================================================
