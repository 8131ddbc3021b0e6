---------------------------- MODULE MCFleetStatus ----------------------------
(* A store with two machines, so that each is the other's only relay.        *)
EXTENDS FleetStatus, TLC

CONSTANTS m1, m2, store

MCSite == (m1 :> store) @@ (m2 :> store)
=============================================================================
