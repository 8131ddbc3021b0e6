------------------------------- MODULE MCReturns -------------------------------
(***************************************************************************)
(* The two machines that must come back by themselves, in one model: remote   *)
(* access to a machine whose store wants its input back (LiveSession), and a  *)
(* fleet that falls silent (FleetStatus).  They share no state; in a          *)
(* behaviour one of them moves (part).                                       *)
(***************************************************************************)
EXTENDS FleetStatus, TLC

CONSTANTS s1, m1, m2, store, NoSession

VARIABLES
  part,
  \* LiveSession
  lockedBy, blocked, timer, expired, relay, companionWs, dashboardWs, pendingUnlock,
  commands, companionUp, liveSessions, stopCh, loop, reader, conn, toCompanion, dash,
  attempt, toServer, inputLocked, toggles, liveFaults

sessionVars == <<lockedBy, blocked, timer, expired, relay, companionWs, dashboardWs,
  pendingUnlock, commands, companionUp, liveSessions, stopCh, loop, reader, conn,
  toCompanion, dash, attempt, toServer, inputLocked, toggles, liveFaults>>
all == <<part, vars, sessionVars>>

\* A store with two machines, each the other's only relay.
MCSite == (m1 :> store) @@ (m2 :> store)

\* One session; no failure of BlockInput, no lost command, two faults.
Live == INSTANCE LiveSession WITH
  Session <- {s1}, Shadow <- {}, BlockResults <- {TRUE}, LossyCommands <- FALSE,
  MaxToggles <- 3, MaxFaults <- 2, faults <- liveFaults

Begins ==
  /\ part \in {"live", "fleet"}
  /\ Live!Init
  /\ Init

Moves ==
  \/ part = "live" /\ Live!Next /\ UNCHANGED <<part, vars>>
  \/ part = "fleet" /\ Next /\ UNCHANGED <<part, sessionVars>>

\* First line of defence (CaptureSpec): frames can be captured; the failsafe need
\* not fire.  Nothing that is fair there is enabled where no session was ever
\* started.  In the fleet time passes and checkAll runs.
FairReturns ==
  /\ Begins /\ [][Moves]_all
  /\ Live!RunFairness /\ WF_sessionVars(Live!WriteFails(s1))
  /\ WF_vars(part = "fleet" /\ Tick) /\ WF_vars(part = "fleet" /\ CheckAll)

-----------------------------------------------------------------------------
(* The input of the machine is blocked only for an owner (InputLock).          *)
BlockedMeansOwner == Live!BlockedMeansOwner

(* The store gets its input back when its operator is gone (LiveSession).       *)
OperatorGoneUnlocks == Live!OperatorGoneUnlocks

(* A session that was stopped ends (LiveSession).                              *)
StopEndsSession == Live!StopEndsSession
=============================================================================
