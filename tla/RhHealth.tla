------------------------------- MODULE RhHealth -------------------------------
(***************************************************************************)
(* services/rhHealthMonitor.js and services/resendAlert.js: every 5 minutes     *)
(* the server asks itself for the state of the time clocks and mails what is   *)
(* wrong, at most once per kind and ALERT_COOLDOWN_MS.                         *)
(***************************************************************************)
EXTENDS Naturals

CONSTANTS Cooldown,    \* ALERT_COOLDOWN_MS in polls
          MaxRefused,  \* bound: mails that Resend refuses
          MaxRestarts  \* bound: restarts of the server

Kinds == {"token", "connection", "clocks"}

VARIABLES
  world,    \* what /api/rh/clocks/status meets: "fine", no token, a proxy that
            \* refuses the "connection" or "hangs", missing "clocks"
  failures, \* consecutiveConnFailures, up to the threshold
  muted,    \* polls left until a kind of alert may be mailed again
  enabled,  \* alerts.offlineEnabled
  keyed,    \* config.json or the environment has a Resend key
  mailed,   \* the kind of the last mail, or "none"
  refused, restarts

vars == <<world, failures, muted, enabled, keyed, mailed, refused, restarts>>

FAILURE_THRESHOLD == 2
Worlds == {"fine", "token", "connection", "hangs", "clocks"}

TypeOK ==
  /\ world \in Worlds /\ failures \in 0..FAILURE_THRESHOLD
  /\ muted \in [Kinds -> 0..Cooldown] /\ enabled \in BOOLEAN /\ keyed \in BOOLEAN
  /\ mailed \in Kinds \cup {"none"}

Init ==
  /\ world \in Worlds /\ enabled \in BOOLEAN /\ keyed \in BOOLEAN
  /\ failures = 0
  /\ muted = [k \in Kinds |-> 0]
  /\ mailed = "none"
  /\ refused = 0 /\ restarts = 0

Cooled == [k \in Kinds |-> IF muted[k] = 0 THEN 0 ELSE muted[k] - 1]

NoAlert == muted' = Cooled /\ mailed' = "none" /\ UNCHANGED refused

(* sendAlert: the cooldown starts before Resend has answered, and a refused    *)
(* mail does not lift it; without a key none starts.                          *)
SendAlert(k) ==
  IF enabled /\ muted[k] = 0 /\ keyed
    THEN /\ muted' = [Cooled EXCEPT ![k] = Cooldown]
         /\ \/ mailed' = k /\ UNCHANGED refused
            \/ refused < MaxRefused /\ refused' = refused + 1 /\ mailed' = "none"
    ELSE NoAlert

AtMostThreshold(n) == IF n < FAILURE_THRESHOLD THEN n ELSE FAILURE_THRESHOLD

TokenMissing == world = "token" /\ failures' = 0 /\ SendAlert("token")

MutCountsOne ==  \* mutation: the counter is set, not incremented
  /\ world = "connection"
  /\ failures' = 1
  /\ IF failures' < FAILURE_THRESHOLD THEN NoAlert ELSE SendAlert("connection")

(* handleConnFailed: the second failure in a row is mailed.                   *)
ConnFailed ==
  /\ world = "connection"
  /\ failures' = AtMostThreshold(failures + 1)
  /\ IF failures' < FAILURE_THRESHOLD THEN NoAlert ELSE SendAlert("connection")

Success ==
  /\ world \in {"fine", "clocks"}
  /\ failures' = 0
  /\ IF world = "clocks" THEN SendAlert("clocks") ELSE NoAlert

(* fetchClocksStatus gives up after 15 s while the route still waits for the   *)
(* proxy: checkOnce takes it for a failure of the server itself.               *)
TimedOut == world = "hangs" /\ NoAlert /\ UNCHANGED failures

CheckOnce ==
  /\ TokenMissing \/ ConnFailed \/ Success \/ TimedOut
  /\ UNCHANGED <<world, enabled, keyed, restarts>>

WorldChanges ==
  /\ world' \in Worlds \ {world}
  /\ UNCHANGED <<failures, muted, enabled, keyed, mailed, refused, restarts>>

(* config.json is read again for every alert.                                 *)
Switch ==
  /\ \/ enabled' = ~enabled /\ UNCHANGED keyed
     \/ keyed' = ~keyed /\ UNCHANGED enabled
  /\ UNCHANGED <<world, failures, muted, mailed, refused, restarts>>

(* start after a restart: nothing is remembered.                              *)
Restart ==
  /\ restarts < MaxRestarts /\ restarts' = restarts + 1
  /\ failures' = 0 /\ muted' = [k \in Kinds |-> 0]
  /\ mailed' = "none"
  /\ UNCHANGED <<world, enabled, keyed, refused>>

Next == CheckOnce \/ WorldChanges \/ Switch \/ Restart

Spec == Init /\ [][Next]_vars

(* The interval timer fires.                                                  *)
FairSpec == Spec /\ WF_vars(CheckOnce)

-----------------------------------------------------------------------------
(* A proxy that refuses connections for good is mailed about, however many     *)
(* mails were refused before and whatever else went wrong, while alerts are on  *)
(* and there is a key to mail with; without one sendAlert only writes a line    *)
(* to the log.                                                               *)
OutageIsMailed ==
  (world = "connection" /\ enabled /\ keyed)
    ~> (mailed = "connection" \/ world # "connection" \/ ~enabled \/ ~keyed)

=============================================================================
