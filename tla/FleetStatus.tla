----------------------------- MODULE FleetStatus -----------------------------
(***************************************************************************)
(* Presence of the machines, offline mail, and Wake-on-LAN.                *)
(*                                                                         *)
(* The server keeps one row per machine (server/db.js): status, last_seen, *)
(* wol_status, wol_tested_at.  An agent's heartbeat or registration makes  *)
(* its machine 'online'; every 30 s alertEngine.checkAll makes the silent  *)
(* ones 'offline' (with at most one mail each), closes the WoL tests that  *)
(* are 3 min old and sends magic packets, through another machine of the   *)
(* same place, to machines that have been away for 10 min.                 *)
(*                                                                         *)
(* The server is one Node process and every handler here runs without an   *)
(* await between its first read and its last write: one action each, the   *)
(* whole of checkAll included.  Times are ages in ticks that saturate one  *)
(* tick above the longest limit; the limits keep the order of the code's   *)
(* 90 s, 3 min and 10 min.  The cooldown that nothing else is compared with*)
(* (30 min between mails) is a flag that may expire at any moment.         *)
(***************************************************************************)
EXTENDS Naturals

CONSTANTS
    Machine,        \* the machines, named by their UUID
    Site,           \* [Machine -> places]: the row's location
    OfflineAfter,   \* 90 s without contact: offline          (checkOffline)
    TestLimit,      \* 3 min after the packet: test closed    (checkWolTests)
    WakeAfter,      \* 10 min offline: sent a packet          (checkAutoWake)
    AlertSwitch,    \* the values alerts.offlineEnabled takes in config.json
    AutoWakeSwitch, \* the values autoWake.enabled takes in config.json
    Subject,        \* bound: the machines that requests, power cuts and
                    \*        driver checks happen to
    MaxAsked,       \* bound: requests of the operator (wol, DELETE)
    MaxFaults       \* bound: power cuts, lost answers, server restarts

ASSUME FleetAssumption ==
    /\ OfflineAfter \in Nat /\ TestLimit \in Nat /\ WakeAfter \in Nat
    /\ OfflineAfter < TestLimit /\ TestLimit < WakeAfter
    /\ AlertSwitch \subseteq BOOLEAN /\ AutoWakeSwitch \subseteq BOOLEAN
    /\ Subject \subseteq Machine /\ MaxAsked \in Nat /\ MaxFaults \in Nat

VARIABLES
    \* the table machines
    known, status, seen, wol, tested, mac,
    \* server: Map offlineAlertCooldown, commands 'wol'
    cooling, packets,
    \* the agents: powered on, holding the row's token, their wolEnabled
    powered, token, driver,
    \* observers: mails and ticks since the last contact, contact since the test
    mails, silence, heard,
    asked, faults

row       == <<known, status, seen, wol, tested, mac>>
agents    == <<powered, token, driver>>
observers == <<mails, silence, heard>>
vars == <<row, cooling, packets, agents, observers, asked, faults>>

WolStatus == {"unknown", "driver_enabled", "driver_disabled", "testing",
              "bios_needed", "wol_confirmed", "wol_auto_testing"}
Driver    == {"nil", "true", "false"}

\* The limits and ages are ticks; an age stops growing one past the longest.
Age      == 0 .. (WakeAfter + 1)
Older(a) == IF a <= WakeAfter THEN a + 1 ELSE a

TypeOK ==
    /\ known \in [Machine -> BOOLEAN]
    /\ status \in [Machine -> {"online", "offline"}]
    /\ seen \in [Machine -> Age]
    /\ wol \in [Machine -> WolStatus]
    /\ tested \in [Machine -> Age]
    /\ mac \in [Machine -> BOOLEAN]
    /\ cooling \in [Machine -> BOOLEAN]
    /\ packets \subseteq Machine \X Machine
    /\ powered \in [Machine -> BOOLEAN]
    /\ token \in [Machine -> BOOLEAN]
    /\ driver \in [Machine -> Driver]
    /\ mails \in [Machine -> Nat]
    /\ silence \in [Machine -> Age]
    /\ heard \in [Machine -> BOOLEAN]
    /\ asked \in 0 .. MaxAsked
    /\ faults \in 0 .. MaxFaults

\* A fleet of registered, online machines whose agents have just started.
Init ==
    /\ known = [m \in Machine |-> TRUE]
    /\ status = [m \in Machine |-> "online"]
    /\ seen = [m \in Machine |-> 0]
    /\ wol = [m \in Machine |-> "unknown"]
    /\ tested = [m \in Machine |-> 0]
    /\ mac = [m \in Machine |-> FALSE]
    /\ cooling = [m \in Machine |-> FALSE]
    /\ packets = {}
    /\ powered = [m \in Machine |-> TRUE]
    /\ token = [m \in Machine |-> TRUE]
    /\ driver = [m \in Machine |-> "nil"]
    /\ mails = [m \in Machine |-> 0]
    /\ silence = [m \in Machine |-> 0]
    /\ heard = [m \in Machine |-> TRUE]
    /\ asked = 0
    /\ faults = 0

-----------------------------------------------------------------------------
(* The agent's side of the server: POST /heartbeat and POST /register.       *)

WOL_PROTECTED == {"wol_confirmed", "testing", "bios_needed"}

\* getUpdatedWolStatus: what the driver says counts unless a test has spoken.
\* wolEnabled is undefined until collectWolStatus has run (omitempty).
HeartbeatWol(m) ==
    IF driver[m] = "nil" \/ wol[m] \in WOL_PROTECTED THEN wol[m]
    ELSE IF driver[m] = "true" THEN "driver_enabled"
    ELSE "driver_disabled"

\* setMachineStatus(id, 'online') and what the observers make of it.
Contact(m) ==
    /\ status' = [status EXCEPT ![m] = "online"]
    /\ seen' = [seen EXCEPT ![m] = 0]
    /\ mails' = [mails EXCEPT ![m] = 0]
    /\ silence' = [silence EXCEPT ![m] = 0]
    /\ heard' = [heard EXCEPT ![m] = TRUE]

\* A heartbeat the server accepts; the cooldown is cleared if the row says
\* 'offline'.  A refused or lost heartbeat (429, no network) is no step.
Heartbeat(m) ==
    /\ powered[m] /\ known[m] /\ token[m]
    /\ cooling' = [cooling EXCEPT ![m] = @ /\ status[m] # "offline"]
    /\ Contact(m)
    /\ mac' = [mac EXCEPT ![m] = TRUE]
    /\ wol' = [wol EXCEPT ![m] = HeartbeatWol(m)]
    /\ UNCHANGED <<known, tested, packets, agents, asked, faults>>

\* Whether the answer of /register, with the token, reaches the agent.
Answered(m) ==
    \/ token' = [token EXCEPT ![m] = TRUE] /\ UNCHANGED faults
    \/ /\ faults < MaxFaults /\ faults' = faults + 1
       /\ UNCHANGED token

\* An agent without a token the server knows is answered 401 and registers:
\* a row that exists is brought up to date (registerMachine, case 1) ...
RegisterKnown(m) ==
    /\ powered[m] /\ known[m] /\ ~token[m]
    /\ Contact(m) /\ Answered(m)
    /\ UNCHANGED <<known, wol, tested, mac, cooling, packets,
                   powered, driver, asked>>

\* ... and a machine without one gets a new row (case 3).  The columns of an
\* absent row hold the defaults of the table (see Delete).
RegisterNew(m) ==
    /\ powered[m] /\ ~known[m]
    /\ known' = [known EXCEPT ![m] = TRUE]
    /\ Contact(m) /\ Answered(m)
    /\ UNCHANGED <<wol, tested, mac, cooling, packets, powered, driver, asked>>

-----------------------------------------------------------------------------
(* alertEngine.checkAll, in the order of its calls.                          *)

\* Mutant: the query forgets the status.
MutStaleAnyStatus(m) == known[m] /\ seen[m] > OfflineAfter

\* getMachinesStale: 'online' rows whose last_seen is past the limit.
Stale(m) == known[m] /\ status[m] = "online" /\ seen[m] > OfflineAfter

\* Mutant: nobody is marked offline.
MutKeepsStatus(m) == status[m]

\* setMachineStatus(id, 'offline') also moves last_seen to now.
StatusThen(m) == IF Stale(m) THEN "offline" ELSE status[m]
SeenThen(m)   == IF Stale(m) THEN 0 ELSE seen[m]

\* maybeSendOfflineNotification: neither switched off nor in cooldown.
Mailed(m, alerts) == Stale(m) /\ alerts /\ ~cooling[m]

\* Only a row with that status, and a packet that is 3 min old.
TestIsOver(m, kind) == known[m] /\ wol[m] = kind /\ tested[m] > TestLimit

\* Mutant: tests are judged before checkOffline.
MutTestsBeforeOffline(m) ==
    IF ~TestIsOver(m, "testing") THEN wol[m]
    ELSE IF status[m] = "online" THEN "wol_confirmed"
    ELSE "bios_needed"

\* Mutant: a silent machine keeps its test open.
MutWaitsForAnswer(m) ==
    IF TestIsOver(m, "testing") /\ StatusThen(m) = "online"
    THEN "wol_confirmed" ELSE wol[m]

\* checkWolTests reads the status checkOffline has just brought up to date.
AfterWolTests(m) ==
    IF ~TestIsOver(m, "testing") THEN wol[m]
    ELSE IF StatusThen(m) = "online" THEN "wol_confirmed"
    ELSE "bios_needed"

\* checkWolAutoTests: success and failure differ in the mail only.
AfterAutoTests(m) ==
    IF TestIsOver(m, "wol_auto_testing") THEN "wol_confirmed"
    ELSE AfterWolTests(m)

\* Another machine of the same place, online, that can send the packet.
Relays(m) == {r \in Machine \ {m} :
                 known[r] /\ StatusThen(r) = "online" /\ Site[r] = Site[m]}
Relay(m)  == CHOOSE r \in Relays(m) : TRUE

\* Mutant: the ten minutes are forgotten.
MutWakesAtOnce(m) ==
    /\ known[m] /\ StatusThen(m) = "offline"
    /\ AfterAutoTests(m) = "wol_confirmed"
    /\ mac[m]
    /\ Relays(m) # {}

\* getMachinesOfflineForWake, and a relay to send the packet.
ToWake(m) ==
    /\ known[m] /\ StatusThen(m) = "offline"
    /\ AfterAutoTests(m) = "wol_confirmed"
    /\ mac[m] /\ SeenThen(m) > WakeAfter
    /\ Relays(m) # {}

Check(alerts, waking) ==
    LET woken == {m \in Machine : waking /\ ToWake(m)} IN
    /\ status' = [m \in Machine |-> StatusThen(m)]
    /\ seen' = [m \in Machine |-> SeenThen(m)]
    /\ cooling' = [m \in Machine |-> cooling[m] \/ Mailed(m, alerts)]
    /\ mails' = [m \in Machine |->
                    IF Mailed(m, alerts) THEN mails[m] + 1 ELSE mails[m]]
    /\ wol' = [m \in Machine |-> IF m \in woken THEN "wol_auto_testing"
                                 ELSE AfterAutoTests(m)]
    /\ tested' = [m \in Machine |-> IF m \in woken THEN 0 ELSE tested[m]]
    /\ heard' = [m \in Machine |-> heard[m] /\ m \notin woken]
    /\ packets' = packets \cup {<<Relay(m), m>> : m \in woken}
    /\ UNCHANGED <<known, mac, agents, silence, asked, faults>>

\* config.json is read again at every check.
CheckAll ==
    \E alerts \in AlertSwitch, waking \in AutoWakeSwitch : Check(alerts, waking)

-----------------------------------------------------------------------------
(* The operator: POST /machines/:id/commands {wol}, DELETE /machines/:id.    *)

\* handleWolSetup writes the target's row, if there is one.
AskWol(r, m) ==
    /\ m \in Subject /\ asked < MaxAsked /\ asked' = asked + 1
    /\ known[r]
    /\ packets' = packets \cup {<<r, m>>}
    /\ wol' = [wol EXCEPT ![m] = IF known[m] THEN "testing" ELSE @]
    /\ tested' = [tested EXCEPT ![m] = IF known[m] THEN 0 ELSE @]
    /\ heard' = [heard EXCEPT ![m] = @ /\ ~known[m]]
    /\ UNCHANGED <<known, status, seen, mac, cooling, agents, mails,
                   silence, faults>>

\* deleteMachine: the row and its commands go.  The line that deleted_machines
\* gets is read by nothing: isDeletedMachine has no caller.
Delete(m) ==
    /\ m \in Subject /\ asked < MaxAsked /\ asked' = asked + 1
    /\ known[m]
    /\ known' = [known EXCEPT ![m] = FALSE]
    /\ status' = [status EXCEPT ![m] = "offline"]
    /\ seen' = [seen EXCEPT ![m] = 0]
    /\ wol' = [wol EXCEPT ![m] = "unknown"]
    /\ tested' = [tested EXCEPT ![m] = 0]
    /\ mac' = [mac EXCEPT ![m] = FALSE]
    /\ token' = [token EXCEPT ![m] = FALSE]
    /\ packets' = {p \in packets : p[1] # m}
    /\ UNCHANGED <<cooling, powered, driver, observers, faults>>

-----------------------------------------------------------------------------
(* The machines and the passage of time.                                     *)

\* The relay's agent fetched the command and sent the packet: the machine may
\* start, or not (BIOS, cable, a lost command), or be on already.
PacketSpent(r, m) ==
    /\ <<r, m>> \in packets /\ powered[r]
    /\ packets' = packets \ {<<r, m>>}
    /\ \/ UNCHANGED powered
       \/ powered' = [powered EXCEPT ![m] = TRUE]
    /\ UNCHANGED <<row, cooling, token, driver, observers, asked,
                   faults>>

PowerOn(m) ==
    /\ ~powered[m]
    /\ powered' = [powered EXCEPT ![m] = TRUE]
    /\ UNCHANGED <<row, cooling, packets, token, driver, observers,
                   asked, faults>>

\* wolEnabled lives in the agent's memory: it is nil again after a start.
PowerOff(m) ==
    /\ m \in Subject /\ faults < MaxFaults /\ faults' = faults + 1
    /\ powered[m]
    /\ powered' = [powered EXCEPT ![m] = FALSE]
    /\ driver' = [driver EXCEPT ![m] = "nil"]
    /\ UNCHANGED <<row, cooling, packets, token, observers, asked>>

\* collectWolStatus, once per run of the agent, in a goroutine of its own.
CollectWolStatus(m) ==
    /\ m \in Subject /\ powered[m] /\ driver[m] = "nil"
    /\ \E enabled \in {"true", "false"} :
          driver' = [driver EXCEPT ![m] = enabled]
    /\ UNCHANGED <<row, cooling, packets, powered, token, observers,
                   asked, faults>>

\* The server's process restarts: the rows stay, the Map of cooldowns goes.
ServerRestart ==
    /\ faults < MaxFaults /\ faults' = faults + 1
    /\ cooling' = [m \in Machine |-> FALSE]
    /\ UNCHANGED <<row, packets, agents, observers, asked>>

CooldownExpires(m) ==
    /\ cooling[m] /\ cooling' = [cooling EXCEPT ![m] = FALSE]
    /\ UNCHANGED <<row, packets, agents, observers, asked, faults>>

Tick ==
    /\ seen' = [m \in Machine |-> IF known[m] THEN Older(seen[m]) ELSE 0]
    /\ tested' = [m \in Machine |-> IF known[m] THEN Older(tested[m]) ELSE 0]
    /\ silence' = [m \in Machine |-> Older(silence[m])]
    /\ UNCHANGED <<known, status, wol, mac, cooling, packets, agents,
                   mails, heard, asked, faults>>

MachineStep(m) ==
    \/ Heartbeat(m) \/ RegisterKnown(m) \/ RegisterNew(m)
    \/ Delete(m)
    \/ PowerOn(m) \/ PowerOff(m) \/ CollectWolStatus(m)
    \/ CooldownExpires(m)

PacketStep(r, m) == AskWol(r, m) \/ PacketSpent(r, m)

Next ==
    \/ CheckAll \/ ServerRestart \/ Tick
    \/ \E m \in Machine : MachineStep(m)
    \/ \E r \in Machine, m \in Machine : PacketStep(r, m)

Spec == Init /\ [][Next]_vars

\* Time passes and setInterval(checkAll, 30 s) keeps firing.
FairSpec == Spec /\ WF_vars(Tick) /\ WF_vars(CheckAll)
-----------------------------------------------------------------------------
(* What the server owes its users.                                           *)

\* One outage, one mail: between two contacts with a machine at most one
\* offline mail goes out, whatever the cooldown does and however often the
\* server restarts and forgets it (maybeSendOfflineNotification).
OneMailPerOutage == \A m \in Machine : mails[m] <= 1

\* A manual test ends in 'wol_confirmed' only for a machine that has made
\* contact since the packet was asked for: a status left over from before
\* never passes for an answer, because checkOffline comes before checkWolTests
\* and its limit is the shorter one.
ConfirmedChange ==
    \A m \in Machine :
        wol[m] = "testing" /\ wol'[m] \in {"wol_confirmed", "wol_auto_testing"}
            => heard[m]
ConfirmedMeansHeard == [][ConfirmedChange]_vars

\* Auto-wake sends a packet only to a machine that has been silent for longer
\* than the limit, although going offline moves its last_seen (checkAutoWake).
WakeChange ==
    \A m \in Machine :
        wol'[m] = "wol_auto_testing" /\ tested'[m] = 0 /\ tested[m] > 0
            => silence[m] > WakeAfter
WakesOnlyTheSilent == [][WakeChange]_vars

\* 'bios_needed', which mails a technician, comes from a manual test only, and
\* only for a machine that is silent now (the plan of 2026-06-06, line 773).
BiosChange ==
    \A m \in Machine :
        wol[m] # "bios_needed" /\ wol'[m] = "bios_needed"
            => wol[m] = "testing" /\ silence[m] > OfflineAfter
BiosNeedsManualTest == [][BiosChange]_vars

\* A machine switched off for good ends up 'offline', or without a row.
SilentGoesOffline ==
    \A m \in Machine :
        <>[](~powered[m]) => <>[](~known[m] \/ status[m] = "offline")

\* A manual test does not stay open: the operator asks a bounded number of
\* times, and every test is closed by the first check after its 3 min.
TestsConclude == \A m \in Machine : []<>(wol[m] # "testing")

-----------------------------------------------------------------------------
(* What a document or a comment says and the code does not do.               *)

\* docs/superpowers/plans/2026-06-06-bios-report-and-auto-wake.md, line 10:
\* auto-wake's own status reverts to 'wol_confirmed' when the attempt is over
\* (a manual test may take its place).
AutoTestReturns ==
    [][\A m \in Machine :
          wol[m] = "wol_auto_testing" /\ known'[m] =>
              wol'[m] \in {"wol_auto_testing", "wol_confirmed", "testing"}]_vars

=============================================================================
