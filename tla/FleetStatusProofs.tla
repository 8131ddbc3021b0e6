-------------------------- MODULE FleetStatusProofs --------------------------
(***************************************************************************)
(* Theorems about FleetStatus, for every set of machines, every placement  *)
(* of them and every three limits in the order of the code's.              *)
(***************************************************************************)
EXTENDS FleetStatus, TLAPS

\* Only a row is online or under test.
RowInv ==
    \A m \in Machine :
        ~known[m] => status[m] = "offline" /\ wol[m] = "unknown" /\ tested[m] = 0

\* An online machine has no mail since its last contact.
MailInv ==
    \A m \in Machine :
        mails[m] <= 1 /\ (status[m] = "online" => mails[m] = 0)

\* last_seen is never older than the last contact; an offline machine has been
\* silent for the limit.
SilenceInv ==
    \A m \in Machine :
        known[m] =>
            /\ seen[m] <= silence[m]
            /\ status[m] = "offline" => silence[m] > OfflineAfter

\* An online machine that has not been heard since its test began was last
\* seen before it.
HeardInv ==
    \A m \in Machine :
        status[m] = "online" /\ wol[m] = "testing" /\ ~heard[m]
            => tested[m] <= seen[m]

IInv == TypeOK /\ RowInv /\ MailInv /\ SilenceInv /\ HeardInv

\* Ages grow, keep their order, and saturate.
LEMMA OlderFacts ==
    ASSUME NEW a \in Age, NEW b \in Age
    PROVE  /\ Older(a) \in Age
           /\ a <= Older(a)
           /\ a <= b => Older(a) <= Older(b)
BY FleetAssumption DEF Age, Older

LEMMA InvInit == Init => IInv
<1> SUFFICES ASSUME Init PROVE IInv
  OBVIOUS
<1>1. TypeOK
  BY FleetAssumption DEF Init, TypeOK, Age, WolStatus, Driver
<1>2. RowInv /\ MailInv /\ SilenceInv /\ HeardInv
  BY FleetAssumption DEF Init, RowInv, MailInv, SilenceInv, HeardInv
<1> QED BY <1>1, <1>2 DEF IInv

\* Counting one more within a bound.
LEMMA Count ==
    ASSUME NEW n \in Nat, NEW k \in 0 .. n, k < n
    PROVE  k + 1 \in 0 .. n
OBVIOUS

-----------------------------------------------------------------------------
(* Type correctness.                                                         *)

LEMMA TypeStep == TypeOK /\ [Next]_vars => TypeOK'
<1> SUFFICES ASSUME TypeOK, [Next]_vars PROVE TypeOK'
  OBVIOUS
<1> USE FleetAssumption DEF TypeOK, row, agents, observers
<1>0. 0 \in Age /\ \A a \in Age : Older(a) \in Age
  BY OlderFacts DEF Age
<1>1. ASSUME NEW m \in Machine, Heartbeat(m) PROVE TypeOK'
  <2>1. HeartbeatWol(m) \in WolStatus
    BY DEF HeartbeatWol, WolStatus, Driver
  <2> QED BY <1>0, <1>1, <2>1 DEF Heartbeat, Contact
<1>2. ASSUME NEW m \in Machine, RegisterKnown(m) PROVE TypeOK'
  <2>1. token' \in [Machine -> BOOLEAN] /\ faults' \in 0 .. MaxFaults
    <3>1. CASE token' = [token EXCEPT ![m] = TRUE] /\ UNCHANGED faults
      BY <3>1
    <3>2. CASE faults < MaxFaults /\ faults' = faults + 1 /\ UNCHANGED token
      BY <3>2, Count
    <3> QED BY <1>2, <3>1, <3>2 DEF RegisterKnown, Answered
  <2> QED BY <1>0, <1>2, <2>1 DEF RegisterKnown, Contact
<1>3. ASSUME NEW m \in Machine, RegisterNew(m) PROVE TypeOK'
  <2>1. token' \in [Machine -> BOOLEAN] /\ faults' \in 0 .. MaxFaults
    <3>1. CASE token' = [token EXCEPT ![m] = TRUE] /\ UNCHANGED faults
      BY <3>1
    <3>2. CASE faults < MaxFaults /\ faults' = faults + 1 /\ UNCHANGED token
      BY <3>2, Count
    <3> QED BY <1>3, <3>1, <3>2 DEF RegisterNew, Answered
  <2> QED BY <1>0, <1>3, <2>1 DEF RegisterNew, Contact
<1>4. ASSUME NEW m \in Machine, Delete(m) PROVE TypeOK'
  BY <1>0, <1>4 DEF Delete, WolStatus
<1>5. ASSUME NEW m \in Machine, PowerOff(m) PROVE TypeOK'
  BY <1>5, Count DEF PowerOff, Driver
<1>12. ASSUME NEW m \in Machine,
              PowerOn(m) \/ CollectWolStatus(m)
              \/ CooldownExpires(m)
       PROVE  TypeOK'
  BY <1>12 DEF PowerOn, CollectWolStatus, CooldownExpires, Driver
<1>6. ASSUME NEW r \in Machine, NEW m \in Machine, AskWol(r, m) PROVE TypeOK'
  BY <1>0, <1>6 DEF AskWol, WolStatus
<1>7. ASSUME NEW r \in Machine, NEW m \in Machine, PacketSpent(r, m)
      PROVE  TypeOK'
  BY <1>7 DEF PacketSpent
<1>8. CASE CheckAll
  <2>1. PICK alerts \in AlertSwitch, waking \in AutoWakeSwitch :
           Check(alerts, waking)
    BY <1>8 DEF CheckAll
  <2>2. \A m \in Machine :
           /\ StatusThen(m) \in {"online", "offline"}
           /\ SeenThen(m) \in Age
           /\ AfterAutoTests(m) \in WolStatus
           /\ Mailed(m, alerts) \in BOOLEAN
    BY <1>0 DEF StatusThen, SeenThen, AfterAutoTests, AfterWolTests, Mailed,
                Stale, WolStatus
  <2>3. \A m \in Machine : ToWake(m) => Relay(m) \in Machine
    BY DEF ToWake, Relay, Relays
  <2>4. /\ status' \in [Machine -> {"online", "offline"}]
        /\ seen' \in [Machine -> Age]
        /\ wol' \in [Machine -> WolStatus]
    BY <2>1, <2>2 DEF Check, WolStatus
  <2>5. /\ cooling' \in [Machine -> BOOLEAN]
        /\ mails' \in [Machine -> Nat]
        /\ heard' \in [Machine -> BOOLEAN]
        /\ tested' \in [Machine -> Age]
    BY <1>0, <2>1, <2>2 DEF Check
  <2>6. packets' \subseteq Machine \X Machine
    BY <2>1, <2>3 DEF Check
  <2>7. UNCHANGED <<known, mac, agents, silence, asked, faults>>
    BY <2>1 DEF Check
  <2> QED BY <2>4, <2>5, <2>6, <2>7
<1>9. CASE ServerRestart
  BY <1>9 DEF ServerRestart
<1>10. CASE Tick
  BY <1>0, <1>10 DEF Tick
<1>11. CASE UNCHANGED vars
  BY <1>11 DEF vars
<1> QED
  BY <1>1, <1>2, <1>3, <1>4, <1>5, <1>12, <1>6, <1>7, <1>8, <1>9, <1>10, <1>11
     DEF Next, MachineStep, PacketStep

\* Every column keeps its values, wol_status its seven words among them.
THEOREM TypeCorrect == Spec => []TypeOK
<1>1. Init => TypeOK
  BY InvInit DEF IInv
<1> QED BY <1>1, TypeStep, PTL DEF Spec

-----------------------------------------------------------------------------
(* The inductive invariant, one part at a time.                              *)

\* The steps that touch neither a row nor an observer.
Aside == UNCHANGED <<row, observers>>

LEMMA AsideSteps ==
    ASSUME NEW m \in Machine,
           PowerOn(m) \/ PowerOff(m) \/ CollectWolStatus(m)
           \/ CooldownExpires(m)
    PROVE  Aside
BY DEF PowerOn, PowerOff, CollectWolStatus, CooldownExpires, Aside

LEMMA AsideSteps2 ==
    ASSUME NEW r \in Machine, NEW m \in Machine,
           PacketSpent(r, m) \/ ServerRestart \/ UNCHANGED vars
    PROVE  Aside
BY DEF PacketSpent, ServerRestart, vars, Aside

\* A step of the system, as its effect on rows and observers.
RowStep ==
    \/ Aside
    \/ \E m \in Machine : Heartbeat(m) \/ RegisterKnown(m) \/ RegisterNew(m)
                          \/ Delete(m)
    \/ \E r \in Machine, m \in Machine : AskWol(r, m)
    \/ \E alerts \in AlertSwitch, waking \in AutoWakeSwitch : Check(alerts, waking)
    \/ Tick

LEMMA EveryRowStep == [Next]_vars => RowStep
<1> SUFFICES ASSUME [Next]_vars PROVE RowStep
  OBVIOUS
<1>1. CASE UNCHANGED vars \/ ServerRestart
  BY <1>1 DEF RowStep, Aside, vars, ServerRestart
<1>2. ASSUME NEW m \in Machine, MachineStep(m) PROVE RowStep
  BY <1>2, AsideSteps DEF MachineStep, RowStep
<1>3. ASSUME NEW r \in Machine, NEW m \in Machine, PacketStep(r, m)
      PROVE  RowStep
  BY <1>3, AsideSteps2 DEF PacketStep, RowStep
<1>4. CASE CheckAll \/ Tick
  BY <1>4 DEF CheckAll, RowStep
<1> QED BY <1>1, <1>2, <1>3, <1>4 DEF Next

\* What a contact leaves behind.
LEMMA ContactFacts ==
    ASSUME TypeOK, NEW c \in Machine, Contact(c), NEW m \in Machine
    PROVE  /\ m = c => /\ status'[m] = "online" /\ seen'[m] = 0
                       /\ mails'[m] = 0 /\ silence'[m] = 0 /\ heard'[m]
           /\ m # c => /\ status'[m] = status[m] /\ seen'[m] = seen[m]
                       /\ mails'[m] = mails[m] /\ silence'[m] = silence[m]
                       /\ heard'[m] = heard[m]
BY DEF TypeOK, Contact

LEMMA RowStepInv == TypeOK /\ RowInv /\ RowStep => RowInv'
<1> SUFFICES ASSUME TypeOK, RowInv, RowStep, NEW m \in Machine, ~known'[m]
             PROVE  status'[m] = "offline" /\ wol'[m] = "unknown" /\ tested'[m] = 0
  BY DEF RowInv
<1> USE DEF TypeOK, RowInv
<1>1. CASE Aside
  BY <1>1 DEF Aside, row
<1>2. ASSUME NEW c \in Machine, Heartbeat(c) \/ RegisterKnown(c)
      PROVE  known' = known /\ known[c] /\ tested' = tested
             /\ \A n \in Machine : n # c => status'[n] = status[n] /\ wol'[n] = wol[n]
  BY <1>2 DEF Heartbeat, RegisterKnown, Contact
<1>3. ASSUME NEW c \in Machine, RegisterNew(c)
      PROVE  status'[m] = "offline" /\ wol'[m] = "unknown" /\ tested'[m] = 0
  BY <1>3 DEF RegisterNew, Contact
<1>4. ASSUME NEW c \in Machine, Delete(c)
      PROVE  status'[m] = "offline" /\ wol'[m] = "unknown" /\ tested'[m] = 0
  BY <1>4 DEF Delete
<1>5. ASSUME NEW r \in Machine, NEW c \in Machine, AskWol(r, c)
      PROVE  status'[m] = "offline" /\ wol'[m] = "unknown" /\ tested'[m] = 0
  BY <1>5 DEF AskWol
<1>6. ASSUME NEW alerts \in AlertSwitch, NEW waking \in AutoWakeSwitch,
             Check(alerts, waking)
      PROVE  status'[m] = "offline" /\ wol'[m] = "unknown" /\ tested'[m] = 0
  BY <1>6 DEF Check, StatusThen, Stale, AfterAutoTests, AfterWolTests,
              TestIsOver, ToWake
<1>7. CASE Tick
  BY <1>7 DEF Tick
<1> QED BY <1>1, <1>2, <1>3, <1>4, <1>5, <1>6, <1>7 DEF RowStep

LEMMA MailStepInv == TypeOK /\ MailInv /\ RowStep => MailInv'
<1> SUFFICES ASSUME TypeOK, MailInv, RowStep, NEW m \in Machine
             PROVE  mails'[m] <= 1 /\ (status'[m] = "online" => mails'[m] = 0)
  BY DEF MailInv
<1> DEFINE Goal == mails'[m] <= 1 /\ (status'[m] = "online" => mails'[m] = 0)
<1> USE DEF TypeOK, MailInv
<1>1. CASE Aside
  BY <1>1 DEF Aside, row, observers
<1>2. ASSUME NEW c \in Machine,
             Heartbeat(c) \/ RegisterKnown(c) \/ RegisterNew(c)
      PROVE  Goal
  BY <1>2, ContactFacts DEF Heartbeat, RegisterKnown, RegisterNew
<1>3. ASSUME NEW c \in Machine, Delete(c) PROVE Goal
  BY <1>3 DEF Delete, observers
<1>4. ASSUME NEW r \in Machine, NEW c \in Machine, AskWol(r, c) PROVE Goal
  BY <1>4 DEF AskWol
<1>5. ASSUME NEW alerts \in AlertSwitch, NEW waking \in AutoWakeSwitch,
             Check(alerts, waking)
      PROVE  Goal
  BY <1>5 DEF Check, StatusThen, Stale, Mailed
<1>6. CASE Tick
  BY <1>6 DEF Tick
<1> QED BY <1>1, <1>2, <1>3, <1>4, <1>5, <1>6 DEF RowStep

LEMMA SilenceStepInv == TypeOK /\ SilenceInv /\ RowInv /\ RowStep => SilenceInv'
<1> SUFFICES ASSUME TypeOK, SilenceInv, RowInv, RowStep, NEW m \in Machine,
                    known'[m]
             PROVE  /\ seen'[m] <= silence'[m]
                    /\ status'[m] = "offline" => silence'[m] > OfflineAfter
  BY DEF SilenceInv
<1> DEFINE Goal == /\ seen'[m] <= silence'[m]
                   /\ status'[m] = "offline" => silence'[m] > OfflineAfter
<1> USE FleetAssumption DEF TypeOK, SilenceInv, Age
<1>1. CASE Aside
  BY <1>1 DEF Aside, row, observers
<1>2. ASSUME NEW c \in Machine,
             Heartbeat(c) \/ RegisterKnown(c) \/ RegisterNew(c)
      PROVE  Goal
  <2>1. Contact(c) /\ (m # c => known[m])
    BY <1>2 DEF Heartbeat, RegisterKnown, RegisterNew
  <2> QED BY <2>1, ContactFacts
<1>3. ASSUME NEW c \in Machine, Delete(c) PROVE Goal
  BY <1>3 DEF Delete, observers
<1>4. ASSUME NEW r \in Machine, NEW c \in Machine, AskWol(r, c) PROVE Goal
  BY <1>4 DEF AskWol
<1>5. ASSUME NEW alerts \in AlertSwitch, NEW waking \in AutoWakeSwitch,
             Check(alerts, waking)
      PROVE  Goal
  BY <1>5 DEF Check, StatusThen, SeenThen, Stale
<1>6. CASE Tick
  <2>1. /\ seen'[m] = Older(seen[m]) /\ silence'[m] = Older(silence[m])
        /\ status'[m] = status[m] /\ known[m]
    BY <1>6 DEF Tick
  <2> QED BY <2>1, OlderFacts
<1> QED BY <1>1, <1>2, <1>3, <1>4, <1>5, <1>6 DEF RowStep

LEMMA HeardStepInv == TypeOK /\ HeardInv /\ RowInv /\ RowStep => HeardInv'
<1> SUFFICES ASSUME TypeOK, HeardInv, RowInv, RowStep, NEW m \in Machine,
                    status'[m] = "online", wol'[m] = "testing", ~heard'[m]
             PROVE  tested'[m] <= seen'[m]
  BY DEF HeardInv
<1> USE FleetAssumption DEF TypeOK, HeardInv, Age
<1>1. CASE Aside
  BY <1>1 DEF Aside, row, observers
<1>2. ASSUME NEW c \in Machine,
             Heartbeat(c) \/ RegisterKnown(c) \/ RegisterNew(c)
      PROVE  tested'[m] <= seen'[m]
  <2>1. Contact(c) /\ tested' = tested /\ (m # c => wol'[m] = wol[m])
    BY <1>2 DEF Heartbeat, RegisterKnown, RegisterNew
  <2> QED BY <2>1, ContactFacts
<1>3. ASSUME NEW c \in Machine, Delete(c) PROVE tested'[m] <= seen'[m]
  BY <1>3 DEF Delete, observers
<1>4. ASSUME NEW r \in Machine, NEW c \in Machine, AskWol(r, c)
      PROVE  tested'[m] <= seen'[m]
  BY <1>4 DEF AskWol
<1>5. ASSUME NEW alerts \in AlertSwitch, NEW waking \in AutoWakeSwitch,
             Check(alerts, waking)
      PROVE  tested'[m] <= seen'[m]
  BY <1>5 DEF Check, StatusThen, SeenThen, Stale, AfterAutoTests, AfterWolTests
<1>6. CASE Tick
  <2>1. known[m] /\ status[m] = "online" /\ wol[m] = "testing" /\ ~heard[m]
    BY <1>6 DEF Tick, RowInv
  <2>2. seen'[m] = Older(seen[m]) /\ tested'[m] = Older(tested[m])
    BY <1>6, <2>1 DEF Tick
  <2> QED BY <2>1, <2>2, OlderFacts
<1> QED BY <1>1, <1>2, <1>3, <1>4, <1>5, <1>6 DEF RowStep

LEMMA InvStep == IInv /\ [Next]_vars => IInv'
BY TypeStep, EveryRowStep, RowStepInv, MailStepInv, SilenceStepInv,
   HeardStepInv DEF IInv

LEMMA InvAlways == Spec => []IInv
<1> QED BY InvInit, InvStep, PTL DEF Spec
-----------------------------------------------------------------------------
(* The properties.                                                           *)

\* However the cooldown is cleared, forgotten by a restart, or expires, two
\* offline mails about a machine have a contact with it between them.
THEOREM OneMailAlways == Spec => []OneMailPerOutage
<1>1. IInv => OneMailPerOutage
  BY DEF IInv, MailInv, OneMailPerOutage
<1> QED BY <1>1, InvAlways, PTL

\* Only a check closes a test or starts an auto-wake.
LEMMA WolByOthers ==
    ASSUME IInv, [Next]_vars, ~CheckAll, NEW m \in Machine
    PROVE  /\ wol'[m] \in {wol[m], "unknown", "testing", "driver_enabled",
                           "driver_disabled"}
           /\ wol[m] = "testing" => wol'[m] \in {"testing", "unknown"}
           /\ wol'[m] = "wol_auto_testing" =>
                  (tested'[m] = 0 => tested[m] = 0)
<1> USE DEF IInv, TypeOK, RowInv, Age
<1>1. CASE Aside
  BY <1>1 DEF Aside, row
<1>2. ASSUME NEW c \in Machine, Heartbeat(c)
      PROVE  /\ tested' = tested /\ (m # c => wol'[m] = wol[m])
             /\ m = c => wol'[m] = HeartbeatWol(m)
  BY <1>2 DEF Heartbeat
<1>3. ASSUME NEW c \in Machine, RegisterKnown(c) \/ RegisterNew(c)
      PROVE  UNCHANGED <<wol, tested>>
  BY <1>3 DEF RegisterKnown, RegisterNew
<1>4. ASSUME NEW c \in Machine, Delete(c)
      PROVE  (m # c => wol'[m] = wol[m] /\ tested'[m] = tested[m])
             /\ (m = c => wol'[m] = "unknown")
  BY <1>4 DEF Delete
<1>5. ASSUME NEW r \in Machine, NEW c \in Machine, AskWol(r, c)
      PROVE  \/ wol'[m] = wol[m] /\ tested'[m] = tested[m]
             \/ wol'[m] = "testing"
  BY <1>5 DEF AskWol
<1>6. CASE Tick
  <2>1. wol' = wol /\ (known[m] => tested'[m] = Older(tested[m]))
    BY <1>6 DEF Tick
  <2>2. Older(tested[m]) = 0 => tested[m] = 0
    BY FleetAssumption DEF Older
  <2> QED BY <2>1, <2>2
<1>7. HeartbeatWol(m) \in {wol[m], "driver_enabled", "driver_disabled"}
      /\ (wol[m] = "testing" => HeartbeatWol(m) = "testing")
  BY DEF HeartbeatWol, WOL_PROTECTED
<1>8. RowStep /\ ~\E alerts \in AlertSwitch, waking \in AutoWakeSwitch :
                    Check(alerts, waking)
  BY EveryRowStep DEF CheckAll
<1> QED
  BY <1>1, <1>2, <1>3, <1>4, <1>5, <1>6, <1>7, <1>8 DEF RowStep

LEMMA ConfirmedStep == IInv /\ [Next]_vars => ConfirmedChange
<1> SUFFICES ASSUME IInv, [Next]_vars, NEW m \in Machine, wol[m] = "testing",
                    wol'[m] \in {"wol_confirmed", "wol_auto_testing"}
             PROVE  heard[m]
  BY DEF ConfirmedChange
<1>1. CASE ~CheckAll
  BY <1>1, WolByOthers
<1>2. CASE CheckAll
  <2> PICK alerts \in AlertSwitch, waking \in AutoWakeSwitch :
         Check(alerts, waking)
    BY <1>2 DEF CheckAll
  <2>1. AfterAutoTests(m) = "wol_confirmed"
    BY DEF Check, ToWake, IInv, TypeOK, AfterAutoTests, AfterWolTests
  <2>2. known[m] /\ tested[m] > TestLimit /\ status[m] = "online" /\ ~Stale(m)
    BY <2>1 DEF AfterAutoTests, AfterWolTests, TestIsOver, StatusThen
  <2>3. seen[m] <= OfflineAfter
    BY <2>2, FleetAssumption DEF Stale, IInv, TypeOK, Age
  <2>4. seen[m] < tested[m]
    BY <2>2, <2>3, FleetAssumption DEF IInv, TypeOK, Age
  <2> QED BY <2>2, <2>4 DEF IInv, HeardInv, TypeOK, Age
<1> QED BY <1>1, <1>2

\* No status left over from before a test is taken for the machine's answer.
THEOREM ConfirmedIsHeard == Spec => ConfirmedMeansHeard
BY InvAlways, ConfirmedStep, PTL DEF Spec, ConfirmedMeansHeard

LEMMA WakeStep == IInv /\ [Next]_vars => WakeChange
<1> SUFFICES ASSUME IInv, [Next]_vars, NEW m \in Machine,
                    wol'[m] = "wol_auto_testing", tested'[m] = 0, tested[m] > 0
             PROVE  silence[m] > WakeAfter
  BY DEF WakeChange
<1>1. CASE ~CheckAll
  BY <1>1, WolByOthers DEF IInv, TypeOK, Age
<1>2. CASE CheckAll
  <2> PICK alerts \in AlertSwitch, waking \in AutoWakeSwitch :
         Check(alerts, waking)
    BY <1>2 DEF CheckAll
  <2>1. ToWake(m)
    BY FleetAssumption DEF Check, IInv, TypeOK, Age
  <2>2. known[m] /\ seen[m] > WakeAfter
    BY <2>1, FleetAssumption DEF ToWake, SeenThen
  <2> QED BY <2>2, FleetAssumption DEF IInv, SilenceInv, TypeOK, Age
<1> QED BY <1>1, <1>2

\* A packet goes only to a machine that has been silent for the whole limit.
THEOREM WakesAreLate == Spec => WakesOnlyTheSilent
BY InvAlways, WakeStep, PTL DEF Spec, WakesOnlyTheSilent

LEMMA BiosStep == IInv /\ [Next]_vars => BiosChange
<1> SUFFICES ASSUME IInv, [Next]_vars, NEW m \in Machine,
                    wol[m] # "bios_needed", wol'[m] = "bios_needed"
             PROVE  wol[m] = "testing" /\ silence[m] > OfflineAfter
  BY DEF BiosChange
<1>1. CASE ~CheckAll
  BY <1>1, WolByOthers
<1>2. CASE CheckAll
  <2> PICK alerts \in AlertSwitch, waking \in AutoWakeSwitch :
         Check(alerts, waking)
    BY <1>2 DEF CheckAll
  <2>1. TestIsOver(m, "testing") /\ StatusThen(m) # "online"
    BY DEF Check, AfterAutoTests, AfterWolTests, IInv, TypeOK
  <2>2. known[m] /\ wol[m] = "testing"
    BY <2>1 DEF TestIsOver
  <2>3. status[m] = "offline" \/ seen[m] > OfflineAfter
    BY <2>1 DEF StatusThen, Stale, IInv, TypeOK
  <2> QED BY <2>2, <2>3, FleetAssumption DEF IInv, SilenceInv, TypeOK, Age
<1> QED BY <1>1, <1>2

\* The verdict that mails a technician is never auto-wake's.
THEOREM BiosIsManual == Spec => BiosNeedsManualTest
BY InvAlways, BiosStep, PTL DEF Spec, BiosNeedsManualTest
=============================================================================
