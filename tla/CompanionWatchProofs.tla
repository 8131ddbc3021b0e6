------------------------- MODULE CompanionWatchProofs -------------------------
(***************************************************************************)
(* For any number of users, processes, faults and switches: the variables of  *)
(* CompanionWatch keep their types, and at most one companion that is in a    *)
(* job runs.                                                                *)
(***************************************************************************)
EXTENDS CompanionWatch, TLAPS

(* A running companion in a job is the one of the handle, or the one that     *)
(* launchCompanion has just returned; there is no handle during a launch.     *)
Known ==
  /\ \A c \in Running \ bare : c \in {handle, launching}
  /\ watch = "launch" => handle = None
  /\ launching # None => watch = "launch"

(* The values of the back-off and of the counters stay in their ranges.       *)
LEMMA Ranges ==
  /\ \A n \in 0..MaxFailures : More(n) \in 1..MaxFailures
  /\ \A n \in Nat \ {0} : Backoff(n) \in 1..MaxBackoff
  /\ \A n \in 0..(MaxBackoff + 1) : Least(n + 1, MaxBackoff + 1) \in 0..(MaxBackoff + 1)
  /\ \A n \in 0..3 : Least(n + 1, 3) \in 0..3
<1> USE WatchAssumption
<1>1. \A n \in 0..MaxFailures : More(n) \in 1..MaxFailures
  BY DEF More, Least
<1>2. \A n \in Nat \ {0} : PowerOf2[Least(n, 6)] \in Nat \ {0}
  BY DEF PowerOf2, Least
<1>3. \A n \in Nat \ {0} : Backoff(n) \in 1..MaxBackoff
  BY <1>2 DEF Backoff, Least
<1>4. /\ \A n \in 0..(MaxBackoff + 1) : Least(n + 1, MaxBackoff + 1) \in 0..(MaxBackoff + 1)
      /\ \A n \in 0..3 : Least(n + 1, 3) \in 0..3
  BY DEF Least
<1> QED BY <1>1, <1>3, <1>4

(* What one pass of applyLaunchBackoff leaves behind.                         *)
LEMMA BackoffTyped ==
  ASSUME TypeOK, ApplyLaunchBackoff
  PROVE  failures' \in 0..MaxFailures /\ wait' \in 0..(MaxBackoff + 1)
<1> USE WatchAssumption
<1>1. More(failures) \in 1..MaxFailures
  BY Ranges DEF TypeOK
<1>2. Backoff(More(failures)) \in 1..MaxBackoff
  BY <1>1, Ranges
<1> QED BY <1>1, <1>2 DEF ApplyLaunchBackoff

(* The ticks that pass keep age, gap and wait in their ranges.                *)
LEMMA TimeTyped ==
  ASSUME TypeOK
  PROVE  /\ AgeNow \in 0..3
         /\ GapGrows => gap' \in 0..(MaxBackoff + 1)
         /\ WaitPasses => wait' \in 0..(MaxBackoff + 1)
  BY WatchAssumption, Ranges DEF TypeOK, AgeNow, GapGrows, WaitPasses

(* Killing and dying keep the types of the processes.                         *)
LEMMA ProcsTyped ==
  ASSUME TypeOK
  PROVE  /\ \A S : Kill(S) => proc' \in [Slot -> {"free", "starting", "serving", "dying"}]
         /\ \A c \in Slot : Gone(c) =>
              /\ proc' \in [Slot -> {"free", "starting", "serving", "dying"}]
              /\ place' \in [Slot -> User \cup {None}]
              /\ pipe' \in Slot \cup {None} /\ bare' \subseteq Slot
         /\ Terminate =>
              /\ proc' \in [Slot -> {"free", "starting", "serving", "dying"}]
              /\ place' \in [Slot -> User \cup {None}]
              /\ pipe' \in Slot \cup {None} /\ bare' \subseteq Slot
              /\ handle' = None
<1>1. \A S : Kill(S) => proc' \in [Slot -> {"free", "starting", "serving", "dying"}]
  BY DEF TypeOK, Kill
<1>2. \A c \in Slot : Gone(c) =>
        /\ proc' \in [Slot -> {"free", "starting", "serving", "dying"}]
        /\ place' \in [Slot -> User \cup {None}]
        /\ pipe' \in Slot \cup {None} /\ bare' \subseteq Slot
  BY DEF TypeOK, Gone
<1>3. ASSUME Terminate
      PROVE  /\ proc' \in [Slot -> {"free", "starting", "serving", "dying"}]
             /\ place' \in [Slot -> User \cup {None}]
             /\ pipe' \in Slot \cup {None} /\ bare' \subseteq Slot
             /\ handle' = None
  BY <1>1, <1>2, <1>3 DEF Terminate, TypeOK
<1> QED BY <1>1, <1>2, <1>3

(* No running companion of a job is left behind by terminateCompanion but one *)
(* that nobody has recorded yet.                                              *)
LEMMA TerminateLeavesNone ==
  ASSUME TypeOK, Known, Terminate
  PROVE  /\ \A c \in (Running \ bare)' : c = launching
         /\ handle' = None
<1> USE WatchAssumption DEF TypeOK, Known, Running
<1>1. CASE handle # None /\ proc[handle] # "free" /\ Gone(handle) /\ handle' = None
  BY <1>1 DEF Gone
<1>2. CASE Kill({handle}) /\ UNCHANGED <<place, pipe, bare>> /\ handle' = None
  BY <1>2 DEF Kill
<1> QED BY <1>1, <1>2 DEF Terminate

-----------------------------------------------------------------------------
LEMMA TypeInit == Init => TypeOK
  BY WatchAssumption DEF Init, Fresh, TypeOK

LEMMA TypeNext == TypeOK /\ [Next]_vars => TypeOK'
<1> SUFFICES ASSUME TypeOK, [Next]_vars PROVE TypeOK'
  OBVIOUS
<1> USE WatchAssumption, TimeTyped, ProcsTyped, BackoffTyped, Ranges
<1> USE DEF service, procs, users, history
<1>1. CASE TickFails
  BY <1>1 DEF TypeOK, TickFails, Ticking, Fault, TimePasses
<1>2. CASE TickReconnect
  BY <1>2 DEF TypeOK, TickReconnect, Ticking, Fault, TimePasses
<1>3. CASE TickHealthy
  BY <1>3 DEF TypeOK, TickHealthy, Ticking, TimePasses
<1>4. CASE TickBacksOff
  BY <1>4 DEF TypeOK, TickBacksOff, Relaunch, Ticking, TimePasses
<1>5. CASE TickQuickDeath
  BY <1>5 DEF TypeOK, TickQuickDeath, Relaunch, Ticking
<1>6. CASE TickRelaunch
  BY <1>6 DEF TypeOK, TickRelaunch, Relaunch, Ticking, TimePasses
<1>7. CASE LaunchFails
  BY <1>7 DEF TypeOK, LaunchFails, Fault
<1>8. CASE RecordCompanionLaunched
  BY <1>8 DEF TypeOK, RecordCompanionLaunched
<1>9. ASSUME NEW c \in Slot, Launch(c) PROVE TypeOK'
  BY <1>9 DEF TypeOK, Launch, Fault
<1>10. ASSUME NEW c \in Slot, OpensPipe(c) PROVE TypeOK'
  BY <1>10 DEF TypeOK, OpensPipe
<1>11. ASSUME NEW c \in Slot, FindsPipeTaken(c) PROVE TypeOK'
  BY <1>11 DEF TypeOK, FindsPipeTaken, CountDeath
<1>12. ASSUME NEW c \in Slot, CompanionDies(c) PROVE TypeOK'
  BY <1>12 DEF TypeOK, CompanionDies, CountDeath, Fault
<1>13. ASSUME NEW c \in Slot, KilledIsGone(c) PROVE TypeOK'
  BY <1>13 DEF TypeOK, KilledIsGone
<1>14. CASE Leaves("stopping") \/ Leaves("updating")
  BY <1>14 DEF TypeOK, Leaves, Fault
<1>15. CASE Exits
  BY <1>15 DEF TypeOK, Exits, ServiceEnds
<1>16. CASE Crashes
  BY <1>16 DEF TypeOK, Crashes, ServiceEnds, Fault
<1>17. CASE Restarts
  BY <1>17 DEF TypeOK, Restarts
<1>18. ASSUME NEW u \in User, LogsOn(u) PROVE TypeOK'
  BY <1>18 DEF TypeOK, LogsOn, Switch
<1>19. CASE LogsOff
  BY <1>19 DEF TypeOK, LogsOff, Switch
<1>20. CASE Disconnects
  BY <1>20 DEF TypeOK, Disconnects, Switch
<1>21. CASE UNCHANGED vars
  BY <1>21 DEF TypeOK, vars
<1> QED
  BY <1>1, <1>2, <1>3, <1>4, <1>5, <1>6, <1>7, <1>8, <1>9, <1>10, <1>11, <1>12, <1>13,
     <1>14, <1>15, <1>16, <1>17, <1>18, <1>19, <1>20, <1>21
     DEF Next, Tick, LaunchStep, CompanionStep, ServiceStep, UserStep

(* The variables of the watch, of the companions and of the sessions keep     *)
(* their types, whatever the bounds.                                          *)
THEOREM TypeCorrect == Spec => []TypeOK
<1> QED BY TypeInit, TypeNext, PTL DEF Spec

-----------------------------------------------------------------------------
LEMMA KnownNext == TypeOK /\ Known /\ [Next]_vars => Known'
<1> SUFFICES ASSUME TypeOK, Known, [Next]_vars PROVE Known'
  OBVIOUS
<1> USE WatchAssumption DEF service, procs, users, history, Running
<1>1. CASE TickFails
  BY <1>1 DEF Known, TickFails
<1>2. CASE TickReconnect
  BY <1>2 DEF Known, TickReconnect
<1>3. CASE TickHealthy
  BY <1>3 DEF Known, TickHealthy
<1>4. CASE TickBacksOff
  BY <1>4 DEF Known, TickBacksOff
<1>5. CASE TickQuickDeath
  <2>1. UNCHANGED <<watch, launching>>
    BY <1>5 DEF TickQuickDeath
  <2> QED BY <1>5, <2>1, TerminateLeavesNone DEF Known, TickQuickDeath
<1>6. CASE TickRelaunch
  <2>1. UNCHANGED launching /\ watch' = "launch"
    BY <1>6 DEF TickRelaunch
  <2> QED BY <1>6, <2>1, TerminateLeavesNone DEF Known, TickRelaunch
<1>7. CASE LaunchFails
  BY <1>7 DEF Known, LaunchFails
<1>8. CASE RecordCompanionLaunched
  BY <1>8 DEF Known, RecordCompanionLaunched
<1>9. ASSUME NEW c \in Slot, Launch(c) PROVE Known'
  <2>1. /\ watch = "launch" /\ handle = None /\ launching = None
        /\ UNCHANGED <<handle, watch>> /\ launching' = c
        /\ proc' = [proc EXCEPT ![c] = "starting"]
        /\ bare \subseteq bare'
    BY <1>9 DEF Known, Launch
  <2>2. \A d \in Running \ bare : FALSE
    BY <2>1 DEF Known, TypeOK
  <2> QED BY <2>1, <2>2 DEF Known, TypeOK
<1>10. ASSUME NEW c \in Slot, OpensPipe(c) PROVE Known'
  BY <1>10 DEF TypeOK, Known, OpensPipe
<1>11. ASSUME NEW c \in Slot, Gone(c), UNCHANGED service PROVE Known'
  BY <1>11 DEF TypeOK, Known, Gone
<1>12. ASSUME NEW c \in Slot, FindsPipeTaken(c) \/ CompanionDies(c) \/ KilledIsGone(c)
       PROVE  Known'
  BY <1>11, <1>12 DEF FindsPipeTaken, CompanionDies, KilledIsGone
<1>13. ASSUME NEW how, Leaves(how) PROVE Known'
  <2>1. UNCHANGED <<watch, launching>>
    BY <1>13 DEF Leaves
  <2> QED BY <1>13, <2>1, TerminateLeavesNone DEF Known, Leaves
<1>14. ASSUME NEW how, ServiceEnds(how) PROVE Known'
  BY <1>14 DEF TypeOK, Known, ServiceEnds, Kill
<1>15. CASE Exits \/ Crashes
  BY <1>14, <1>15 DEF Exits, Crashes
<1>16. CASE Restarts
  BY <1>16 DEF Known, Restarts
<1>17. ASSUME NEW u \in User, LogsOn(u) PROVE Known'
  BY <1>17 DEF Known, LogsOn
<1>18. CASE LogsOff
  BY <1>18 DEF TypeOK, Known, LogsOff, Kill
<1>19. CASE Disconnects
  BY <1>19 DEF Known, Disconnects
<1>20. CASE UNCHANGED vars
  BY <1>20 DEF Known, vars
<1> QED
  BY <1>1, <1>2, <1>3, <1>4, <1>5, <1>6, <1>7, <1>8, <1>9, <1>10, <1>12, <1>13, <1>15,
     <1>16, <1>17, <1>18, <1>19, <1>20
     DEF Next, Tick, LaunchStep, CompanionStep, ServiceStep, UserStep

(* terminateCompanion before every launch, the single goroutine of the watch  *)
(* and the job objects leave at most one companion running, however stop,     *)
(* update, crash and launch interleave.                                       *)
THEOREM OneCompanionAlways == Spec => []OneCompanion
<1>1. Init => Known
  BY DEF Init, Fresh, Known, Running
<1>2. TypeOK /\ Known => OneCompanion
  BY WatchAssumption DEF TypeOK, Known, OneCompanion, Running
<1> QED BY <1>1, <1>2, TypeCorrect, KnownNext, PTL DEF Spec

-----------------------------------------------------------------------------
(* Launches into the same session are apart because every early death counts   *)
(* as a failure when the next tick sees it, and a failure makes the watch wait  *)
(* longer than the rest that the deaths demand.                              *)

Going == up \in {"up", "stopping", "updating"}

\* An early death that no tick has seen yet.
Unseen ==
  \/ launching # None /\ proc[launching] = "free"
  \/ handle # None /\ proc[handle] = "free" /\ age = 0

NoWait        == handle # None \/ watch = "launch" => wait = 0
DeathsCounted == deaths <= failures \/ (Unseen /\ deaths <= failures + 1)
TicksPass     == Going /\ (age >= 1 \/ watch = "launch") => gap >= 1
RestsFirst    ==
  Going /\ handle = None /\ watch = "idle" /\ deaths > 0 => gap + wait > Backoff(deaths)
Rested        == watch = "launch" /\ launching = None /\ target = recorded => gap > Rest

ApartInv == NoWait /\ DeathsCounted /\ TicksPass /\ RestsFirst /\ Rested

(* A longer row of failures is not a shorter back-off.                         *)
LEMMA BackoffGrows ==
  ASSUME NEW m \in Nat \ {0}, NEW n \in Nat \ {0}, m <= n
  PROVE  Backoff(m) <= Backoff(n)
<1>1. /\ Least(m, 6) \in 1..6 /\ Least(n, 6) \in 1..6 /\ Least(m, 6) <= Least(n, 6)
  BY DEF Least
<1>2. \A i \in 1..6, j \in 1..6 : i <= j => /\ PowerOf2[i] <= PowerOf2[j]
                                         /\ PowerOf2[i] \in Nat /\ PowerOf2[j] \in Nat
  BY DEF PowerOf2
<1>3. /\ PowerOf2[Least(m, 6)] <= PowerOf2[Least(n, 6)]
      /\ PowerOf2[Least(m, 6)] \in Nat /\ PowerOf2[Least(n, 6)] \in Nat
  BY <1>1, <1>2
<1> HIDE DEF PowerOf2
<1> QED BY <1>3, WatchAssumption DEF Backoff, Least

LEMMA RestIsShort == TypeOK => Rest \in 1..MaxBackoff
  BY WatchAssumption, Ranges DEF TypeOK, Rest

(* After a failure the watch waits as long as the deaths demand.               *)
LEMMA FailureWaits ==
  ASSUME TypeOK, deaths <= failures + 1, ApplyLaunchBackoff
  PROVE  deaths <= failures' /\ (deaths > 0 => wait' >= Backoff(deaths))
<1> USE WatchAssumption DEF TypeOK
<1>1. More(failures) \in 1..MaxFailures /\ deaths <= More(failures)
  BY Ranges DEF More, Least
<1>2. failures' = More(failures)
  BY DEF ApplyLaunchBackoff
<1>3. PICK late \in {0, 1} : wait' = Backoff(More(failures)) + late
  BY DEF ApplyLaunchBackoff
<1>4. Backoff(More(failures)) \in 1..MaxBackoff
  BY <1>1, Ranges
<1>5. deaths > 0 => Backoff(deaths) <= Backoff(More(failures)) /\ Backoff(deaths) \in 1..MaxBackoff
  BY <1>1, BackoffGrows, Ranges
<1> QED BY <1>1, <1>2, <1>3, <1>4, <1>5

(* A death that is not forgotten makes at most one more than the failures.     *)
LEMMA DeathIsUnseen ==
  ASSUME TypeOK, Known, DeathsCounted, NEW c \in Slot, proc[c] # "free", Gone(c),
         CountDeath(c), UNCHANGED <<handle, launching, age, failures>>
  PROVE  DeathsCounted'
<1> USE WatchAssumption
<1>1. proc' = [proc EXCEPT ![c] = "free"] /\ proc'[c] = "free"
  BY DEF Gone, TypeOK
<1>2. CASE c = launching \/ (c = handle /\ age = 0)
  <2>1. Unseen'
    BY <1>1, <1>2 DEF Unseen
  <2>2. deaths <= failures
    <3>1. ~Unseen
      BY <1>2 DEF Unseen, Known, TypeOK
    <3> QED BY <3>1 DEF DeathsCounted
  <2>3. deaths' <= failures' + 1
    BY <1>2, <2>2 DEF CountDeath, More, Least, TypeOK
  <2> QED BY <2>1, <2>3 DEF DeathsCounted
<1>3. CASE ~(c = launching \/ (c = handle /\ age = 0))
  <2>1. deaths' = deaths
    BY <1>3 DEF CountDeath
  <2>2. Unseen => Unseen'
    BY <1>1 DEF Unseen, TypeOK
  <2> QED BY <2>1, <2>2 DEF DeathsCounted
<1> QED BY <1>2, <1>3

LEMMA ApartStep ==
  ASSUME TypeOK, Known, ApartInv, [Next]_vars
  PROVE  ApartInv'
<1> USE WatchAssumption DEF service, procs, users, history
<1>1. /\ deaths \in 0..MaxFailures /\ failures \in 0..MaxFailures /\ age \in 0..3
      /\ gap \in 0..(MaxBackoff + 1) /\ wait \in 0..(MaxBackoff + 1)
      /\ deaths <= failures + 1
  BY DEF TypeOK, ApartInv, DeathsCounted
<1>2. deaths > 0 => Backoff(deaths) \in 1..MaxBackoff
  BY <1>1, Ranges
\* What one tick adds to the gap it takes from the wait.
<1>3. GapGrows => gap' >= 1 /\ (gap' = gap + 1 \/ gap' = MaxBackoff + 1)
  BY <1>1 DEF GapGrows, Least
<1>4. WaitPasses => wait' \in Nat /\ wait' >= wait - 1 /\ (wait = 0 => wait' = 0)
  BY <1>1 DEF WaitPasses
<1>5. CASE TickFails \/ TickReconnect
  <2>1. /\ watch = "idle" /\ GapGrows /\ WaitPasses /\ deaths' = 0
        /\ UNCHANGED <<up, watch, handle, launching, failures>>
    BY <1>5 DEF TickFails, TickReconnect, Ticking, TimePasses
  <2> QED
    BY <1>1, <1>3, <1>4, <2>1
    DEF ApartInv, NoWait, DeathsCounted, TicksPass, RestsFirst, Rested, Going
<1>6. CASE TickHealthy
  <2>1. /\ watch = "idle" /\ handle # None /\ proc[handle] # "free" /\ GapGrows
        /\ UNCHANGED <<up, watch, handle, launching, proc>>
    BY <1>6 DEF TickHealthy, Ticking, TimePasses, Alive
  <2>2. CASE failures' = 0 /\ wait' = 0 /\ deaths' = 0
    BY <1>3, <2>1, <2>2
    DEF ApartInv, NoWait, DeathsCounted, TicksPass, RestsFirst, Rested, Going
  <2>3. CASE WaitPasses /\ UNCHANGED <<failures, deaths>>
    <3>1. deaths <= failures
      BY <2>1 DEF ApartInv, DeathsCounted, Unseen, Known
    <3> QED BY <1>3, <1>4, <2>1, <2>3, <3>1
        DEF ApartInv, NoWait, DeathsCounted, TicksPass, RestsFirst, Rested, Going
  <2> QED BY <1>6, <2>2, <2>3 DEF TickHealthy
<1>7. CASE TickBacksOff
  <2>1. /\ watch = "idle" /\ wait > 1 /\ GapGrows /\ WaitPasses
        /\ UNCHANGED <<up, watch, handle, launching, failures, deaths>>
    BY <1>7 DEF TickBacksOff, Relaunch, Ticking, Waiting, TimePasses
  <2>2. handle = None /\ launching = None
    BY <1>1, <2>1 DEF ApartInv, NoWait, Known
  <2>3. deaths <= failures
    BY <2>2 DEF ApartInv, DeathsCounted, Unseen
  <2>4. Going' /\ deaths > 0 => gap' + wait' > Backoff(deaths)
    BY <1>1, <1>2, <1>3, <1>4, <2>1, <2>2 DEF ApartInv, RestsFirst, Going
  <2> QED
    BY <1>3, <2>1, <2>2, <2>3, <2>4
    DEF ApartInv, NoWait, DeathsCounted, TicksPass, RestsFirst, Rested, Going
<1>8. CASE TickQuickDeath
  <2>1. /\ watch = "idle" /\ GapGrows /\ ApplyLaunchBackoff /\ handle' = None /\ age' = 3
        /\ UNCHANGED <<up, watch, launching, deaths>>
    BY <1>8 DEF TickQuickDeath, Relaunch, Ticking, Terminate
  <2>2. deaths <= failures' /\ (deaths > 0 => wait' >= Backoff(deaths))
    BY <1>1, <2>1, FailureWaits
  <2>3. wait' \in Nat /\ gap' \in Nat
    BY <1>1, <1>3, <2>1, BackoffTyped
  <2>4. deaths > 0 => gap' + wait' > Backoff(deaths)
    BY <1>2, <1>3, <2>1, <2>2, <2>3
  <2> QED
    BY <1>3, <2>1, <2>2, <2>4
    DEF ApartInv, NoWait, DeathsCounted, TicksPass, RestsFirst, Rested, Going
<1>9. CASE TickRelaunch
  <2>1. /\ watch = "idle" /\ Going /\ wait <= 1 /\ GapGrows /\ WaitPasses /\ handle' = None
        /\ active # recorded \/ AgeNow > 1
        /\ watch' = "launch" /\ target' = active
        /\ deaths' = IF active # recorded \/ handle # None THEN 0 ELSE deaths
        /\ UNCHANGED <<up, recorded, launching, failures>>
    BY <1>1, <1>9 DEF TickRelaunch, Relaunch, Ticking, Going, Waiting, SessionChanged, MaybeOld,
                Terminate, TimePasses
  <2>2. launching = None
    BY <2>1 DEF Known
  <2>3. wait' = 0
    BY <1>1, <2>1 DEF WaitPasses
  <2>4. deaths' <= failures'
    <3>1. CASE handle = None
      BY <1>1, <2>1, <2>2, <3>1 DEF ApartInv, DeathsCounted, Unseen
    <3>2. CASE handle # None
      BY <1>1, <2>1, <3>2
    <3> QED BY <3>1, <3>2
  <2>5. ASSUME target' = recorded PROVE gap' > Rest'
    <3>1. active = recorded /\ AgeNow > 1
      BY <2>1, <2>5
    <3>2. age >= 1 /\ gap >= 1
      BY <1>1, <2>1, <3>1 DEF AgeNow, Least, ApartInv, TicksPass
    <3>3. gap' > 1
      BY <1>1, <1>3, <2>1, <3>2
    <3>4. CASE deaths' = 0
      BY <3>3, <3>4 DEF Rest
    <3>5. CASE deaths' # 0
      <4>1. handle = None /\ deaths' = deaths /\ deaths > 0
        BY <1>1, <2>1, <3>5
      <4>2. gap + wait > Backoff(deaths)
        BY <2>1, <4>1 DEF ApartInv, RestsFirst
      <4>3. gap' > Backoff(deaths)
        BY <1>1, <1>2, <1>3, <2>1, <4>1, <4>2
      <4> QED BY <3>5, <4>1, <4>3 DEF Rest
    <3> QED BY <3>4, <3>5
  <2> QED
    BY <1>3, <2>1, <2>3, <2>4, <2>5
    DEF ApartInv, NoWait, DeathsCounted, TicksPass, RestsFirst, Rested
<1>10. CASE LaunchFails
  <2>1. /\ watch = "launch" /\ launching = None /\ ApplyLaunchBackoff /\ watch' = "idle"
        /\ UNCHANGED <<up, handle, launching, age, gap, deaths>>
    BY <1>10 DEF LaunchFails
  <2>2. handle = None
    BY <2>1 DEF Known
  <2>3. deaths <= failures' /\ (deaths > 0 => wait' >= Backoff(deaths)) /\ wait' \in Nat
    BY <1>1, <2>1, FailureWaits, BackoffTyped
  <2>4. Going => gap >= 1
    BY <2>1 DEF ApartInv, TicksPass
  <2>5. Going /\ deaths > 0 => gap' + wait' > Backoff(deaths)
    BY <1>1, <1>2, <2>1, <2>3, <2>4
  <2> QED
    BY <2>1, <2>2, <2>3, <2>4, <2>5
    DEF ApartInv, NoWait, DeathsCounted, TicksPass, RestsFirst, Rested, Going
<1>11. CASE RecordCompanionLaunched
  <2>1. /\ launching # None /\ handle' = launching /\ launching' = None /\ watch' = "idle"
        /\ age' = 0 /\ gap' = 0 /\ UNCHANGED <<up, wait, failures, deaths, proc>>
    BY <1>11 DEF RecordCompanionLaunched
  <2>2. watch = "launch" /\ handle = None
    BY <2>1 DEF Known
  <2>3. Unseen => Unseen'
    BY <2>1, <2>2 DEF Unseen
  <2> QED
    BY <2>1, <2>2, <2>3
    DEF ApartInv, NoWait, DeathsCounted, TicksPass, RestsFirst, Rested, Going
<1>12. ASSUME NEW c \in Slot, Launch(c) PROVE ApartInv'
  <2>1. /\ watch = "launch" /\ launching = None /\ launching' # None
        /\ UNCHANGED <<up, watch, handle, age, gap, wait, failures, deaths>>
    BY <1>12 DEF Launch
  <2>2. deaths <= failures
    BY <2>1 DEF Known, ApartInv, DeathsCounted, Unseen
  <2> QED
    BY <2>1, <2>2
    DEF ApartInv, NoWait, DeathsCounted, TicksPass, RestsFirst, Rested, Going
\* Steps of the processes, of which only a death counts.
<1>13. ASSUME UNCHANGED <<up, watch, target, handle, recorded, launching, age, wait, failures,
                         gap>>, DeathsCounted',
              UNCHANGED deaths \/ launching # None \/ handle # None
       PROVE  ApartInv'
  <2>1. watch = "launch" => handle = None
    BY DEF Known
  <2>2. launching # None => watch = "launch"
    BY DEF Known
  <2>3. CASE UNCHANGED deaths
    BY <1>13, <2>3 DEF ApartInv, NoWait, TicksPass, RestsFirst, Rested, Going, Rest
  <2>4. CASE launching # None \/ handle # None
    BY <1>13, <2>1, <2>2, <2>4 DEF ApartInv, NoWait, TicksPass, RestsFirst, Rested, Going
  <2> QED BY <1>13, <2>3, <2>4
<1>14. ASSUME NEW c \in Slot, OpensPipe(c) PROVE ApartInv'
  <2>1. proc' = [proc EXCEPT ![c] = "serving"] /\ proc[c] = "starting"
    BY <1>14 DEF OpensPipe
  <2>2. UNCHANGED <<up, watch, target, handle, recorded, launching, age, wait, failures, gap,
                   deaths>>
    BY <1>14 DEF OpensPipe
  <2>3. Unseen => Unseen'
    BY <2>1, <2>2 DEF Unseen, TypeOK
  <2>4. DeathsCounted'
    BY <2>2, <2>3 DEF ApartInv, DeathsCounted
  <2> QED BY <1>13, <2>2, <2>4
<1>15. ASSUME NEW c \in Slot, FindsPipeTaken(c) \/ CompanionDies(c) PROVE ApartInv'
  <2>1. /\ proc[c] # "free" /\ Gone(c) /\ CountDeath(c)
        /\ UNCHANGED <<up, watch, target, handle, recorded, launching, age, wait, failures,
                       gap>>
    BY <1>15 DEF FindsPipeTaken, CompanionDies, Running
  <2>2. DeathsCounted'
    BY <2>1, DeathIsUnseen DEF ApartInv
  <2>3. UNCHANGED deaths \/ launching # None \/ handle # None
    BY <2>1 DEF CountDeath
  <2> QED BY <1>13, <2>1, <2>2, <2>3
<1>16. ASSUME NEW c \in Slot, KilledIsGone(c) PROVE ApartInv'
  <2>1. /\ proc' = [proc EXCEPT ![c] = "free"]
        /\ UNCHANGED <<up, watch, target, handle, recorded, launching, age, wait, failures, gap,
                       deaths>>
    BY <1>16 DEF KilledIsGone, Gone
  <2>2. Unseen => Unseen'
    BY <2>1 DEF Unseen, TypeOK
  <2>3. DeathsCounted'
    BY <2>1, <2>2 DEF ApartInv, DeathsCounted
  <2> QED BY <1>13, <2>1, <2>3
<1>17. ASSUME NEW how, Leaves(how), how \in {"stopping", "updating"} PROVE ApartInv'
  <2>1. /\ handle' = None /\ deaths' = 0 /\ up = "up" /\ up' = how
        /\ UNCHANGED <<watch, target, recorded, launching, age, wait, failures, gap>>
    BY <1>17 DEF Leaves, Terminate
  <2>2. Rest' = 1 /\ Rest >= 1
    BY <2>1, RestIsShort DEF Rest
  <2>3. Rested'
    BY <1>1, <2>1, <2>2, RestIsShort DEF ApartInv, Rested
  <2> QED
    BY <1>1, <2>1, <2>3 DEF ApartInv, NoWait, DeathsCounted, TicksPass, RestsFirst, Going
<1>18. ASSUME NEW how, how \notin {"up", "stopping", "updating"}, ServiceEnds(how) PROVE ApartInv'
  BY <1>18
  DEF ServiceEnds, ApartInv, NoWait, DeathsCounted, TicksPass, RestsFirst, Rested, Going
<1>19. CASE Exits \/ Crashes
  BY <1>18, <1>19 DEF Exits, Crashes
<1>20. CASE Restarts
  <2>1. /\ gap' = MaxBackoff + 1
        /\ UNCHANGED <<watch, target, handle, recorded, launching, age, wait, failures, deaths,
                       proc>>
    BY <1>20 DEF Restarts
  <2>2. DeathsCounted'
    BY <2>1 DEF ApartInv, DeathsCounted, Unseen
  <2>3. Rested'
    BY <2>1, RestIsShort DEF Rested, Rest
  <2> QED
    BY <1>1, <1>2, <2>1, <2>2, <2>3 DEF ApartInv, NoWait, TicksPass, RestsFirst
<1>21. ASSUME UNCHANGED <<service, proc, gap, deaths>> PROVE ApartInv'
  BY <1>21
  DEF ApartInv, NoWait, DeathsCounted, TicksPass, RestsFirst, Rested, Going, Unseen, Rest
<1>22. ASSUME NEW u \in User, LogsOn(u) PROVE ApartInv'
  BY <1>21, <1>22 DEF LogsOn
<1>23. CASE LogsOff
  <2>1. /\ UNCHANGED <<service, gap, deaths>>
        /\ \A c \in Slot : proc[c] = "free" => proc'[c] = "free"
    BY <1>23 DEF LogsOff, Kill, Running, TypeOK
  <2>2. Unseen => Unseen'
    BY <2>1 DEF Unseen, TypeOK
  <2>3. DeathsCounted'
    BY <2>1, <2>2 DEF ApartInv, DeathsCounted
  <2> QED BY <1>13, <2>1, <2>3
<1>24. CASE Disconnects
  BY <1>21, <1>24 DEF Disconnects
<1>25. CASE UNCHANGED vars
  BY <1>21, <1>25 DEF vars
<1> QED
  BY <1>5, <1>6, <1>7, <1>8, <1>9, <1>10, <1>11, <1>12, <1>14, <1>15, <1>16, <1>17, <1>19,
     <1>20, <1>22, <1>23, <1>24, <1>25
  DEF Next, Tick, LaunchStep, CompanionStep, ServiceStep, UserStep

(* Only Launch starts a launch, and it finds the watch rested.                 *)
LEMMA LaunchIsRested ==
  ASSUME TypeOK, Known, ApartInv, [Next]_vars
  PROVE  [\A c \in Slot : launching = None /\ launching' = c /\ target = recorded
                             => gap > Rest]_vars
<1> SUFFICES ASSUME NEW c \in Slot, launching = None, launching' = c, target = recorded
             PROVE  gap > Rest
  OBVIOUS
<1> USE WatchAssumption DEF service, procs, users, history
<1>1. CASE \E d \in Slot : Launch(d)
  BY <1>1 DEF Launch, ApartInv, Rested
<1>2. CASE UNCHANGED launching
  BY <1>2
<1>3. CASE Exits \/ Crashes \/ RecordCompanionLaunched
  BY <1>3 DEF Exits, Crashes, ServiceEnds, RecordCompanionLaunched
<1>4. (\E d \in Slot : Launch(d)) \/ Exits \/ Crashes \/ RecordCompanionLaunched
        \/ UNCHANGED launching
  BY DEF Next, Tick, LaunchStep, CompanionStep, ServiceStep, UserStep, TickFails, TickReconnect,
         TickHealthy, TickBacksOff, TickQuickDeath, TickRelaunch, LaunchFails, OpensPipe,
         FindsPipeTaken, CompanionDies, KilledIsGone, Leaves, Restarts, LogsOff, Disconnects,
         LogsOn, vars
<1> QED BY <1>1, <1>2, <1>3, <1>4

(* No companion is launched into its session again before the rest that its     *)
(* early deaths demand (sessionWatchTick, applyLaunchBackoff), however deaths,   *)
(* switches, failed launches, stops and restarts follow each other.             *)
THEOREM LaunchesStayApart == Spec => LaunchesAreApart
<1>1. Init => Known /\ ApartInv
  BY WatchAssumption
  DEF Init, Fresh, Known, Running, ApartInv, NoWait, DeathsCounted, TicksPass, RestsFirst, Rested
<1>2. TypeOK /\ Known /\ ApartInv /\ [Next]_vars
        => [\A c \in Slot : launching = None /\ launching' = c /\ target = recorded
                              => gap > Rest]_vars
  BY LaunchIsRested
<1>3. TypeOK /\ Known /\ ApartInv /\ [Next]_vars => ApartInv'
  BY ApartStep
<1> QED BY <1>1, <1>2, <1>3, TypeCorrect, KnownNext, PTL DEF Spec, LaunchesAreApart
=============================================================================
