---------------------------- MODULE CompanionWatch ----------------------------
(***************************************************************************)
(* The service keeps one companion process in the session of the user at     *)
(* the screen: sessionWatchTick looks every 15 s, launches, relaunches and    *)
(* backs off; stop() and a self-update end the companion with the service.    *)
(*                                                                         *)
(* A companion serves the pipe DelirioCompanion, of which Windows allows one. *)
(* It is in a job object that kills it with the last handle of the job, and   *)
(* that handle is the service's.  Time is counted in ticks of the watch; a    *)
(* tick may be late by less than an interval, so a companion launched at tick *)
(* k is younger than companionMinHealthyUptime (30 s) at tick k+1, older at    *)
(* tick k+3, and either at tick k+2, and a back-off of n intervals that begins *)
(* in tick k is over at tick k+n or k+n+1.                                    *)
(***************************************************************************)
EXTENDS Integers, FiniteSets

CONSTANTS Slot,        \* processes: a dead one is used again
          User,        \* Windows sessions with a user
          None,        \* no process, no session
          MaxBackoff,  \* maxLaunchBackoff, in watch intervals
          MaxFailures, \* bound: consecutiveLaunchFailures counts no further
          MaxSwitches, \* bound on what users do with their sessions
          MaxFaults    \* bound on deaths, failed calls and crashes

ASSUME WatchAssumption ==
  /\ None \notin Slot \cup User
  /\ MaxBackoff \in Nat \ {0} /\ MaxFailures \in Nat \ {0}
  /\ MaxSwitches \in Nat /\ MaxFaults \in Nat

VARIABLES
  active,    \* the session pickActiveSession finds, or None
  away,      \* the disconnected console session, or None
  up,        \* the service: "up", "stopping", "updating", "down", "stopped"
  watch,     \* sessionWatchTick: "idle", or in "launch" for a session
  target,    \* that session
  handle,    \* companionHandle: a process, alive or dead, or None
  recorded,  \* companionSession
  launching, \* the process launchCompanion has returned but nobody recorded
  age,       \* ticks since companionLaunchedAt, 3 for all above and for zero
  wait,      \* ticks to the first one past nextLaunchAttemptAt
  failures,  \* consecutiveLaunchFailures
  proc,      \* "free", "starting", "serving", "dying"
  place,     \* the session of a process
  pipe,      \* the process that holds the pipe, or None
  bare,      \* processes AssignProcessToJobObject failed for
  gap,       \* history: ticks since a launch was recorded, up to MaxBackoff + 1
  deaths,    \* history: early deaths in a row, in a session that stays at the
             \* screen
  switches, faults

service == <<up, watch, target, handle, recorded, launching, age, wait, failures>>
procs   == <<proc, place, pipe, bare>>
users   == <<active, away, switches>>
history == <<gap, deaths>>
vars    == <<service, procs, users, history, faults>>

TypeOK ==
  /\ active \in User \cup {None} /\ away \in User \cup {None}
  /\ up \in {"up", "stopping", "updating", "down", "stopped"}
  /\ watch \in {"idle", "launch"}
  /\ target \in User \cup {None}
  /\ handle \in Slot \cup {None} /\ launching \in Slot \cup {None}
  /\ recorded \in User \cup {None}
  /\ age \in 0..3 /\ gap \in 0..(MaxBackoff + 1)
  /\ wait \in 0..(MaxBackoff + 1)
  /\ failures \in 0..MaxFailures /\ deaths \in 0..MaxFailures
  /\ proc \in [Slot -> {"free", "starting", "serving", "dying"}]
  /\ place \in [Slot -> User \cup {None}]
  /\ pipe \in Slot \cup {None} /\ bare \subseteq Slot
  /\ switches \in 0..MaxSwitches /\ faults \in 0..MaxFaults

(* A service that has just started remembers nothing of an earlier one.      *)
Fresh ==
  /\ watch = "idle" /\ target = None /\ handle = None /\ recorded = None
  /\ launching = None /\ age = 3 /\ wait = 0 /\ failures = 0

Init ==
  /\ Fresh /\ up = "up"
  /\ active \in User \cup {None} /\ away = None
  /\ proc = [c \in Slot |-> "free"] /\ place = [c \in Slot |-> None]
  /\ pipe = None /\ bare = {}
  /\ gap = MaxBackoff + 1 /\ deaths = 0
  /\ switches = 0 /\ faults = 0

Fault == faults < MaxFaults /\ faults' = faults + 1

Least(a, b) == IF a <= b THEN a ELSE b
More(n) == Least(n + 1, MaxFailures)

Running == {c \in Slot : proc[c] \in {"starting", "serving"}}

-----------------------------------------------------------------------------
(* Killing: a process asked to end holds its pipe until it is gone.          *)
Kill(S) == proc' = [c \in Slot |-> IF c \in S \cap Running THEN "dying" ELSE proc[c]]

Gone(c) ==
  /\ proc' = [proc EXCEPT ![c] = "free"]
  /\ place' = [place EXCEPT ![c] = None]
  /\ pipe' = IF pipe = c THEN None ELSE pipe
  /\ bare' = bare \ {c}

(* terminateCompanion: the process behind the handle is killed; the service
   waits for its end, but no longer than 5 s.                                *)
Terminate ==
  /\ handle' = None
  /\ \/ /\ handle # None /\ proc[handle] # "free" /\ Gone(handle)
     \/ Kill({handle}) /\ UNCHANGED <<place, pipe, bare>>

(* The end of the service process closes the jobs of all it launched.        *)
ServiceEnds(how) ==
  /\ up' = how
  /\ Kill(Slot \ bare) /\ UNCHANGED <<place, pipe, bare>>
  /\ watch' = "idle" /\ target' = None /\ handle' = None /\ recorded' = None
  /\ launching' = None /\ age' = 3 /\ wait' = 0 /\ failures' = 0
  /\ deaths' = 0

-----------------------------------------------------------------------------
(* sessionWatchTick                                                          *)

Ticking == up \in {"up", "stopping", "updating"} /\ watch = "idle"
AgeNow  == Least(age + 1, 3)
Waiting == wait > 1
GapGrows   == gap' = Least(gap + 1, MaxBackoff + 1)
TimePasses == age' = AgeNow /\ GapGrows
WaitPasses == wait' = IF wait > 0 THEN wait - 1 ELSE 0

Alive          == handle # None /\ proc[handle] # "free"
SessionChanged == active # recorded

\* At AgeNow = 2 either answer is possible.
MaybeYoung     == AgeNow < 3
MaybeOld       == AgeNow > 1

PowerOf2 == <<1, 2, 4, 8, 16, 32>>

\* applyLaunchBackoff: 15 s, 30 s, 60 s ... up to the limit.
Backoff(n) == Least(PowerOf2[Least(n, 6)], MaxBackoff)

ApplyLaunchBackoff ==
  /\ failures' = More(failures)
  /\ \E late \in {0, 1} : wait' = Backoff(More(failures)) + late

\* Nobody at the screen: the console session that is only disconnected is
\* brought back, and nothing else happens in this tick.
TickReconnect ==
  /\ Ticking /\ active = None
  /\ \/ away # None /\ active' = away /\ away' = None /\ UNCHANGED faults
     \/ away # None /\ Fault /\ UNCHANGED <<active, away>>
     \/ away = None /\ UNCHANGED <<active, away, faults>>
  /\ TimePasses /\ WaitPasses
  /\ deaths' = 0
  /\ UNCHANGED <<up, watch, target, handle, recorded, launching, failures, procs,
                 switches>>

\* Alive in the right session: the back-off is forgotten once it has lived long
\* enough.
TickHealthy ==
  /\ Ticking /\ active # None
  /\ Alive /\ ~SessionChanged
  /\ TimePasses
  /\ \/ MaybeOld /\ failures' = 0 /\ wait' = 0 /\ deaths' = 0
     \/ MaybeYoung /\ WaitPasses /\ UNCHANGED <<failures, deaths>>
  /\ UNCHANGED <<up, watch, target, handle, recorded, launching, procs, users, faults>>

Relaunch == Ticking /\ active # None /\ (~Alive \/ SessionChanged)

TickBacksOff ==
  /\ Relaunch /\ Waiting
  /\ TimePasses /\ WaitPasses
  /\ UNCHANGED <<up, watch, target, handle, recorded, launching, failures, procs,
                 users, deaths, faults>>

\* A companion that died young is a failed launch; companionLaunchedAt becomes
\* zero.
TickQuickDeath ==
  /\ Relaunch /\ ~Waiting /\ ~SessionChanged /\ MaybeYoung
  /\ Terminate /\ ApplyLaunchBackoff
  /\ age' = 3 /\ GapGrows
  /\ UNCHANGED <<up, watch, target, recorded, launching, users, deaths, faults>>

\* Mutant: the old companion is forgotten, not ended.
MutForgetsOld ==
  /\ Relaunch /\ ~Waiting /\ (SessionChanged \/ MaybeOld)
  /\ handle' = None /\ UNCHANGED procs
  /\ watch' = "launch" /\ target' = active
  /\ deaths' = IF SessionChanged \/ handle # None THEN 0 ELSE deaths
  /\ TimePasses /\ WaitPasses
  /\ UNCHANGED <<up, recorded, launching, failures, users, faults>>

TickRelaunch ==
  /\ Relaunch /\ ~Waiting /\ (SessionChanged \/ MaybeOld)
  /\ Terminate
  /\ watch' = "launch" /\ target' = active
  /\ deaths' = IF SessionChanged \/ handle # None THEN 0 ELSE deaths
  /\ TimePasses /\ WaitPasses
  /\ UNCHANGED <<up, recorded, launching, failures, users, faults>>

\* The sessions cannot be enumerated, or the tick panics on it.
TickFails ==
  /\ Ticking /\ Fault
  /\ TimePasses /\ WaitPasses
  /\ deaths' = 0
  /\ UNCHANGED <<up, watch, target, handle, recorded, launching, failures, procs, users>>

Tick == TickFails \/ TickReconnect \/ TickHealthy \/ TickBacksOff \/ TickQuickDeath \/ TickRelaunch

(* launchCompanion: a new process, in its job before it runs; it runs without *)
(* one when it cannot be assigned to it (assignToJobAndResume).               *)
Launch(c) ==
  /\ watch = "launch" /\ launching = None
  /\ proc[c] = "free"
  /\ proc' = [proc EXCEPT ![c] = "starting"]
  /\ place' = [place EXCEPT ![c] = target]
  /\ launching' = c
  /\ \/ UNCHANGED <<bare, faults>>
     \/ bare' = bare \cup {c} /\ Fault
  /\ UNCHANGED <<pipe, up, watch, target, handle, recorded, age, wait, failures,
                 users, history>>

(* The user is gone already, or a Windows call fails.                        *)
LaunchFails ==
  /\ watch = "launch" /\ launching = None
  /\ \/ active # target /\ UNCHANGED faults
     \/ Fault
  /\ ApplyLaunchBackoff
  /\ watch' = "idle" /\ target' = None
  /\ UNCHANGED <<up, handle, recorded, launching, age, procs, users, history>>

\* Mutant: the back-off is forgotten at birth.
MutResetsAtBirth ==
  /\ launching # None
  /\ handle' = launching /\ recorded' = target /\ age' = 0 /\ gap' = 0
  /\ launching' = None /\ watch' = "idle" /\ target' = None
  /\ failures' = 0
  /\ UNCHANGED <<up, wait, procs, users, deaths, faults>>

RecordCompanionLaunched ==
  /\ launching # None
  /\ handle' = launching /\ recorded' = target /\ age' = 0 /\ gap' = 0
  /\ launching' = None /\ watch' = "idle" /\ target' = None
  /\ UNCHANGED <<up, wait, failures, procs, users, deaths, faults>>

-----------------------------------------------------------------------------
(* The companion.                                                            *)

(* A death before the first tick after the launch is certainly an early one. *)
CountDeath(c) ==
  deaths' = IF c = launching \/ (c = handle /\ age = 0) THEN More(deaths) ELSE deaths

\* listenPipe: the first instance or none.
OpensPipe(c) ==
  /\ proc[c] = "starting" /\ pipe = None
  /\ proc' = [proc EXCEPT ![c] = "serving"]
  /\ pipe' = c
  /\ UNCHANGED <<place, bare, service, users, history, faults>>

\* Mutant: the process lives on without a pipe.
MutStaysWithoutPipe(c) ==
  /\ proc[c] = "starting" /\ pipe # None
  /\ proc' = [proc EXCEPT ![c] = "serving"]
  /\ UNCHANGED <<place, pipe, bare, service, users, history, faults>>

\* companionPipeLoop ends the process when it cannot open the pipe.
FindsPipeTaken(c) ==
  /\ proc[c] = "starting" /\ pipe # None
  /\ Gone(c) /\ CountDeath(c)
  /\ UNCHANGED <<service, users, gap, faults>>

CompanionDies(c) ==
  /\ c \in Running /\ Fault
  /\ Gone(c) /\ CountDeath(c)
  /\ UNCHANGED <<service, users, gap>>

KilledIsGone(c) ==
  /\ proc[c] = "dying"
  /\ Gone(c)
  /\ UNCHANGED <<service, users, history, faults>>

-----------------------------------------------------------------------------
(* The service.                                                              *)

(* stop() and checkAndUpdate end the companion they know of, on their own
   goroutines, and then the process; the watch may be in a launch.           *)
Leaves(how) ==
  /\ up = "up" /\ Fault
  /\ up' = how
  /\ Terminate /\ deaths' = 0
  /\ UNCHANGED <<watch, target, recorded, launching, age, wait, failures, users, gap>>

Exits ==
  /\ up \in {"stopping", "updating"}
  /\ ServiceEnds(IF up = "stopping" THEN "stopped" ELSE "down")
  /\ UNCHANGED <<users, gap, faults>>

Crashes ==
  /\ up = "up" /\ Fault
  /\ ServiceEnds("down")
  /\ UNCHANGED <<users, gap>>

\* The recovery action of the service: restart.
Restarts ==
  /\ up = "down"
  /\ up' = "up" /\ gap' = MaxBackoff + 1
  /\ UNCHANGED <<watch, target, handle, recorded, launching, age, wait, failures, procs,
                 users, deaths, faults>>

-----------------------------------------------------------------------------
(* Users.                                                                    *)
Switch == switches < MaxSwitches /\ switches' = switches + 1

LogsOn(u) ==
  /\ active # u /\ away # u /\ Switch
  /\ active' = u
  /\ UNCHANGED <<away, service, procs, history, faults>>

\* The processes of a session end with it.
LogsOff ==
  /\ active # None /\ Switch
  /\ active' = None
  /\ Kill({c \in Slot : place[c] = active})
  /\ UNCHANGED <<away, place, pipe, bare, service, history, faults>>

\* The screen is switched off: the session is disconnected from the console.
Disconnects ==
  /\ active # None /\ away = None /\ Switch
  /\ active' = None /\ away' = active
  /\ UNCHANGED <<service, procs, history, faults>>

-----------------------------------------------------------------------------
CompanionStep == \E c \in Slot : \/ OpensPipe(c) \/ FindsPipeTaken(c)
                                 \/ CompanionDies(c) \/ KilledIsGone(c)
ServiceStep == Leaves("stopping") \/ Leaves("updating") \/ Exits \/ Crashes \/ Restarts
UserStep    == LogsOff \/ Disconnects \/ \E u \in User : LogsOn(u)
LaunchStep  == LaunchFails \/ RecordCompanionLaunched \/ \E c \in Slot : Launch(c)

Next == Tick \/ LaunchStep \/ CompanionStep \/ ServiceStep \/ UserStep

Spec == Init /\ [][Next]_vars

(* The ticker, the goroutines and the companion go on, the SCM restarts the
   service, and a killed process is gone some day. *)
FairSpec ==
  /\ Spec
  /\ WF_vars(Tick) /\ WF_vars(LaunchStep) /\ WF_vars(Exits) /\ WF_vars(Restarts)
  /\ \A c \in Slot : WF_vars(OpensPipe(c) \/ FindsPipeTaken(c)) /\ WF_vars(KilledIsGone(c))

-----------------------------------------------------------------------------
(* At most one companion that is in a job runs, whatever stop, update, crash
   and relaunch do at the same time (comments of terminateCompanion and of
   createCompanionJobObject, which exists for the ends of the service that no
   code sees). *)
OneCompanion == \A c, d \in Running \ bare : c = d

(* Early deaths lengthen the back-off, and no companion is launched again into
   its session at the next tick: "churn de processo indefinido", which the
   comments of sessionWatchTick describe for an earlier reset at birth. *)
Rest == IF deaths = 0 THEN 1 ELSE Backoff(deaths)
LaunchesAreApart ==
  [][\A c \in Slot : launching = None /\ launching' = c /\ target = recorded => gap > Rest]_vars

(* Whoever sits at the screen is served in the end, unless the service was
   stopped or a companion outside a job has outlived the service. *)
Serves == pipe # None /\ proc[pipe] = "serving" /\ place[pipe] = active
Orphans == (Running \cap bare) \ {handle, launching}
UserIsServed == []<>(Serves \/ active = None \/ up = "stopped" \/ Orphans # {})
=============================================================================
