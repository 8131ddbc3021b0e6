---------------------------- MODULE HourlyReadings ----------------------------
(***************************************************************************)
(* One reading of every machine per hour: hourlySnapshotLoop of the agent      *)
(* sends one when it starts and every hour after, without a second try; at     *)
(* minute 5 of the hour, and 5 minutes after it starts, the server looks for   *)
(* machines whose last reading is older than 65 minutes                       *)
(* (_scheduleHourlyMetricsMonitor), and once a day it mails what it found.    *)
(*                                                                         *)
(* Time is counted in ticks of 5 minutes, and what falls into one tick comes   *)
(* in any order.  An hour may go unchecked: the interval of a minute drifts,   *)
(* and `min === 5` can fall between two of its calls.  A reading bears the time *)
(* of its PC, which need not be the server's.                                 *)
(***************************************************************************)
EXTENDS Integers, FiniteSets

CONSTANTS Machine,
          T,         \* ticks of an hour: 12
          D,         \* hours of a day: 24
          MailHour,  \* hour of the mail: 3 (UTC)
          Skew,      \* how far the clock of a PC may be from the server's, in ticks
          MaxTicks,  \* bound: the end of time
          MaxStops   \* bound: how often the server and the agents stop

Never == -1

VARIABLES
  now,
  stops,   \* stops so far (bounded)
  up,      \* the server runs
  boot,    \* when the setTimeout of the start fires, or Never
  checked, \* lastCheckedHour
  next,    \* agent: when it sends its next reading, Never while it is off
  status,  \* machines.status
  taken,   \* machine_metrics_hourly: the newest time its readings bear, or none
  misses,  \* reading_miss_events
  asked,   \* machines that got a get_agent_log, an event and an alert in this tick
  mailed,  \* misses in the last mail
  sound    \* history: machines all of whose readings came in since their agent
           \* started, the last one dated at most one tick too early

server == <<up, boot, checked>>
agent  == <<next, status, taken, sound>>
found  == <<misses, asked, mailed>>
vars   == <<now, stops, server, agent, found>>

(* expected_hour is the hour of `at`.                                         *)
Miss == [machine : Machine, at : Nat, by : {"boot", "hour"}, status : {"online", "offline"}]

TypeOK ==
  /\ now \in 0..MaxTicks /\ stops \in 0..MaxStops /\ up \in BOOLEAN
  /\ boot \in Nat \cup {Never} /\ checked \in Nat \cup {Never}
  /\ next \in [Machine -> Nat \cup {Never}] /\ taken \in [Machine -> SUBSET Int]
  /\ status \in [Machine -> {"online", "offline"}]
  /\ misses \subseteq Miss /\ mailed \subseteq misses
  /\ asked \subseteq Machine /\ sound \subseteq Machine

Init ==
  /\ now = 0 /\ stops = 0 /\ up = TRUE /\ boot = 1 /\ checked = Never
  /\ next = [m \in Machine |-> Never] /\ taken = [m \in Machine |-> {}]
  /\ status = [m \in Machine |-> "offline"]
  /\ misses = {} /\ asked = {} /\ mailed = {} /\ sound = {}

Hour == now \div T

(* The tick ends when what has a fixed time is done.                          *)
Tick ==
  /\ now < MaxTicks /\ boot # now /\ \A m \in Machine : next[m] # now
  /\ now' = now + 1 /\ asked' = {}
  /\ UNCHANGED <<stops, server, agent, misses, mailed>>

(* The agent starts: a heartbeat makes the machine 'online', the first reading  *)
(* is sent ten seconds after.                                               *)
AgentStarts(m) ==
  /\ next[m] = Never
  /\ next' = [next EXCEPT ![m] = now] /\ status' = [status EXCEPT ![m] = "online"]
  /\ UNCHANGED <<now, stops, server, taken, sound, found>>

AgentStops(m) ==
  /\ next[m] # Never /\ stops < MaxStops
  /\ next' = [next EXCEPT ![m] = Never] /\ sound' = sound \ {m}
  /\ stops' = stops + 1
  /\ UNCHANGED <<now, server, status, taken, found>>

(* checkAll marks a machine offline whose heartbeats are missing.              *)
GoesSilent(m) ==
  /\ up /\ next[m] = Never /\ status[m] = "online"
  /\ status' = [status EXCEPT ![m] = "offline"]
  /\ UNCHANGED <<now, stops, server, next, taken, sound, found>>

NextReading(m) == next' = [next EXCEPT ![m] = now + T]

(* sendHourlySnapshot and POST /metrics/hourly: the time is the agent's, and    *)
(* the server takes it unread.                                                *)
Snapshot(m) ==
  /\ up /\ next[m] = now /\ NextReading(m)
  /\ \E d \in Skew :
       /\ taken' = [taken EXCEPT ![m] =
                      IF \E ts \in @ : ts >= now + d THEN @ ELSE {now + d}]
       /\ sound' = IF d < -1 THEN sound \ {m} ELSE sound \cup {m}
  /\ UNCHANGED <<now, stops, server, status, found>>

(* The metrics cannot be read, or the request fails: a warning in the log.     *)
SnapshotFails(m) ==
  /\ next[m] = now /\ NextReading(m)
  /\ sound' = sound \ {m}
  /\ UNCHANGED <<now, stops, server, status, taken, found>>

(* Bug: 60 minutes instead of 65, and a reading of just then counts as old.    *)
MutOld(m) == \A ts \in taken[m] : ts <= now - T

(* last_snapshot_ts, a MAX, IS NULL OR < now - 65 min                         *)
Old(m) == \A ts \in taken[m] : ts < now - (T + 1)

Missing(s) == {m \in Machine : status[m] = s /\ Old(m)}

(* INSERT OR IGNORE, with no UNIQUE constraint to ignore anything by: the check  *)
(* of the start and that of the hour both leave their row.                    *)
NewMisses(s, by) ==
  {[machine |-> m, at |-> now, by |-> by, status |-> s] : m \in Missing(s)}

(* _checkHour: rows for the machines that are offline; for those that are       *)
(* online a row, a command for the log of the agent, an event and an alert.    *)
CheckHour(by) ==
  /\ misses' = misses \cup NewMisses("offline", by) \cup NewMisses("online", by)
  /\ asked' = asked \cup Missing("online")

BootCheck ==
  /\ up /\ boot = now
  /\ CheckHour("boot") /\ boot' = Never
  /\ UNCHANGED <<now, stops, up, checked, agent, mailed>>

HourlyCheck ==
  /\ up /\ now % T = 1 /\ Hour # checked
  /\ CheckHour("hour") /\ checked' = Hour
  /\ UNCHANGED <<now, stops, up, boot, agent, mailed>>

(* sendDailyMetricsEmail: the misses of the calendar day that has just begun.  *)
MailMisses ==
  /\ up /\ now % (T * D) = MailHour * T
  /\ mailed' = {e \in misses : e.at >= (Hour \div D) * D * T}
  /\ UNCHANGED <<now, stops, server, agent, misses, asked>>

ServerStops ==
  /\ up /\ stops < MaxStops
  /\ up' = FALSE /\ boot' = Never /\ checked' = Never
  /\ stops' = stops + 1
  /\ UNCHANGED <<now, agent, found>>

ServerStarts ==
  /\ ~up
  /\ up' = TRUE /\ boot' = now + 1
  /\ UNCHANGED <<now, stops, checked, agent, found>>

Next ==
  \/ Tick \/ BootCheck \/ HourlyCheck \/ MailMisses \/ ServerStops \/ ServerStarts
  \/ \E m \in Machine : \/ AgentStarts(m) \/ AgentStops(m) \/ GoesSilent(m)
                        \/ Snapshot(m) \/ SnapshotFails(m)

Spec == Init /\ [][Next]_vars

-----------------------------------------------------------------------------
(* A machine is reported as online without a reading only if a reading was      *)
(* lost, its agent has just started, or its PC is more than 5 minutes behind:   *)
(* the 65 minutes leave room for an agent that sends every 60 and for 5 minutes *)
(* of its clock, whatever the minute, and however the server restarts.         *)
NoFalseMiss == [][(asked' \ asked) \cap sound = {}]_vars
=============================================================================
