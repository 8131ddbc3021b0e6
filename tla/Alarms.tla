-------------------------------- MODULE Alarms --------------------------------
(***************************************************************************)
(* services/alertEngine.js: what the engine tells of a machine.  Every pass of *)
(* checkAll (30 s) looks at the last metrics of a machine that is online and    *)
(* fires the rules of routes/alerts.js; it also tells of outages, of what      *)
(* Auto-Wake does, of a BIOS that must be set up and of overdue backups.       *)
(* FleetStatus decides when those happen; here they happen at any time.        *)
(***************************************************************************)
EXTENDS Integers, Sequences, SequencesExt

CONSTANTS Levels,      \* CPU loads and thresholds, numbers
          Minutes,     \* duration_mins that rules have, in passes
          DrCooldown,  \* DR_COOLDOWN_MS in passes
          MaxRules, MaxPasses, MaxNotices  \* bounds

VARIABLES
  pass,     \* passes of checkAll so far
  rules,    \* enabled cpu_high rules in the order of the table, and when they came
  limits,   \* enabled rules without a duration, here one of each kind
  online,   \* the status of the machine
  cpu, bad, \* its last_metrics: the load; which limits it is past
  started,  \* cpuAlertStart of the machine: a pass, or None
  told,     \* drAlertCooldown: the pass of the last overdue backup told, or None
  overdue,  \* its backup is due
  enabled,  \* alerts.offlineEnabled
  sending,  \* sendWolBiosAlert waits for the mail server: what it was told of
  fired,    \* history: the alerts of the last pass, [kind, rule]
  calm,     \* history: the last pass that found a load below a threshold, rule or not
  notices,  \* history: messages sent, by any channel
  notes     \* bound: events that are told of, other than loads, and uses of the bell

vars == <<pass, rules, limits, online, cpu, bad, started, told, overdue, enabled,
          sending, fired, calm, notices, notes>>

None == -1
Rule == [threshold : Levels, mins : Minutes, born : 0..MaxPasses]
Limits == {"temp_high", "disk_low"}
Channels == {"push", "mail", "teams"}

TypeOK ==
  /\ pass \in 0..MaxPasses /\ rules \in SeqOf(Rule, MaxRules) /\ limits \subseteq Limits
  /\ online \in BOOLEAN /\ cpu \in Levels \cup {0} /\ bad \subseteq Limits
  /\ started \in -1..MaxPasses /\ told \in -1..MaxPasses
  /\ overdue \in BOOLEAN /\ enabled \in BOOLEAN /\ sending \in BOOLEAN
  /\ notices \subseteq Channels
  /\ calm \in [Levels -> 0..MaxPasses]

Init ==
  /\ pass = 0 /\ rules = <<>> /\ limits = Limits
  /\ online = TRUE /\ cpu = 0 /\ bad = {}
  /\ started = None /\ told = None /\ overdue = FALSE
  /\ enabled = TRUE /\ sending = FALSE
  /\ fired = {} /\ calm = [l \in Levels |-> 0]
  /\ notices = {} /\ notes = 0

operator == <<rules, limits, enabled>>
machine  == <<online, cpu, bad, overdue>>
engine   == <<pass, started, told, fired, calm>>

-----------------------------------------------------------------------------
(* POST /alerts; the engine reads the rules in the order of their ids.         *)
CreateAlert(l, m) ==
  /\ Len(rules) < MaxRules
  /\ rules' = Append(rules, [threshold |-> l, mins |-> m, born |-> pass])
  /\ notices' = {}
  /\ UNCHANGED <<limits, enabled, machine, engine, sending, notes>>

DeleteAlert(i) ==
  /\ i \in DOMAIN rules
  /\ rules' = RemoveAt(rules, i)
  /\ notices' = {}
  /\ UNCHANGED <<limits, enabled, machine, engine, sending, notes>>

(* The bell of the top bar, read from the file each time something is told.    *)
Bell ==
  /\ notes < MaxNotices /\ notes' = notes + 1
  /\ enabled' = ~enabled
  /\ notices' = {}
  /\ UNCHANGED <<rules, limits, machine, engine, sending>>

(* A heartbeat brings metrics; a machine falls silent or comes back.           *)
Metrics ==
  /\ cpu' \in Levels \cup {0} /\ online' = TRUE
  /\ \/ UNCHANGED <<bad, overdue, notes>>
     \/ /\ notes < MaxNotices /\ notes' = notes + 1
        /\ bad' \in {{}, Limits} /\ overdue' \in BOOLEAN
  /\ notices' = {}
  /\ UNCHANGED <<operator, engine, sending>>

FallsSilent ==
  /\ online /\ online' = FALSE
  /\ notices' = {}
  /\ UNCHANGED <<cpu, bad, overdue, operator, engine, sending, notes>>

-----------------------------------------------------------------------------
\* fireAlert, and the mail and the Teams card of an alert.
FireAlert == IF enabled THEN {"push"} ELSE {}
Send(channel) == IF enabled THEN {channel} ELSE {}

\* checkCpuAlerts for one rule: [key, fires] after it, from the key before it.
\* All rules of a machine share the key.
MutCpuRule(key, r) ==  \* mutation: a load below the threshold keeps the key
  IF cpu >= r.threshold
  THEN LET since == IF key = None THEN pass + 1 ELSE key
       IN  IF pass + 1 - since >= r.mins THEN [key |-> None, fires |-> TRUE]
           ELSE [key |-> since, fires |-> FALSE]
  ELSE [key |-> key, fires |-> FALSE]

CpuRule(key, r) ==
  IF cpu >= r.threshold
  THEN LET since == IF key = None THEN pass + 1 ELSE key
       IN  IF pass + 1 - since >= r.mins THEN [key |-> None, fires |-> TRUE]
           ELSE [key |-> since, fires |-> FALSE]
  ELSE [key |-> None, fires |-> FALSE]

\* The key after the first n rules.
KeyAfter[n \in 0..MaxRules] ==
  IF n = 0 THEN started ELSE CpuRule(KeyAfter[n - 1], rules[n]).key

CheckCpuAlerts ==
  LET alarms == {rules[i] : i \in {j \in DOMAIN rules : CpuRule(KeyAfter[j - 1], rules[j]).fires}}
  IN  /\ started' = KeyAfter[Len(rules)]
      /\ fired' = [kind : {"cpu_high"}, rule : alarms] \cup [kind : bad \cap limits]
      /\ calm' = [l \in Levels |-> IF cpu < l THEN pass + 1 ELSE calm[l]]

(* checkMetricThresholds: a machine that is not online is passed over, and its *)
(* key stays as it is.  A rule for temperature or disk fires in every pass.    *)
CheckMetricThresholds ==
  \/ online /\ CheckCpuAlerts
  \/ /\ ~online /\ fired' = {}
     /\ UNCHANGED <<started, calm>>

(* checkDRBackups: the cooldown starts even when nothing is sent.              *)
DrTold == overdue /\ (told = None \/ pass + 1 - told >= DrCooldown)

CheckAll ==
  /\ pass < MaxPasses /\ pass' = pass + 1
  /\ CheckMetricThresholds
  /\ told' = IF DrTold THEN pass + 1 ELSE told
  /\ notices' = (IF fired' # {} \/ DrTold THEN FireAlert ELSE {})
                \cup (IF DrTold THEN Send("mail") ELSE {})
  /\ UNCHANGED <<operator, machine, sending, notes>>

(* An outage, the begin of an Auto-Wake or its end: an alert, a mail and a      *)
(* card, none of which is waited for.                                         *)
Tell ==
  /\ notes < MaxNotices /\ notes' = notes + 1
  /\ notices' = FireAlert \cup Send("mail") \cup Send("teams")
  /\ UNCHANGED <<operator, machine, engine, sending>>

(* sendWolBiosAlert: the alert and the mail at once, the card after the mail.  *)
TellBios ==
  /\ notes < MaxNotices /\ notes' = notes + 1
  /\ ~sending /\ sending' = TRUE
  /\ notices' = FireAlert \cup Send("mail")
  /\ UNCHANGED <<operator, machine, engine>>

MailDone ==
  /\ sending /\ sending' = FALSE
  /\ notices' = Send("teams")
  /\ UNCHANGED <<operator, machine, engine, notes>>

Restart ==
  /\ started' = None /\ told' = None /\ sending' = FALSE
  /\ fired' = {} /\ notices' = {}
  /\ UNCHANGED <<pass, calm, operator, machine, notes>>

Next ==
  \/ \E l \in Levels, m \in Minutes : CreateAlert(l, m)
  \/ \E i \in 1..MaxRules : DeleteAlert(i)
  \/ Bell \/ Metrics \/ FallsSilent
  \/ CheckAll \/ Tell \/ TellBios \/ MailDone
  \/ Restart

Spec == Init /\ [][Next]_vars

-----------------------------------------------------------------------------
(* An alarm of a high load is a true one: it names a rule only if no pass in    *)
(* the minutes of the rule has found the load below its threshold, or none     *)
(* since the rule was created; so a rule as old as its minutes fires only after *)
(* a load that lasted, whatever offline times, restarts and changes of the      *)
(* rules lie between, and whatever the other rules of the machine do to the     *)
(* clock they share.  A younger rule may fire at once, for the minutes that     *)
(* another, lower one has counted.                                           *)
AlarmIsSustained ==
  \A f \in fired : f.kind = "cpu_high" =>
    \/ pass - calm[f.rule.threshold] >= f.rule.mins
    \/ calm[f.rule.threshold] <= f.rule.born

=============================================================================
