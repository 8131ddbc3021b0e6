------------------------------ MODULE OfficeParts ------------------------------
(***************************************************************************)
(* The components of the server, the clock proxy and the dashboard that share *)
(* no state, in one model: in a behaviour one of them moves (part) and the     *)
(* others stay as they begin.                                                *)
(***************************************************************************)
EXTENDS NcrOrders

CONSTANTS
  \* ClockRoster
  RosterClock, Person, Removal, EnrolJob, MaxBlind, MaxRestarts,
  \* ClockScan
  ScanClock, ScanJob, MaxSize, MaxRosterChanges, MaxMarks, MaxScanRestarts,
  \* Registration
  PC, Id, Host, RegLimit, MaxAgentTokens, MaxRenames, MaxDeletes, MaxLost, MaxFails,
  \* Reports, RiskScore
  Store, FileOf, Topic, Question, MaxRuns, MaxDeaths, Answers,
  \* ZamakSync
  Device, SyncJob, MaxSyncs, MaxChanges,
  \* RemoteClockIn, TopicForm
  Employee, Phone, Page, MaxEntries, Photo, MaxUploads,
  \* Insights
  Machine, Run, MaxEvents, PromptSize,
  \* HourlyReadings
  Reader, T, D, MailHour, Skew, MaxTicks, MaxStops,
  \* ServerConfig
  Dash, MaxTokens, MaxSwitches, MaxAsks, MaxCrashes,
  \* Alarms
  Levels, Minutes, DrCooldown, MaxRules, MaxPasses, MaxNotices

VARIABLES
  part,
  \* ClockRoster
  roster, offboard, rosterRow, receipt, doubtful, job, logged, known, blind,
  restarts, reboots,
  \* ClockScan
  size, cached, disk, armed, running, fresh, queued, timers, todo, retry,
  lifted, tornFiles, changes, marks, scanRestarts,
  \* Registration
  pcRow, pcHistory, serviceRows, pcInsights, tombs, id, token, name, attempts, issued,
  renames, deletes, lost, fails,
  \* Reports
  topic, topicHistory, ticketsFresh, runs, recent, docx, request, mailed, deaths,
  \* RiskScore
  state, readings, ai,
  \* ZamakSync
  listed, infected, machines, devices, threats, perf, only, stamp, torn, syncJob,
  timer, mail, syncs, syncChanges,
  \* RemoteClockIn
  active, entry, valid, cookie, page,
  \* TopicForm
  saved, formOpen, entries, uploads, begun,
  \* Insights
  owner, purged, cursor, run, seen, inPrompt, insights,
  \* HourlyReadings
  now, stops, up, boot, checked, next, status, taken, misses, asked, missMailed, sound,
  \* ServerConfig
  file, waiting, granted, tokenCached, failures, warned, switchSeen, putRequest,
  lastSet, newest, switches, asks, crashes,
  \* Alarms
  pass, rules, limits, online, cpu, bad, started, told, overdue, enabled, biosMail,
  fired, calm, notices, notes

rosterVars == <<roster, offboard, rosterRow, receipt, doubtful, job, logged,
  known, blind, restarts, reboots>>
scanVars == <<size, cached, disk, armed, running, fresh, queued, timers, todo,
  retry, lifted, tornFiles, changes, marks, scanRestarts>>
agentVars == <<pcRow, pcHistory, serviceRows, pcInsights, tombs, id, token, name,
  attempts, issued, renames, deletes, lost, fails>>
reportVars == <<topic, topicHistory, ticketsFresh, runs, recent, docx, request,
  mailed, deaths>>
riskVars == <<state, readings, ai>>
zamakVars == <<listed, infected, machines, devices, threats, perf, only, stamp,
  torn, syncJob, timer, mail, syncs, syncChanges>>
entryVars == <<active, entry, valid, cookie, page>>
formVars == <<saved, formOpen, entries, uploads, begun>>
insightVars == <<owner, purged, cursor, run, seen, inPrompt, insights>>
readingVars == <<now, stops, up, boot, checked, next, status, taken, misses, asked,
  missMailed, sound>>
configVars == <<file, waiting, granted, tokenCached, failures, warned, switchSeen,
  putRequest, lastSet, newest, switches, asks, crashes>>
alarmVars == <<pass, rules, limits, online, cpu, bad, started, told, overdue,
  enabled, biosMail, fired, calm, notices, notes>>
all == <<part, vars, rosterVars, scanVars, agentVars, reportVars, riskVars,
  zamakVars, entryVars, formVars, insightVars, readingVars,
  configVars, alarmVars>>

Roster == INSTANCE ClockRoster WITH
  Clock <- RosterClock, Req <- Removal, Job <- EnrolJob, row <- rosterRow
Scan == INSTANCE ClockScan WITH
  Clock <- ScanClock, Job <- ScanJob, MaxChanges <- MaxRosterChanges,
  MaxRestarts <- MaxScanRestarts, restarts <- scanRestarts, torn <- tornFiles
Agents == INSTANCE Registration WITH
  MaxTokens <- MaxAgentTokens,
  row <- pcRow, history <- pcHistory, insights <- pcInsights
Report == INSTANCE Reports WITH Request <- Question,
  history <- topicHistory, fresh <- ticketsFresh
Risk == INSTANCE RiskScore
Zamak == INSTANCE ZamakSync WITH
  Job <- SyncJob, cached <- devices, job <- syncJob, changes <- syncChanges
Clocking == INSTANCE RemoteClockIn
Form == INSTANCE TopicForm WITH open <- formOpen
Insight == INSTANCE Insights WITH shown <- inPrompt
Reading == INSTANCE HourlyReadings WITH Machine <- Reader, mailed <- missMailed
Config == INSTANCE ServerConfig WITH
  asked <- waiting, issued <- granted, cached <- tokenCached, seen <- switchSeen,
  request <- putRequest, last <- lastSet
Alarm == INSTANCE Alarms WITH sending <- biosMail

ASSUME OfficeAssumption ==
  /\ MaxTokens \in Nat
  /\ Person # {}
  /\ Answers \subseteq Int
  /\ Levels \subseteq Int /\ Minutes \subseteq Int /\ MaxRules \in Nat /\ MaxPasses \in Nat
  /\ T \in Nat \ {0} /\ Skew \subseteq Int
  \* every computer can have an id and a name of its own
  /\ MaxAgentTokens \in Nat /\ RegLimit \in Nat
  /\ \E f \in [PC -> Id] : Agents!IsInjective(f)
  /\ \E f \in [PC -> Host] : Agents!IsInjective(f)

Parts == {"orders", "roster", "scan", "agents", "report", "risk", "zamak", "entry",
          "form", "insight", "reading", "config", "alarms"}

Begins ==
  /\ part \in Parts
  /\ Init /\ Agents!Init /\ Insight!Init /\ Reading!Init /\ Config!Init /\ Alarm!Init
  /\ Roster!Init   /\ (part # "roster" => roster = [c \in RosterClock |-> {}])
  /\ Scan!Init     /\ (part # "scan" => size = [c \in ScanClock |-> 1])
  /\ Report!Init
  /\ Risk!Init     /\ (part # "risk" => readings /\ ai = CHOOSE n \in Answers : TRUE)
  /\ Zamak!Init    /\ (part # "zamak" => listed \cup infected \cup machines = {})
  /\ Clocking!Init /\ (part # "entry" => active = {})
  /\ Form!Init     /\ (part # "form" => saved = {})

\* A step of one component leaves the others alone.
Only(x) ==
  /\ part = x /\ UNCHANGED part
  /\ x # "orders" => UNCHANGED vars
  /\ x # "roster" => UNCHANGED rosterVars
  /\ x # "scan" => UNCHANGED scanVars
  /\ x # "agents" => UNCHANGED agentVars
  /\ x # "report" => UNCHANGED reportVars
  /\ x # "risk" => UNCHANGED riskVars
  /\ x # "zamak" => UNCHANGED zamakVars
  /\ x # "entry" => UNCHANGED entryVars
  /\ x # "form" => UNCHANGED formVars
  /\ x # "insight" => UNCHANGED insightVars
  /\ x # "reading" => UNCHANGED readingVars
  /\ x # "config" => UNCHANGED configVars
  /\ x # "alarms" => UNCHANGED alarmVars

Moves ==
  \/ Only("orders") /\ Next
  \/ Only("roster") /\ Roster!Next
  \/ Only("scan") /\ Scan!Next
  \/ Only("agents") /\ Agents!Next
  \/ Only("report") /\ Report!Next
  \/ Only("risk") /\ Risk!Next
  \/ Only("zamak") /\ Zamak!Next
  \/ Only("entry") /\ Clocking!Next
  \/ Only("form") /\ Form!Next
  \/ Only("insight") /\ Insight!Next
  \/ Only("reading") /\ Reading!Next
  \/ Only("config") /\ Config!Next
  \/ Only("alarms") /\ Alarm!Next

Office == Begins /\ [][Moves]_all

-----------------------------------------------------------------------------
(* A row that reports a removal from all clocks is right (ClockRoster).       *)
SuccessMeansGone == Roster!SuccessMeansGone

(* A good list is never lost (ClockScan).                                     *)
GoodListKept == Scan!GoodListKept

(* Re-keying and removal leave no history without a machine (Registration).   *)
NoOrphans == Agents!NoOrphans

(* An answer leads to its report, or a newer one of that file (Reports).      *)
AnswerLeadsToItsFile == Report!AnswerLeadsToItsFile

(* More trouble never lowers a score (RiskScore).                             *)
TroubleNeverLowersTheScore == Risk!TroubleNeverLowersTheScore

(* The tables of the antivirus agree with each other (ZamakSync).             *)
TablesAgree == Zamak!TablesAgree

(* A clock-in is of the person who pressed the button (RemoteClockIn).        *)
EntryIsOfItsPresser == Clocking!EntryIsOfItsPresser

(* The cursor passes only events that a run has read (Insights).              *)
OnlySeenIsPassed == Insight!OnlySeenIsPassed

(* A machine that sent its reading is not reported for it (HourlyReadings).   *)
NoFalseMiss == Reading!NoFalseMiss

(* No writer of config.json undoes what another one has stored (ServerConfig).  *)
NothingUndone == Config!NothingUndone

(* A rule fires only after a load that lasted (Alarms).                       *)
AlarmIsSustained == Alarm!AlarmIsSustained
=============================================================================
