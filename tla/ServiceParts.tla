------------------------------ MODULE ServiceParts ------------------------------
(***************************************************************************)
(* The components with liveness properties that share no state, in one model: *)
(* in a behaviour one of them moves (part) and the others stay as they begin;   *)
(* the fairness of a component is asked for only where it moves.               *)
(***************************************************************************)
EXTENDS Updater

CONSTANTS
  \* ClockQueue
  Clock, MaxSlots, MaxPending,
  \* CommandQueue
  Machine, Cmd, Dest, DrSetup, RunCmd, NoCmd, MaxClock, MaxFaults,
  \* EmployeeTable
  MaxJobs, MaxList,
  \* RhHealth
  Cooldown, MaxRefused, MaxRestarts,
  \* Invoices
  Biller, Listed, MaxDays, MaxTriggers, MaxLooks, MaxErrors,
  \* SessionWindow
  MaxRecordings, MaxCloses, MaxFailures,
  \* Registration
  PC, Id, Host, RegLimit, MaxTokens, MaxRenames, MaxDeletes, MaxLost, MaxFails,
  \* FleetView
  Viewed, Dash, Group, MaxChanges, MaxLists

VARIABLES
  part,
  \* ClockQueue
  pending, phase, slots, waiters,
  \* CommandQueue
  clock, status, created, waiter, cmdPhase, batch, current, routine,
  drSetupInProgress, installing, reply, abandoned, acks, runs, outcome, faults,
  \* EmployeeTable
  loading, polling, panel, sending, triggered, pollers, sent, ended,
  \* RhHealth
  world, failures, muted, enabled, keyed, mailed, refused, healthRestarts,
  \* Invoices
  lists, days, poll, cache, shown, dayStatus, lookLoading, statusAsked, triggers,
  looks, errors,
  \* SessionWindow
  windowOpen, started, armed, inbox, outbox, mounted, session, dead, made, recorder,
  line, asking, ending, awaited, stopped, marked, kept, forced, failed, early,
  closes, failedCalls,
  \* Registration
  row, history, serviceRows, insights, tombs, id, token, name, attempts, issued, renames,
  deletes, lost, fails,
  \* FleetView
  rows, view, open, wire, asked, answers, edit, done, fleetChanges

queueVars == <<pending, phase, slots, waiters>>
commandVars == <<clock, status, created, waiter, cmdPhase, batch, current, routine,
  drSetupInProgress, installing, reply, abandoned, acks, runs, outcome, faults>>
tableVars  == <<loading, polling, panel, sending, triggered, pollers, sent, ended>>
healthVars == <<world, failures, muted, enabled, keyed, mailed, refused, healthRestarts>>
billVars   == <<lists, days, poll, cache, shown, dayStatus, lookLoading, statusAsked,
  triggers, looks, errors>>
windowVars == <<windowOpen, started, armed, inbox, outbox, mounted, session, dead,
  made, recorder, line, asking, ending, awaited, stopped, marked, kept, forced,
  failed, early, closes, failedCalls>>
viewVars   == <<rows, view, open, wire, asked, answers, edit, done, fleetChanges>>
agentVars  == <<row, history, serviceRows, insights, tombs, id, token, name, attempts,
  issued, renames,
  deletes, lost, fails>>
all == <<part, vars, queueVars, commandVars, tableVars, healthVars, billVars,
  windowVars, agentVars, viewVars>>

Queue == INSTANCE ClockQueue
Commands == INSTANCE CommandQueue WITH phase <- cmdPhase
Table == INSTANCE EmployeeTable
Health == INSTANCE RhHealth WITH restarts <- healthRestarts
Bills == INSTANCE Invoices WITH
  Machine <- Biller, status <- dayStatus, loading <- lookLoading, asked <- statusAsked
Window == INSTANCE SessionWindow WITH open <- windowOpen, failures <- failedCalls
Agents == INSTANCE Registration
View == INSTANCE FleetView WITH
  Machine <- Viewed, row <- rows, changes <- fleetChanges

Parts == {"queue", "commands", "table", "update", "health", "bills", "window",
          "agents", "view"}

Begins ==
  /\ part \in Parts
  /\ Init /\ Queue!Init /\ Commands!Init /\ Table!Init
  /\ Health!Init /\ (part # "health" => world = "fine" /\ enabled /\ keyed)
  /\ Bills!Init /\ Window!Init
  /\ Agents!Init
  /\ View!Init /\ (part # "view" => \A m \in Viewed : rows[m].status = "online")

\* A step of one component leaves the others alone.
Only(x) ==
  /\ part = x /\ UNCHANGED part
  /\ x # "queue" => UNCHANGED queueVars
  /\ x # "commands" => UNCHANGED commandVars
  /\ x # "table" => UNCHANGED tableVars
  /\ x # "update" => UNCHANGED vars
  /\ x # "health" => UNCHANGED healthVars
  /\ x # "bills" => UNCHANGED billVars
  /\ x # "window" => UNCHANGED windowVars
  /\ x # "agents" => UNCHANGED agentVars
  /\ x # "view" => UNCHANGED viewVars

Moves ==
  \/ Only("queue") /\ Queue!Next
  \/ Only("commands") /\ Commands!Next
  \/ Only("table") /\ Table!Next
  \/ Only("update") /\ Next
  \/ Only("health") /\ Health!Next
  \/ Only("bills") /\ Bills!Next
  \/ Only("window") /\ Window!Next
  \/ Only("agents") /\ Agents!Next
  \/ Only("view") /\ View!Next

\* The fairness of every component, where it moves.
FairServices ==
  /\ Begins /\ [][Moves]_all
  /\ \A c \in Clock : WF_queueVars(part = "queue" /\ Queue!Step(c))
  /\ \A m \in Machine :
       /\ WF_commandVars(part = "commands" /\ Commands!SendPoll(m))
       /\ WF_commandVars(part = "commands" /\ Commands!ServePoll(m))
       /\ WF_commandVars(part = "commands" /\ Commands!ReceiveBatch(m))
       /\ WF_commandVars(part = "commands" /\ Commands!StartCommand(m))
       /\ WF_commandVars(part = "commands" /\ Commands!AbandonCommand(m))
       /\ WF_commandVars(part = "commands" /\ Commands!EndBatch(m))
  /\ WF_commandVars(part = "commands" /\ (\E a \in acks : Commands!ServeAck(a)))
  /\ WF_tableVars(part = "table" /\ (Table!PollEnds \/ Table!PollThrows))
  /\ WF_tableVars(part = "table" /\ Table!Send)
  /\ WF_tableVars(part = "table" /\ Table!PollerStep)
  /\ WF_vars(part = "update" /\ Heartbeat)
  /\ WF_vars(part = "update" /\ ServiceStarts)
  /\ \A b \in By :
       /\ WF_vars(part = "update" /\ UpdateStep(b))
       /\ SF_vars(part = "update" /\ Downloaded(b))
  /\ WF_healthVars(part = "health" /\ Health!CheckOnce)
  /\ \A m \in Biller : WF_billVars(part = "bills" /\ Bills!Agent(m))
  /\ WF_billVars(part = "bills" /\ Bills!PollTick)
  /\ WF_billVars(part = "bills" /\ (\E r \in statusAsked : Bills!Answer(r)))
  /\ WF_windowVars(part = "window" /\ Window!InitArrives)
  /\ WF_windowVars(part = "window" /\ Window!CleanupArrives)
  /\ WF_windowVars(part = "window" /\ Window!AllSaved)
  /\ WF_windowVars(part = "window" /\ Window!Converted)
  /\ WF_windowVars(part = "window" /\ Window!SaveDialog)
  /\ WF_windowVars(part = "window" /\ (Window!StopDone \/ Window!StopFails))
  /\ WF_windowVars(part = "window" /\ Window!CleanupDone)
  /\ WF_windowVars(part = "window" /\ Window!CleanupFailed)
  /\ WF_windowVars(part = "window" /\ Window!TimerFires)
  /\ WF_agentVars(part = "agents" /\ (\E a \in PC : Agents!Register(a)))
  /\ WF_agentVars(part = "agents" /\ Agents!WindowEnds)
  /\ \A d \in Dash :
       /\ WF_viewVars(part = "view" /\ View!Refresh(d))
       /\ WF_viewVars(part = "view" /\ View!ServeList(d))
       /\ WF_viewVars(part = "view" /\ View!Receive(d))
       /\ WF_viewVars(part = "view" /\ (\E list \in answers[d] : View!ListArrives(d, list)))
       /\ WF_viewVars(part = "view" /\ View!ServeEdit(d))
       /\ WF_viewVars(part = "view" /\ View!EditDone(d))

-----------------------------------------------------------------------------
(* Every command gets a verdict when nothing is lost (CommandQueue).          *)
EveryCommandAnswered == Commands!EveryCommandAnswered

(* Every entry of the panel gets its verdict (EmployeeTable).                 *)
SyncEnds == Table!SyncEnds

(* The line for browsers moves (ClockQueue).                                  *)
QueueMoves == Queue!QueueMoves

(* A proxy that refuses connections is mailed about (RhHealth).               *)
OutageIsMailed == part = "health" => Health!OutageIsMailed

(* A refused agent has a row again in the end (Registration).                 *)
AgentReturns == part = "agents" => Agents!AgentReturns

(* What a dashboard shows becomes what the database holds (FleetView).         *)
ViewCatchesUp == part = "view" => View!ViewCatchesUp

(* A progress bar of the invoice index does not stand still (Invoices).        *)
BarComesToAnEnd == Bills!BarComesToAnEnd

(* No recording goes with its window (SessionWindow).                         *)
NoRecordingIsLost == Window!NoRecordingIsLost

(* A window that was closed goes away in the end (SessionWindow).              *)
WindowCloses == Window!WindowCloses
=============================================================================
