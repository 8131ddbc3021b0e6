---------------------------- MODULE CommandQueue ----------------------------
(***************************************************************************)
(* Remote commands: the server's table of commands and the agents that     *)
(* fetch and run them.                                                     *)
(*                                                                         *)
(* Server (server/db.js, routes/agent.js, routes/machines.js): a command   *)
(* is inserted 'pending'; the agent's GET marks every pending command of   *)
(* its machine 'sent' BEFORE the answer travels; the agent's ack makes it  *)
(* 'acked' or 'failed'.  Nothing ever takes a command back from 'sent', so *)
(* delivery is at most once: a lost answer or an agent crash loses it.     *)
(*                                                                         *)
(* Agent (agent/agent.go): one goroutine, commandLoop, polls, runs the     *)
(* batch in order and acks each command once, without retry.  A handler    *)
(* that outlives commandExecutionDeadline is abandoned: it is acked as     *)
(* failed and its goroutine goes on, an orphan, beside later commands.     *)
(***************************************************************************)
EXTENDS Naturals, FiniteSets

CONSTANTS
    Machine,     \* the agents
    Cmd,         \* the commands that may be issued
    Dest,        \* [Cmd -> Machine]: the machine a command is addressed to
    DrSetup,     \* the commands of type dr-setup (guarded by drSetupInProgress)
    RunCmd,      \* the commands issued by POST /machines/:id/run
    NoCmd,       \* "commandLoop is running no handler"
    MaxClock,    \* bound: distinct values of created_at
    MaxFaults    \* bound: lost messages, agent crashes and server restarts

ASSUME QueueAssumption ==
    /\ Dest \in [Cmd -> Machine]
    /\ DrSetup \subseteq Cmd
    /\ RunCmd \subseteq Cmd
    /\ NoCmd \notin Cmd
    /\ MaxClock \in Nat
    /\ MaxFaults \in Nat

VARIABLES
    \* server: the commands table and the callers of POST /run
    clock,       \* wall clock of the server, as far as created_at shows it
    status,      \* [Cmd -> Status]
    created,     \* [Cmd -> Nat]: created_at
    waiter,      \* [Cmd -> WaiterState]: the HTTP caller polling for a result
    \* agent
    phase,       \* [Machine -> Phase]: where commandLoop is
    batch,       \* [Machine -> SUBSET Cmd]: the rest of cmdResp.Commands
    current,     \* [Machine -> Cmd \cup {NoCmd}]: what handleCommand waits for
    routine,     \* [Cmd -> Routine]: the goroutine of runCommandWithDeadline
    drSetupInProgress, \* [Machine -> BOOLEAN]: the agent's atomic flag
    installing,  \* SUBSET Cmd: dr-setup goroutines that are past its guard
    \* network
    reply,       \* [Machine -> SUBSET Cmd]: answer to the GET, on its way
    abandoned,   \* [Machine -> Nat]: GETs the agent gave up, not yet served
    acks,        \* the acks on their way
    \* history and bounds
    runs,        \* [Cmd -> Nat]: times executeCommand was called
    outcome,     \* [Cmd -> Outcome]: what the handler returned
    faults       \* faults so far

serverVars == <<clock, status, created, waiter>>
drVars     == <<drSetupInProgress, installing>>
agentVars  == <<phase, batch, current, routine, drSetupInProgress, installing>>
netVars    == <<reply, abandoned, acks>>
histVars   == <<runs, outcome>>
vars == <<clock, status, created, waiter, phase, batch, current, routine,
          drSetupInProgress, installing, reply, abandoned, acks, runs, outcome, faults>>

Status      == {"none", "pending", "sent", "acked", "failed"}
WaiterState == {"none", "waiting", "ok", "failed", "timeout", "gone"}
Phase       == {"down", "idle", "polling", "answered", "busy"}
Routine     == {"none", "running", "returned", "killed"}
Outcome     == {"none", "ok", "error"}
Ack         == [cmd : Cmd, success : BOOLEAN]

\* The commands of m the server would hand out now.
Pending(m) == {c \in Cmd : Dest[c] = m /\ status[c] = "pending"}

(* Mutants: the definitions that follow as plausible bugs would have them;   *)
(* no run uses them, PROJECT.json says which property catches each.          *)
MutAnswersWithoutMarking(m) == status
MutNoCompareAndSwap(c) == c \in DrSetup
MutOrphanAcks(c, ok) ==
    /\ current[Dest[c]] # c /\ routine[c] = "running"
    /\ routine' = [routine EXCEPT ![c] = "returned"]
    /\ outcome' = [outcome EXCEPT ![c] = IF ok THEN "ok" ELSE "error"]
    /\ acks'    = acks \cup {[cmd |-> c, success |-> ok]}
    /\ UNCHANGED <<serverVars, phase, batch, current, drVars, reply, abandoned,
                   runs, faults>>
MutAbandonWithoutAck(m) ==
    /\ current[m] # NoCmd
    /\ current' = [current EXCEPT ![m] = NoCmd]
    /\ UNCHANGED <<serverVars, phase, batch, routine, drVars, netVars, histVars, faults>>

-----------------------------------------------------------------------------
\* What an ack writes into the table.
Verdict(success) == IF success THEN "acked" ELSE "failed"

\* getPendingCommands marks what it has selected.
MarkSent(m) == [c \in Cmd |-> IF c \in Pending(m) THEN "sent" ELSE status[c]]

\* The commands of a batch that may come next: ORDER BY created_at leaves the
\* order of commands created in the same millisecond open.
Oldest(cs) == {c \in cs : \A d \in cs : created[c] <= created[d]}

\* handleDRSetup's CompareAndSwap: a second dr-setup will return an error.
EntersDrSetup(c) == c \in DrSetup /\ ~drSetupInProgress[Dest[c]]

\* The goroutines of m that are inside a handler.
Running(m) == {c \in Cmd : Dest[c] = m /\ routine[c] = "running"}

-----------------------------------------------------------------------------
Init ==
    /\ clock     = 1
    /\ status    = [c \in Cmd |-> "none"]
    /\ created   = [c \in Cmd |-> 0]
    /\ waiter    = [c \in Cmd |-> "none"]
    /\ phase     = [m \in Machine |-> "idle"]
    /\ batch     = [m \in Machine |-> {}]
    /\ current   = [m \in Machine |-> NoCmd]
    /\ routine   = [c \in Cmd |-> "none"]
    /\ drSetupInProgress = [m \in Machine |-> FALSE]
    /\ installing = {}
    /\ reply     = [m \in Machine |-> {}]
    /\ abandoned = [m \in Machine |-> 0]
    /\ acks      = {}
    /\ runs      = [c \in Cmd |-> 0]
    /\ outcome   = [c \in Cmd |-> "none"]
    /\ faults    = 0

-----------------------------------------------------------------------------
(* The server. *)

\* A later millisecond.
Tick ==
    /\ clock < MaxClock
    /\ clock' = clock + 1
    /\ UNCHANGED <<status, created, waiter, agentVars, netVars, histVars, faults>>

\* createCommand; for POST /run the caller stays, polling for the result.
CreateCommand(c) ==
    /\ status[c] = "none"
    /\ status'  = [status EXCEPT ![c] = "pending"]
    /\ created' = [created EXCEPT ![c] = clock]
    /\ waiter'  = [waiter EXCEPT ![c] = IF c \in RunCmd THEN "waiting" ELSE @]
    /\ UNCHANGED <<clock, agentVars, netVars, histVars, faults>>

\* pollCommandResult sees the verdict and POST /run answers 200 or 500.
WaiterSeesVerdict(c) ==
    /\ waiter[c] = "waiting"
    /\ status[c] \in {"acked", "failed"}
    /\ waiter' = [waiter EXCEPT ![c] = IF status[c] = "acked" THEN "ok" ELSE "failed"]
    /\ UNCHANGED <<clock, status, created, agentVars, netVars, histVars, faults>>

\* 35 s are over: POST /run answers 504.  The command stays where it is and
\* may still be delivered and run.
WaiterTimesOut(c) ==
    /\ waiter[c] = "waiting"
    /\ waiter' = [waiter EXCEPT ![c] = "timeout"]
    /\ UNCHANGED <<clock, status, created, agentVars, netVars, histVars, faults>>

\* GET /commands/:machineId: select the pending commands and mark them 'sent'.
ServePoll(m) ==
    /\ phase[m] = "polling"
    /\ status' = MarkSent(m)
    /\ reply'  = [reply EXCEPT ![m] = Pending(m)]
    /\ phase'  = [phase EXCEPT ![m] = "answered"]
    /\ UNCHANGED <<clock, created, waiter, batch, current, routine, drVars,
                   abandoned, acks, histVars, faults>>

\* The same handler runs for a request whose client has hung up: the commands
\* become 'sent' and the answer reaches nobody.
ServeAbandonedPoll(m) ==
    /\ abandoned[m] > 0
    /\ abandoned' = [abandoned EXCEPT ![m] = @ - 1]
    /\ status' = MarkSent(m)
    /\ UNCHANGED <<clock, created, waiter, agentVars, reply, acks, histVars, faults>>

\* POST /commands/ack: the UPDATE has no guard on the old status.
ServeAck(a) ==
    /\ a \in acks
    /\ acks'   = acks \ {a}
    /\ status' = [status EXCEPT ![a.cmd] = Verdict(a.success)]
    /\ UNCHANGED <<clock, created, waiter, agentVars, reply, abandoned, histVars, faults>>

-----------------------------------------------------------------------------
(* The agent. *)

\* commandLoop's ticker fires and pollCommands sends the GET.
SendPoll(m) ==
    /\ phase[m] = "idle"
    /\ phase' = [phase EXCEPT ![m] = "polling"]
    /\ UNCHANGED <<serverVars, batch, current, routine, drVars, netVars, histVars, faults>>

\* pollCommands decodes the answer and starts on the batch.
ReceiveBatch(m) ==
    /\ phase[m] = "answered"
    /\ batch' = [batch EXCEPT ![m] = reply[m]]
    /\ reply' = [reply EXCEPT ![m] = {}]
    /\ phase' = [phase EXCEPT ![m] = "busy"]
    /\ UNCHANGED <<serverVars, current, routine, drVars, abandoned, acks, histVars, faults>>

\* handleCommand on the next command of the batch: runCommandWithDeadline
\* starts a goroutine in executeCommand.
StartCommand(m) ==
    /\ phase[m] = "busy" /\ current[m] = NoCmd
    /\ \E c \in Oldest(batch[m]) :
         /\ batch'   = [batch EXCEPT ![m] = @ \ {c}]
         /\ current' = [current EXCEPT ![m] = c]
         /\ routine' = [routine EXCEPT ![c] = "running"]
         /\ runs'    = [runs EXCEPT ![c] = @ + 1]
         /\ installing' = IF EntersDrSetup(c) THEN installing \cup {c} ELSE installing
         /\ drSetupInProgress' = [drSetupInProgress EXCEPT ![m] = @ \/ EntersDrSetup(c)]
    /\ UNCHANGED <<serverVars, phase, netVars, outcome, faults>>

\* The handler returns ok, or an error (a panic counts as one).  A dr-setup
\* refused by the guard returns an error; one past it clears the flag (defer).
Returns(c, ok) ==
    /\ routine[c] = "running"
    /\ c \in DrSetup \ installing => ~ok
    /\ routine' = [routine EXCEPT ![c] = "returned"]
    /\ outcome' = [outcome EXCEPT ![c] = IF ok THEN "ok" ELSE "error"]
    /\ installing' = installing \ {c}
    /\ drSetupInProgress' =
         [drSetupInProgress EXCEPT ![Dest[c]] = @ /\ c \notin installing]

\* ... within the deadline: handleCommand acks with what it returned.
FinishCommand(c, ok) ==
    /\ current[Dest[c]] = c
    /\ Returns(c, ok)
    /\ current' = [current EXCEPT ![Dest[c]] = NoCmd]
    /\ acks'    = acks \cup {[cmd |-> c, success |-> ok]}
    /\ UNCHANGED <<serverVars, phase, batch, reply, abandoned, runs, faults>>

\* ... after it was abandoned: its result goes to resultCh and nobody reads it.
FinishOrphan(c, ok) ==
    /\ current[Dest[c]] # c
    /\ Returns(c, ok)
    /\ UNCHANGED <<serverVars, phase, batch, current, netVars, runs, faults>>

\* commandExecutionDeadline passes first: ack a failure and go on.
AbandonCommand(m) ==
    /\ current[m] # NoCmd
    /\ acks'    = acks \cup {[cmd |-> current[m], success |-> FALSE]}
    /\ current' = [current EXCEPT ![m] = NoCmd]
    /\ UNCHANGED <<serverVars, phase, batch, routine, drVars, reply, abandoned,
                   histVars, faults>>

\* The batch is done: back to the ticker.
EndBatch(m) ==
    /\ phase[m] = "busy" /\ current[m] = NoCmd /\ batch[m] = {}
    /\ phase' = [phase EXCEPT ![m] = "idle"]
    /\ UNCHANGED <<serverVars, batch, current, routine, drVars, netVars, histVars, faults>>

-----------------------------------------------------------------------------
(* Faults, at most MaxFaults of them. *)

Fault == faults < MaxFaults /\ faults' = faults + 1

\* The GET fails or times out on the agent, before or after it was served.
PollFails(m) ==
    /\ Fault
    /\ phase[m] \in {"polling", "answered"}
    /\ phase' = [phase EXCEPT ![m] = "idle"]
    /\ reply' = [reply EXCEPT ![m] = {}]
    /\ \/ phase[m] = "polling" /\ abandoned' = [abandoned EXCEPT ![m] = @ + 1]
       \/ UNCHANGED abandoned
    /\ UNCHANGED <<serverVars, batch, current, routine, drVars, acks, histVars>>

\* The ack does not reach the server; the agent logs a warning and goes on.
LoseAck(a) ==
    /\ Fault
    /\ a \in acks
    /\ acks' = acks \ {a}
    /\ UNCHANGED <<serverVars, agentVars, reply, abandoned, histVars>>

\* The agent's process dies with everything it holds in memory.
AgentCrash(m) ==
    /\ Fault
    /\ phase[m] # "down"
    /\ phase'     = [phase EXCEPT ![m] = "down"]
    /\ batch'     = [batch EXCEPT ![m] = {}]
    /\ current'   = [current EXCEPT ![m] = NoCmd]
    /\ drSetupInProgress' = [drSetupInProgress EXCEPT ![m] = FALSE]
    /\ installing' = installing \ Running(m)
    /\ reply'     = [reply EXCEPT ![m] = {}]
    /\ routine'   = [c \in Cmd |-> IF c \in Running(m) THEN "killed" ELSE routine[c]]
    /\ abandoned' = [abandoned EXCEPT ![m] = IF phase[m] = "polling" THEN @ + 1 ELSE @]
    /\ UNCHANGED <<serverVars, acks, histVars>>

\* The Windows service manager starts it again.
AgentRestart(m) ==
    /\ phase[m] = "down"
    /\ phase' = [phase EXCEPT ![m] = "idle"]
    /\ UNCHANGED <<serverVars, batch, current, routine, drVars, netVars, histVars, faults>>

\* The server's process restarts: the table survives, callers and requests do
\* not.
ServerRestart ==
    /\ Fault
    /\ waiter' = [c \in Cmd |-> IF waiter[c] = "waiting" THEN "gone" ELSE waiter[c]]
    /\ acks'      = {}
    /\ abandoned' = [m \in Machine |-> 0]
    /\ UNCHANGED <<clock, status, created, agentVars, reply, histVars>>

-----------------------------------------------------------------------------
ServerStep ==
    \/ Tick
    \/ \E c \in Cmd : CreateCommand(c) \/ WaiterSeesVerdict(c) \/ WaiterTimesOut(c)
    \/ \E m \in Machine : ServePoll(m) \/ ServeAbandonedPoll(m)
    \/ \E a \in acks : ServeAck(a)

AgentStep ==
    \/ \E m \in Machine :
         \/ SendPoll(m) \/ ReceiveBatch(m) \/ StartCommand(m)
         \/ AbandonCommand(m) \/ EndBatch(m) \/ AgentRestart(m)
    \/ \E c \in Cmd, ok \in BOOLEAN : FinishCommand(c, ok) \/ FinishOrphan(c, ok)

FaultStep ==
    \/ \E m \in Machine : PollFails(m) \/ AgentCrash(m)
    \/ \E a \in acks : LoseAck(a)
    \/ ServerRestart

Next == ServerStep \/ AgentStep \/ FaultStep

Spec == Init /\ [][Next]_vars

(* Node runs its event loop, Go its goroutines and timers, and the service   *)
(* manager restarts a dead agent.  Nothing says that a handler ever returns: *)
(* the Veeam installer may wait for a prompt for ever.                       *)
Fairness ==
    /\ \A m \in Machine :
         /\ WF_vars(SendPoll(m))
         /\ WF_vars(ServePoll(m))
         /\ WF_vars(ReceiveBatch(m))
         /\ WF_vars(StartCommand(m))
         /\ WF_vars(AbandonCommand(m))
         /\ WF_vars(EndBatch(m))
         /\ WF_vars(AgentRestart(m))
    /\ WF_vars(\E a \in acks : ServeAck(a))

FairSpec == Spec /\ Fairness

-----------------------------------------------------------------------------
TypeOK ==
    /\ clock     \in Nat
    /\ status    \in [Cmd -> Status]
    /\ created   \in [Cmd -> Nat]
    /\ waiter    \in [Cmd -> WaiterState]
    /\ phase     \in [Machine -> Phase]
    /\ batch     \in [Machine -> SUBSET Cmd]
    /\ current   \in [Machine -> Cmd \cup {NoCmd}]
    /\ routine   \in [Cmd -> Routine]
    /\ drSetupInProgress \in [Machine -> BOOLEAN]
    /\ installing \subseteq Cmd
    /\ reply     \in [Machine -> SUBSET Cmd]
    /\ abandoned \in [Machine -> Nat]
    /\ acks      \subseteq Ack
    /\ runs      \in [Cmd -> Nat]
    /\ outcome   \in [Cmd -> Outcome]
    /\ faults    \in Nat

(* A command is executed at most once, whatever is lost, crashes or restarts: *)
(* what makes a reboot or an uninstall safe to send.  (getPendingCommands     *)
(* marks 'sent' before it answers.)                                           *)
AtMostOnce == \A c \in Cmd : runs[c] <= 1

(* What the dashboard shows is true: 'acked' only for a command whose handler *)
(* returned without error, and POST /run answers 200 only for such a one.     *)
(* (handleCommand, pollCommandResult.)                                        *)
AnswersAreTrue ==
    \A c \in Cmd :
        status[c] = "acked" \/ waiter[c] = "ok" => outcome[c] = "ok"

(* At most one dr-setup is past its guard on a machine at any time, orphans   *)
(* included: two Veeam installers would write the same file.                  *)
(* (handleDRSetup, drSetupInProgress.)                                        *)
DrSetupExclusive ==
    \A c, d \in installing : Dest[c] = Dest[d] => c = d

\* If this step starts c, nothing younger of its machine was started before.
StartIsInOrder ==
    \A c, d \in Cmd : Dest[c] = Dest[d] /\ runs[d] > 0 /\ runs'[c] > runs[c]
                     => created[d] <= created[c]

(* An agent runs the commands of its machine in the order they were created:  *)
(* no command starts after a younger one.  (getPendingCommands takes all of   *)
(* them in ORDER BY created_at; commandLoop ends the batch before it polls.)  *)
StartsInOrder == [][StartIsInOrder]_vars

(* The queue implements the promise of CommandDelivery.                       *)
Delivery == INSTANCE CommandDelivery WITH
    createdAt <- created,
    starts    <- runs,
    succeeded <- {c \in Cmd : outcome[c] = "ok"},
    verdict   <- [c \in Cmd |-> IF status[c] \in {"acked", "failed"}
                               THEN status[c] ELSE "open"]

ImplementsDelivery == Delivery!Spec

(* With no fault (MaxFaults = 0), every command gets a verdict.               *)
EveryCommandAnswered ==
    \A c \in Cmd : status[c] = "pending" ~> status[c] \in {"acked", "failed"}
=============================================================================
