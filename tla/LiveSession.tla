----------------------------- MODULE LiveSession -----------------------------
(***************************************************************************)
(* Remote access to one machine: the relay on the server                   *)
(* (server/services/liveSessionRelay.js, server/routes/live.js), the       *)
(* dashboard's connection (dashboard/src/hooks/useLiveSession.js) and the  *)
(* companion process that streams the screen and applies the operator's    *)
(* input (agent/livesession_windows.go), down to the lock on the physical  *)
(* input (InputLock).                                                      *)
(*                                                                         *)
(* The start and stop commands travel through the command queue, in order  *)
(* and at most once (CommandQueue).  Of the dashboard's messages only      *)
(* lock-local-input and unlock-local-input change state here; mouse and    *)
(* keyboard take the same path.                                            *)
(***************************************************************************)
EXTENDS InputLock, Sequences

CONSTANTS
    Shadow,          \* the sessions of mode 'shadow'; the others are 'normal'
    LossyCommands,   \* may the queue lose a start or stop command?
    MaxToggles,      \* bound: clicks on the lock button per session
    MaxFaults        \* bound: disconnections, restarts, lost commands

ASSUME LiveAssumption ==
    /\ Shadow \subseteq Session
    /\ LossyCommands \in BOOLEAN
    /\ MaxToggles \in Nat /\ MaxFaults \in Nat

VARIABLES
    \* server
    relay,           \* [Session -> RelayState]: the entry of the sessions Map
    companionWs,     \* SUBSET Session: entries with a companion socket
    dashboardWs,     \* [Session -> 0..2]: the current dashboard connection
    pendingUnlock,   \* SUBSET Session: entries with a pendingUnlockTimer
    commands,        \* Seq: start/stop commands not yet delivered
    \* companion
    companionUp,     \* BOOLEAN: is the process running?
    liveSessions,    \* SUBSET Session: the keys of the map liveSessions
    stopCh,          \* SUBSET Session: sessions whose stopCh is closed
    loop,            \* [Session -> LoopState]: runLiveSessionLoop
    reader,          \* [Session -> ReaderState]: readLiveSessionInput
    conn,            \* [Session -> ConnState]: the companion's WebSocket
    toCompanion,     \* [Session -> Seq(Message)]: sent on it, not yet read
    \* dashboard
    dash,            \* [Session -> DashState]
    attempt,         \* [Session -> 0..2]: number of its connection; 2: retried
    toServer,        \* [Session -> [1..2 -> Seq]]: sent on each connection
    inputLocked,     \* [Session -> BOOLEAN]: what the lock button shows
    toggles,         \* [Session -> Nat]
    faults

relayVars     == <<relay, companionWs, dashboardWs, pendingUnlock>>
companionVars == <<companionUp, liveSessions, stopCh, loop, reader, conn>>
dashVars      == <<dash, attempt, inputLocked, toggles>>
liveVars == <<relay, companionWs, dashboardWs, pendingUnlock, commands, companionUp,
              liveSessions, stopCh, loop, reader, conn, toCompanion, dash, attempt,
              toServer, inputLocked, toggles, faults>>
vars == <<lockVars, liveVars>>

RelayState  == {"none", "registered", "gone"}
LoopState   == {"none", "dialing", "streaming", "closing", "ended"}
ReaderState == {"none", "reading", "done"}
ConnState   == {"none", "up", "down"}
DashState   == {"none", "connecting", "open", "retrying", "error", "closed"}
Message     == {"lock", "unlock"}
Command     == [type : {"start", "stop"}, session : Session]

Init ==
    /\ LockInit
    /\ relay         = [s \in Session |-> "none"]
    /\ companionWs   = {}
    /\ dashboardWs   = [s \in Session |-> 0]
    /\ pendingUnlock = {}
    /\ commands      = <<>>
    /\ companionUp   = TRUE
    /\ liveSessions  = {}
    /\ stopCh        = {}
    /\ loop          = [s \in Session |-> "none"]
    /\ reader        = [s \in Session |-> "none"]
    /\ conn          = [s \in Session |-> "none"]
    /\ toCompanion   = [s \in Session |-> <<>>]
    /\ dash          = [s \in Session |-> "none"]
    /\ attempt       = [s \in Session |-> 0]
    /\ toServer      = [s \in Session |-> [k \in 1..2 |-> <<>>]]
    /\ inputLocked   = [s \in Session |-> FALSE]
    /\ toggles       = [s \in Session |-> 0]
    /\ faults        = 0

-----------------------------------------------------------------------------
(* The relay and its HTTP routes. *)

\* Mutant.
MutNoGraceTimer(s) == pendingUnlock

\* routeMessage reaches the companion only in a registered, normal session.
MayRoute(s) == relay[s] = "registered" /\ s \notin Shadow

\* isCurrentSocket for the dashboard's connection k.
IsCurrentSocket(s, k) == relay[s] = "registered" /\ dashboardWs[s] = k

\* unregisterSession and attachDashboardSocket cancel the timer of the grace.
CancelPendingUnlock(s) == pendingUnlock \ {s}

\* scheduleUnlockOnDashboardDisconnect.
ScheduleUnlock(s) == pendingUnlock \cup {s}

\* What useLiveSession does when its connection closes: one retry, ever.
AfterClose(s) == IF attempt[s] = 1 THEN "retrying" ELSE "error"

\* routeMessage(s, 'dashboard', msg): safeSend drops what has no open socket.
Route(s, msg) ==
    toCompanion' =
        IF MayRoute(s) /\ s \in companionWs /\ conn[s] = "up"
        THEN [toCompanion EXCEPT ![s] = Append(@, msg)]
        ELSE toCompanion

\* POST /live/:machineId/start; the dashboard opens a window on the answer.
StartSession(s) ==
    /\ relay[s] = "none"
    /\ relay'    = [relay EXCEPT ![s] = "registered"]
    /\ commands' = Append(commands, [type |-> "start", session |-> s])
    /\ dash'     = [dash EXCEPT ![s] = "connecting"]
    /\ attempt'  = [attempt EXCEPT ![s] = 1]
    /\ UNCHANGED <<lockVars, companionWs, dashboardWs, pendingUnlock, companionVars,
                   toCompanion, toServer, inputLocked, toggles, faults>>

\* POST /live/:sessionId/stop.  The entry goes; its sockets are not closed, but
\* none of them is current any more.  Bound: one stop per session.
StopSession(s) ==
    /\ relay[s] # "none"
    /\ s \notin stopCh /\ [type |-> "stop", session |-> s] \notin
                              {commands[i] : i \in 1..Len(commands)}
    /\ relay'         = [relay EXCEPT ![s] = "gone"]
    /\ companionWs'   = companionWs \ {s}
    /\ dashboardWs'   = [dashboardWs EXCEPT ![s] = 0]
    /\ pendingUnlock' = CancelPendingUnlock(s)
    /\ commands'      = Append(commands, [type |-> "stop", session |-> s])
    /\ UNCHANGED <<lockVars, companionVars, toCompanion, dashVars, toServer, faults>>

\* The dashboard's connection is accepted (attachDashboardSocket) or refused.
\* The client of a connection this one replaces has already given it up.
ConnectDashboard(s) ==
    /\ dash[s] = "connecting"
    /\ IF relay[s] = "registered"
       THEN /\ dashboardWs'   = [dashboardWs EXCEPT ![s] = attempt[s]]
            /\ pendingUnlock' = CancelPendingUnlock(s)
            /\ dash'          = [dash EXCEPT ![s] = "open"]
       ELSE /\ dash' = [dash EXCEPT ![s] = AfterClose(s)]
            /\ UNCHANGED <<dashboardWs, pendingUnlock>>
    /\ UNCHANGED <<lockVars, relay, companionWs, commands, companionVars, toCompanion,
                   attempt, toServer, inputLocked, toggles, faults>>

\* 'message' and 'close' of the dashboard's connection k.
ReceiveFromDashboard(s, k) ==
    /\ toServer[s][k] # <<>>
    /\ \/ /\ ~IsCurrentSocket(s, k)
          /\ UNCHANGED <<dashboardWs, pendingUnlock, toCompanion>>
       \/ /\ IsCurrentSocket(s, k) /\ Head(toServer[s][k]) = "close"
          /\ dashboardWs'   = [dashboardWs EXCEPT ![s] = 0]
          /\ pendingUnlock' = ScheduleUnlock(s)
          /\ UNCHANGED toCompanion
       \/ /\ IsCurrentSocket(s, k) /\ Head(toServer[s][k]) # "close"
          /\ Route(s, Head(toServer[s][k]))
          /\ UNCHANGED <<dashboardWs, pendingUnlock>>
    /\ toServer' = [toServer EXCEPT ![s][k] = Tail(@)]
    /\ UNCHANGED <<lockVars, relay, companionWs, commands, companionVars, dashVars, faults>>

\* dashboardUnlockGraceMs after the dashboard's connection was lost.
GraceExpires(s) ==
    /\ s \in pendingUnlock
    /\ pendingUnlock' = pendingUnlock \ {s}
    /\ Route(s, "unlock")
    /\ UNCHANGED <<lockVars, relay, companionWs, dashboardWs, commands, companionVars,
                   dashVars, toServer, faults>>

\* 'close' of the companion's connection.
CompanionClosed(s) ==
    /\ conn[s] = "down" /\ s \in companionWs
    /\ companionWs' = companionWs \ {s}
    /\ UNCHANGED <<lockVars, relay, dashboardWs, pendingUnlock, commands, companionVars,
                   toCompanion, dashVars, toServer, faults>>

-----------------------------------------------------------------------------
(* The companion. *)

\* Mutants.
MutReleaseBeforeReader(s) == loop[s] = "closing"
MutWaitBeforeClose(s) == conn[s]

\* The defers of runLiveSessionLoop: conn.Close, then readerDone.Wait ...
MayRelease(s) == loop[s] = "closing" /\ reader[s] = "done"

\* ... then releaseLocalInputLockForSession.
ReleaseAtEnd(s, ok) == Release(s, ok)

\* What becomes of the connection when the loop returns: conn.Close.
CloseConn(s) == "down"

\* The agent runs the next command, which asks the companion over the pipe:
\* startLiveSession or stopLiveSession.  Without a companion it fails.
DeliverCommand ==
    /\ commands # <<>>
    /\ commands' = Tail(commands)
    /\ LET c == Head(commands)
           s == c.session
       IN  \/ /\ c.type = "start" /\ companionUp /\ s \notin liveSessions
              /\ liveSessions' = liveSessions \cup {s}
              /\ loop'         = [loop EXCEPT ![s] = "dialing"]
              /\ UNCHANGED stopCh
           \/ /\ c.type = "stop" /\ companionUp /\ s \in liveSessions
              /\ liveSessions' = liveSessions \ {s}
              /\ stopCh'       = stopCh \cup {s}
              /\ UNCHANGED loop
           \/ /\ ~companionUp \/ (c.type = "stop" /\ s \notin liveSessions)
              /\ UNCHANGED <<liveSessions, stopCh, loop>>
    /\ UNCHANGED <<lockVars, relayVars, companionUp, reader, conn, toCompanion,
                   dashVars, toServer, faults>>

\* Dial succeeds; a relay that does not know the session closes at once.
Dial(s) ==
    /\ loop[s] = "dialing"
    /\ loop'   = [loop EXCEPT ![s] = "streaming"]
    /\ reader' = [reader EXCEPT ![s] = "reading"]
    /\ conn'   = [conn EXCEPT ![s] = IF relay[s] = "registered" THEN "up" ELSE "down"]
    /\ companionWs' = IF relay[s] = "registered" THEN companionWs \cup {s} ELSE companionWs
    /\ UNCHANGED <<lockVars, relay, dashboardWs, pendingUnlock, commands, companionUp,
                   liveSessions, stopCh, toCompanion, dashVars, toServer, faults>>

\* handleLiveSessionInput.  The companion does not trust the relay: a shadow
\* session's messages are ignored here as well.
Apply(s, msg, ok) ==
    IF s \in Shadow
    THEN UNCHANGED lockVars
    ELSE (msg = "lock" /\ Lock(s, ok)) \/ (msg = "unlock" /\ Unlock(s, ok))

\* readLiveSessionInput, also for what was buffered before the connection closed.
HandleInput(s) ==
    /\ reader[s] = "reading" /\ toCompanion[s] # <<>>
    /\ toCompanion' = [toCompanion EXCEPT ![s] = Tail(@)]
    /\ \E ok \in BlockResults : Apply(s, Head(toCompanion[s]), ok)
    /\ UNCHANGED <<relayVars, commands, companionVars, dashVars, toServer, faults>>

\* ReadMessage returns an error on a closed connection.
ReaderEnds(s) ==
    /\ reader[s] = "reading" /\ conn[s] = "down"
    /\ reader'      = [reader EXCEPT ![s] = "done"]
    /\ toCompanion' = [toCompanion EXCEPT ![s] = <<>>]
    /\ UNCHANGED <<lockVars, relayVars, commands, companionUp, liveSessions, stopCh, loop,
                   conn, dashVars, toServer, faults>>

\* The frame loop sees stopCh, and its deferred conn.Close runs.
SeeStop(s) ==
    /\ loop[s] = "streaming" /\ s \in stopCh
    /\ loop' = [loop EXCEPT ![s] = "closing"]
    /\ conn' = [conn EXCEPT ![s] = CloseConn(s)]
    /\ UNCHANGED <<lockVars, relayVars, commands, companionUp, liveSessions, stopCh, reader,
                   toCompanion, dashVars, toServer, faults>>

\* Writing a frame fails (sendLiveSessionFrame).  While no frame can be captured
\* nothing is written and a dead connection goes unnoticed.
WriteFails(s) ==
    /\ loop[s] = "streaming" /\ conn[s] = "down"
    /\ loop' = [loop EXCEPT ![s] = "closing"]
    /\ UNCHANGED <<lockVars, relayVars, commands, companionUp, liveSessions, stopCh, reader,
                   conn, toCompanion, dashVars, toServer, faults>>

EndLoop(s) ==
    /\ MayRelease(s)
    /\ \E ok \in BlockResults : ReleaseAtEnd(s, ok)
    /\ loop'         = [loop EXCEPT ![s] = "ended"]
    /\ liveSessions' = liveSessions \ {s}
    /\ UNCHANGED <<relayVars, commands, companionUp, stopCh, reader, conn, toCompanion,
                   dashVars, toServer, faults>>

FailsafeFires(s) == TimerFires(s) /\ UNCHANGED liveVars

FailsafeReleases(s) ==
    /\ \E ok \in BlockResults : TimerCallback(s, ok)
    /\ UNCHANGED liveVars

\* The agent's sessionWatchTick relaunches a dead companion.
RelaunchCompanion ==
    /\ ~companionUp
    /\ companionUp' = TRUE
    /\ UNCHANGED <<lockVars, relayVars, commands, liveSessions, stopCh, loop, reader, conn,
                   toCompanion, dashVars, toServer, faults>>

-----------------------------------------------------------------------------
(* The dashboard. *)

\* RECONNECT_DELAY_MS after the first close.
Reconnect(s) ==
    /\ dash[s] = "retrying"
    /\ dash'    = [dash EXCEPT ![s] = "connecting"]
    /\ attempt' = [attempt EXCEPT ![s] = @ + 1]
    /\ UNCHANGED <<lockVars, relayVars, commands, companionVars, toCompanion, toServer,
                   inputLocked, toggles, faults>>

\* toggleInputLock, a button enabled while the status is 'connected': nobody
\* confirms the message and the button flips at once.
ToggleInputLock(s) ==
    /\ toggles[s] < MaxToggles /\ s \notin Shadow
    /\ dash[s] = "open"
    /\ inputLocked' = [inputLocked EXCEPT ![s] = ~@]
    /\ toggles'     = [toggles EXCEPT ![s] = @ + 1]
    /\ toServer'    = [toServer EXCEPT ![s][attempt[s]] =
                         Append(@, IF inputLocked[s] THEN "unlock" ELSE "lock")]
    /\ UNCHANGED <<lockVars, relayVars, commands, companionVars, toCompanion, dash,
                   attempt, faults>>

\* The window goes away (closed by the operator, or the renderer died).
CloseWindow(s) ==
    /\ dash[s] \notin {"none", "closed"}
    /\ dash'     = [dash EXCEPT ![s] = "closed"]
    /\ toServer' = IF dash[s] = "open"
                   THEN [toServer EXCEPT ![s][attempt[s]] = Append(@, "close")]
                   ELSE toServer
    /\ UNCHANGED <<lockVars, relayVars, commands, companionVars, toCompanion, attempt,
                   inputLocked, toggles, faults>>

-----------------------------------------------------------------------------
(* Faults, at most MaxFaults of them. *)

Fault == faults < MaxFaults /\ faults' = faults + 1

\* The network between dashboard and server fails: any number of the messages
\* on their way are lost, and both ends of an open connection see it closed.
DashboardDisconnects(s) ==
    /\ Fault
    /\ dash[s] \in {"connecting", "open"}
    /\ dash' = [dash EXCEPT ![s] = AfterClose(s)]
    /\ IF dash[s] = "open"
       THEN \E n \in 0..Len(toServer[s][attempt[s]]) :
              toServer' = [toServer EXCEPT ![s][attempt[s]] =
                              Append(SubSeq(@, 1, n), "close")]
       ELSE UNCHANGED toServer
    /\ UNCHANGED <<lockVars, relayVars, commands, companionVars, toCompanion, attempt,
                   inputLocked, toggles>>

\* The network between companion and server fails.
CompanionDisconnects(s) ==
    /\ Fault
    /\ conn[s] = "up"
    /\ conn' = [conn EXCEPT ![s] = "down"]
    /\ UNCHANGED <<lockVars, relayVars, commands, companionUp, liveSessions, stopCh, loop,
                   reader, toCompanion, dashVars, toServer>>

\* runLiveSessionLoop returns at once when Dial fails.
DialFails(s) ==
    /\ Fault
    /\ loop[s] = "dialing"
    /\ loop'         = [loop EXCEPT ![s] = "ended"]
    /\ liveSessions' = liveSessions \ {s}
    /\ UNCHANGED <<lockVars, relayVars, commands, companionUp, stopCh, reader, conn,
                   toCompanion, dashVars, toServer>>

\* The sessions Map is lost with the process; the commands are in the database.
ServerRestart ==
    /\ Fault
    /\ relay'         = [s \in Session |-> IF relay[s] = "registered" THEN "gone" ELSE relay[s]]
    /\ companionWs'   = {}
    /\ dashboardWs'   = [s \in Session |-> 0]
    /\ pendingUnlock' = {}
    /\ conn'          = [s \in Session |-> IF conn[s] = "up" THEN "down" ELSE conn[s]]
    /\ dash'          = [s \in Session |-> IF dash[s] = "open" THEN AfterClose(s) ELSE dash[s]]
    /\ toServer'      = [s \in Session |-> [k \in 1..2 |-> <<>>]]
    /\ UNCHANGED <<lockVars, commands, companionUp, liveSessions, stopCh, loop, reader,
                   toCompanion, attempt, inputLocked, toggles>>

\* The companion's process dies; Windows lifts its BlockInput.
CompanionCrash ==
    /\ Fault
    /\ companionUp
    /\ companionUp'  = FALSE
    /\ liveSessions' = {}
    /\ loop'   = [s \in Session |-> IF loop[s] = "none" THEN "none" ELSE "ended"]
    /\ reader' = [s \in Session |-> IF reader[s] = "none" THEN "none" ELSE "done"]
    /\ conn'   = [s \in Session |-> IF conn[s] = "none" THEN "none" ELSE "down"]
    /\ toCompanion' = [s \in Session |-> <<>>]
    /\ lockedBy' = NoSession /\ blocked' = FALSE /\ timer' = NoSession /\ expired' = {}
    /\ UNCHANGED <<relayVars, commands, stopCh, dashVars, toServer>>

\* The queue drops a command, or the agent cannot reach the companion in time.
LoseCommand ==
    /\ Fault
    /\ LossyCommands /\ commands # <<>>
    /\ commands' = Tail(commands)
    /\ UNCHANGED <<lockVars, relayVars, companionVars, toCompanion, dashVars, toServer>>

-----------------------------------------------------------------------------
RelayStep(s) ==
    \/ StartSession(s) \/ StopSession(s) \/ ConnectDashboard(s)
    \/ \E k \in 1..2 : ReceiveFromDashboard(s, k)
    \/ GraceExpires(s) \/ CompanionClosed(s)

CompanionStep(s) ==
    \/ Dial(s) \/ HandleInput(s) \/ ReaderEnds(s) \/ SeeStop(s) \/ WriteFails(s)
    \/ EndLoop(s) \/ FailsafeFires(s) \/ FailsafeReleases(s)

DashboardStep(s) == Reconnect(s) \/ ToggleInputLock(s) \/ CloseWindow(s)

FaultStep ==
    \/ \E s \in Session : DashboardDisconnects(s) \/ CompanionDisconnects(s) \/ DialFails(s)
    \/ ServerRestart \/ CompanionCrash \/ LoseCommand

Next ==
    \/ \E s \in Session : RelayStep(s) \/ CompanionStep(s) \/ DashboardStep(s)
    \/ DeliverCommand \/ RelaunchCompanion
    \/ FaultStep

Spec == Init /\ [][Next]_vars

(* Timers fire, goroutines and callbacks run, the agent polls and relaunches  *)
(* the companion.  The operator may do nothing, and nothing has to go wrong.  *)
RunFairness ==
    /\ WF_vars(DeliverCommand)
    /\ WF_vars(RelaunchCompanion)
    /\ \A s \in Session :
         /\ WF_vars(ConnectDashboard(s))
         /\ \A k \in 1..2 : WF_vars(ReceiveFromDashboard(s, k))
         /\ WF_vars(GraceExpires(s))
         /\ WF_vars(CompanionClosed(s))
         /\ WF_vars(Dial(s))
         /\ WF_vars(HandleInput(s))
         /\ WF_vars(ReaderEnds(s))
         /\ WF_vars(SeeStop(s))
         /\ WF_vars(EndLoop(s))
         /\ WF_vars(Reconnect(s))

(* First line of defence only: frames can be captured, so that a dead         *)
(* connection is noticed; the failsafe may never fire.                        *)
CaptureSpec == Spec /\ RunFairness /\ \A s \in Session : WF_vars(WriteFails(s))

(* Second line only: the failsafe, with no frame ever captured.               *)
FailsafeSpec ==
    /\ Spec
    /\ \A s \in Session : WF_vars(FailsafeFires(s)) /\ WF_vars(FailsafeReleases(s))

-----------------------------------------------------------------------------
RelayTypeOK ==
    /\ relay         \in [Session -> RelayState]
    /\ companionWs   \subseteq Session
    /\ dashboardWs   \in [Session -> 0..2]
    /\ pendingUnlock \subseteq Session
    /\ commands      \in Seq(Command)

CompanionTypeOK ==
    /\ companionUp   \in BOOLEAN
    /\ liveSessions  \subseteq Session
    /\ stopCh        \subseteq Session
    /\ loop          \in [Session -> LoopState]
    /\ reader        \in [Session -> ReaderState]
    /\ conn          \in [Session -> ConnState]
    /\ toCompanion   \in [Session -> Seq(Message)]

DashTypeOK ==
    /\ dash          \in [Session -> DashState]
    /\ attempt       \in [Session -> 0..2]
    /\ toServer      \in [Session -> [1..2 -> Seq(Message \cup {"close"})]]
    /\ inputLocked   \in [Session -> BOOLEAN]
    /\ toggles       \in [Session -> Nat]
    /\ faults        \in Nat

TypeOK == LockTypeOK /\ RelayTypeOK /\ CompanionTypeOK /\ DashTypeOK

(* A session never owns the lock once its loop has ended: no message read in  *)
(* the last moment takes the lock after the final release.  (The order of the *)
(* defers of runLiveSessionLoop.)                                             *)
LockOwnerIsRunning ==
    lockedBy # NoSession => loop[lockedBy] \in {"streaming", "closing"}

(* In shadow mode nothing travels from the server to the companion, the       *)
(* unlock of the grace timer included.  (routeMessage.)                       *)
ShadowIsOneWay == \A s \in Shadow : toCompanion[s] = <<>>

(* The grace timer runs only for a registered session without dashboard: no   *)
(* late close of a replaced connection unlocks under a connected operator.    *)
(* (wireLiveSocket, attachDashboardSocket, unregisterSession.)                *)
GraceOnlyWithoutDashboard ==
    \A s \in pendingUnlock : relay[s] = "registered" /\ dashboardWs[s] = 0

(* When the operator is gone for good, the physical input of the store is     *)
(* given back, without waiting for the failsafe.                              *)
OperatorGoneUnlocks ==
    \A s \in Session :
        lockedBy = s /\ dash[s] \in {"error", "closed"} ~> lockedBy # s

(* A stopped session ends on the companion.                                   *)
StopEndsSession ==
    \A s \in Session : s \in stopCh ~> loop[s] \in {"none", "ended"}

(* Whatever fails, the failsafe alone ends every lock.                        *)
LockIsBounded == \A s \in Session : lockedBy = s ~> lockedBy # s
=============================================================================
