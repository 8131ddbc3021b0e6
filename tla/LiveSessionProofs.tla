-------------------------- MODULE LiveSessionProofs --------------------------
(***************************************************************************)
(* Theorems about remote access, for any number of sessions of a machine,  *)
(* any number of clicks and faults, and a BlockInput that may fail.        *)
(***************************************************************************)
EXTENDS LiveSession, SequenceTheorems, TLAPS

-----------------------------------------------------------------------------
(* The input lock by itself.                                               *)

LockInv == LockTypeOK /\ OwnerHasFailsafe /\ OwnerMeansBlocked /\ BlockedMeansOwner

LEMMA LockInvInit == LockInit => LockInv
  BY LockAssumption DEF LockInit, LockInv, LockTypeOK, OwnerHasFailsafe, OwnerMeansBlocked,
     BlockedMeansOwner

(* Every operation of the lock preserves its invariant.                    *)
LEMMA LockInvStep == LockInv /\ [LockNext]_lockVars => LockInv'
<1> SUFFICES ASSUME LockInv, [LockNext]_lockVars PROVE LockInv'
  OBVIOUS
<1> USE LockAssumption DEF LockInv, LockTypeOK, OwnerHasFailsafe, OwnerMeansBlocked,
      BlockedMeansOwner
<1>1. CASE UNCHANGED lockVars
  BY <1>1 DEF lockVars
<1>2. ASSUME NEW s \in Session, TimerFires(s) PROVE LockInv'
  BY <1>2 DEF TimerFires
<1>3. ASSUME NEW s \in Session, NEW ok \in BlockResults, Lock(s, ok) PROVE LockInv'
  <2>1. CASE lockedBy = s
    BY <1>3, <2>1, <1>1 DEF Lock
  <2>2. CASE lockedBy # s /\ ok
    BY <1>3, <2>2 DEF Lock, BlockInput, ResetTimer, OwnerAfter
  <2>3. CASE lockedBy # s /\ ~ok
    BY <1>3, <2>3 DEF Lock, BlockInput, ResetTimer, OwnerAfter
  <2> QED BY <2>1, <2>2, <2>3
<1>4. ASSUME NEW s \in Session, NEW ok \in BlockResults, Unlock(s, ok) PROVE LockInv'
  <2>1. CASE lockedBy # s \/ ~ok
    BY <1>4, <2>1, <1>1 DEF Unlock
  <2>2. CASE lockedBy = s /\ ok
    BY <1>4, <2>2 DEF Unlock, BlockInput
  <2> QED BY <2>1, <2>2
<1>5. ASSUME NEW s \in Session, NEW ok \in BlockResults, Release(s, ok) PROVE LockInv'
  BY <1>5 DEF Release, GiveUp, BlockInput
<1>6. ASSUME NEW s \in Session, NEW ok \in BlockResults, TimerCallback(s, ok) PROVE LockInv'
  <2>1. CASE lockedBy # s
    <3>1. UNCHANGED <<lockedBy, blocked, timer>> /\ expired' = expired \ {s}
      BY <1>6, <2>1 DEF TimerCallback, GiveUp
    <3> QED BY <2>1, <3>1
  <2>2. CASE lockedBy = s
    <3>1. lockedBy' = NoSession /\ timer' = NoSession /\ expired' = expired \ {s}
      BY <1>6, <2>2 DEF TimerCallback, GiveUp
    <3>2. blocked' = IF ok THEN FALSE ELSE blocked
      BY <1>6, <2>2 DEF TimerCallback, GiveUp, BlockInput
    <3> QED BY <3>1, <3>2
  <2> QED BY <2>1, <2>2
<1> QED BY <1>1, <1>2, <1>3, <1>4, <1>5, <1>6 DEF LockNext

(* Whoever owns the lock has a failsafe under way, across takeovers,       *)
(* failing system calls and late callbacks; an owner really has the input  *)
(* blocked; and without failures of BlockInput nobody is locked out by a   *)
(* lock without owner.  (setLocalInputLocked and                           *)
(* releaseLocalInputLockForSession under localInputLockMu.)                *)
THEOREM LockIsSafe ==
    LockSpec => [](LockTypeOK /\ OwnerHasFailsafe /\ OwnerMeansBlocked /\ BlockedMeansOwner)
<1>1. LockInv => LockTypeOK /\ OwnerHasFailsafe /\ OwnerMeansBlocked /\ BlockedMeansOwner
  BY DEF LockInv
<1> QED BY <1>1, LockInvInit, LockInvStep, PTL DEF LockSpec
-----------------------------------------------------------------------------
(* The sessions around it.                                                 *)

(* The dashboard reconnects once: while it waits to retry, the connection  *)
(* that was lost is its first.                                             *)
RetryOnce ==
    \A s \in Session :
        /\ dash[s] = "retrying" => attempt[s] = 1
        /\ dash[s] \in {"connecting", "open"} => attempt[s] \in 1..2

(* What the goroutine that reads input needs: its loop has not ended.      *)
ReaderHasLoop ==
    \A s \in Session : reader[s] = "reading" => loop[s] \in {"streaming", "closing"}

\* The steps by which the lock can change are those of InputLock, and the death
\* of the process that holds it.
LockSteps == [LockNext]_lockVars \/ LockInit'

(* Every step of a session is a step of the lock, or leaves it alone, or   *)
(* is the death of the companion, which starts it afresh.                  *)
LEMMA LockStepsOnly == [Next]_vars => LockSteps
<1> SUFFICES ASSUME [Next]_vars PROVE LockSteps
  OBVIOUS
<1> USE DEF LockSteps
<1>1. CASE UNCHANGED lockVars
  BY <1>1
<1>2. ASSUME NEW s \in Session, RelayStep(s) PROVE LockSteps
  BY <1>2, <1>1 DEF RelayStep, StartSession, StopSession, ConnectDashboard,
     ReceiveFromDashboard, GraceExpires, CompanionClosed
<1>3. ASSUME NEW s \in Session, HandleInput(s) PROVE LockSteps
  <2>1. PICK ok \in BlockResults : UNCHANGED lockVars \/ Lock(s, ok) \/ Unlock(s, ok)
    BY <1>3 DEF HandleInput, Apply
  <2> QED BY <2>1, <1>1 DEF LockNext
<1>4. ASSUME NEW s \in Session, EndLoop(s) PROVE LockSteps
  BY <1>4 DEF EndLoop, ReleaseAtEnd, LockNext
<1>5. ASSUME NEW s \in Session, FailsafeFires(s) \/ FailsafeReleases(s) PROVE LockSteps
  BY <1>5 DEF FailsafeFires, FailsafeReleases, LockNext
<1>6. ASSUME NEW s \in Session,
             Dial(s) \/ ReaderEnds(s) \/ SeeStop(s) \/ WriteFails(s)
      PROVE  LockSteps
  BY <1>6, <1>1 DEF Dial, ReaderEnds, SeeStop, WriteFails
<1>7. ASSUME NEW s \in Session, DashboardStep(s) PROVE LockSteps
  BY <1>7, <1>1 DEF DashboardStep, Reconnect, ToggleInputLock, CloseWindow
<1>8. CASE DeliverCommand \/ RelaunchCompanion
  BY <1>8, <1>1 DEF DeliverCommand, RelaunchCompanion
<1>9. ASSUME NEW s \in Session,
             DashboardDisconnects(s) \/ CompanionDisconnects(s) \/ DialFails(s)
      PROVE  LockSteps
  BY <1>9, <1>1 DEF DashboardDisconnects, CompanionDisconnects, DialFails
<1>10. CASE ServerRestart \/ LoseCommand
  BY <1>10, <1>1 DEF ServerRestart, LoseCommand
<1>11. CASE CompanionCrash
  BY <1>11 DEF CompanionCrash, LockInit
<1>12. CASE UNCHANGED vars
  BY <1>12, <1>1 DEF vars
<1> QED
  BY <1>2, <1>3, <1>4, <1>5, <1>6, <1>7, <1>8, <1>9, <1>10, <1>11, <1>12
  DEF Next, CompanionStep, FaultStep

(* The lock's own invariant holds in the whole system.                     *)
LEMMA LockInvAlways == Spec => []LockInv
<1>1. Init => LockInv
  BY LockInvInit DEF Init
<1>2. LockInv /\ [Next]_vars => LockInv'
  <2> SUFFICES ASSUME LockInv, [Next]_vars PROVE LockInv'
    OBVIOUS
  <2>1. LockSteps
    BY LockStepsOnly
  <2>2. LockInit' => LockInv'
    BY LockAssumption DEF LockInit, LockInv, LockTypeOK, OwnerHasFailsafe,
       OwnerMeansBlocked, BlockedMeansOwner
  <2> QED BY <2>1, <2>2, LockInvStep DEF LockSteps
<1> QED BY <1>1, <1>2, PTL DEF Spec

(* Whoever owns the lock has a failsafe under way, through takeovers, late *)
(* callbacks, crashes of the companion and failing system calls            *)
(* (resetLocalInputLockTimerLocked).                                       *)
THEOREM OwnersHaveFailsafe == Spec => []OwnerHasFailsafe
<1>1. LockInv => OwnerHasFailsafe
  BY DEF LockInv
<1> QED BY <1>1, LockInvAlways, PTL

(* An owner really has the input blocked: no dashboard shows a lock that   *)
(* the store does not feel (setLocalInputLocked).                          *)
THEOREM OwnersBlock == Spec => []OwnerMeansBlocked
<1>1. LockInv => OwnerMeansBlocked
  BY DEF LockInv
<1> QED BY <1>1, LockInvAlways, PTL

(* As long as BlockInput does what it is asked to, nobody is locked out by *)
(* a lock that no session owns (releaseLocalInputLockForSession).          *)
THEOREM BlocksHaveOwner == Spec => []BlockedMeansOwner
<1>1. LockInv => BlockedMeansOwner
  BY DEF LockInv
<1> QED BY <1>1, LockInvAlways, PTL
-----------------------------------------------------------------------------
(* Type correctness needs to know that there is only one retry.            *)
TypeInv == TypeOK /\ RetryOnce

LEMMA TypeInvInit == Init => TypeInv
<1> SUFFICES ASSUME Init PROVE TypeInv
  OBVIOUS
<1> USE LiveAssumption DEF Init
<1>1. LockTypeOK
  BY LockAssumption DEF LockInit, LockTypeOK
<1>2. RelayTypeOK /\ CompanionTypeOK
  BY DEF RelayTypeOK, CompanionTypeOK, RelayState, LoopState, ReaderState, ConnState
<1>3. DashTypeOK
  BY DEF DashTypeOK, DashState
<1>4. RetryOnce
  BY DEF RetryOnce
<1> QED BY <1>1, <1>2, <1>3, <1>4 DEF TypeInv, TypeOK

(* The lock's types do not depend on who uses it.                          *)
LEMMA LockTypeStep == LockTypeOK /\ [Next]_vars => LockTypeOK'
<1> SUFFICES ASSUME LockTypeOK, [Next]_vars PROVE LockTypeOK'
  OBVIOUS
<1> USE LockAssumption DEF LockTypeOK
<1>1. LockSteps
  BY LockStepsOnly
<1>2. CASE LockInit'
  BY <1>2 DEF LockInit
<1>3. CASE UNCHANGED lockVars
  BY <1>3 DEF lockVars
<1>4. CASE LockNext
  <2>1. PICK s \in Session :
          \/ TimerFires(s)
          \/ \E ok \in BlockResults :
               Lock(s, ok) \/ Unlock(s, ok) \/ Release(s, ok) \/ TimerCallback(s, ok)
    BY <1>4 DEF LockNext
  <2>2. CASE TimerFires(s)
    BY <2>2 DEF TimerFires
  <2>3. ASSUME NEW ok \in BlockResults, Lock(s, ok) PROVE LockTypeOK'
    BY <2>3, <1>3 DEF Lock, BlockInput, OwnerAfter, ResetTimer
  <2>4. ASSUME NEW ok \in BlockResults, Unlock(s, ok) PROVE LockTypeOK'
    BY <2>4, <1>3 DEF Unlock, BlockInput
  <2>5. ASSUME NEW ok \in BlockResults, Release(s, ok) PROVE LockTypeOK'
    BY <2>5 DEF Release, GiveUp, BlockInput
  <2>6. ASSUME NEW ok \in BlockResults, TimerCallback(s, ok) PROVE LockTypeOK'
    BY <2>6 DEF TimerCallback, GiveUp, BlockInput
  <2> QED BY <2>1, <2>2, <2>3, <2>4, <2>5, <2>6
<1> QED BY <1>1, <1>2, <1>3, <1>4 DEF LockSteps

\* The types of everything but the lock.
SessionInv == RelayTypeOK /\ CompanionTypeOK /\ DashTypeOK /\ RetryOnce

LEMMA SessionInvStep == SessionInv /\ [Next]_vars => SessionInv'
<1> SUFFICES ASSUME SessionInv, [Next]_vars PROVE SessionInv'
  OBVIOUS
<1> USE LiveAssumption DEF SessionInv, RelayTypeOK, CompanionTypeOK, DashTypeOK, RetryOnce,
      RelayState, LoopState, ReaderState, ConnState, DashState, Message, Command,
      relayVars, companionVars, dashVars
<1>1. ASSUME NEW s \in Session, StartSession(s) PROVE SessionInv'
  BY <1>1 DEF StartSession
<1>2. ASSUME NEW s \in Session, StopSession(s) PROVE SessionInv'
  BY <1>2 DEF StopSession, CancelPendingUnlock
<1>3. ASSUME NEW s \in Session, ConnectDashboard(s) PROVE SessionInv'
  <2>1. CASE relay[s] = "registered"
    <3>1. dashboardWs' = [dashboardWs EXCEPT ![s] = attempt[s]]
      BY <1>3, <2>1 DEF ConnectDashboard
    <3>2. dash' = [dash EXCEPT ![s] = "open"]
      BY <1>3, <2>1 DEF ConnectDashboard
    <3>3. pendingUnlock' = pendingUnlock \ {s}
      BY <1>3, <2>1 DEF ConnectDashboard, CancelPendingUnlock
    <3>4. dash[s] = "connecting"
      BY <1>3 DEF ConnectDashboard
    <3>5. UNCHANGED <<relay, companionWs, commands, companionVars, toCompanion, attempt,
                      toServer, inputLocked, toggles, faults>>
      BY <1>3 DEF ConnectDashboard
    <3> QED BY <3>1, <3>2, <3>3, <3>4, <3>5
  <2>2. CASE relay[s] # "registered"
    <3>1. dash' = [dash EXCEPT ![s] = IF attempt[s] = 1 THEN "retrying" ELSE "error"]
      BY <1>3, <2>2 DEF ConnectDashboard, AfterClose
    <3>2. UNCHANGED <<relayVars, commands, companionVars, toCompanion, attempt, toServer,
                      inputLocked, toggles, faults>>
      BY <1>3, <2>2 DEF ConnectDashboard
    <3> QED BY <3>1, <3>2
  <2> QED BY <2>1, <2>2
<1>4. ASSUME NEW s \in Session, NEW k \in 1..2, ReceiveFromDashboard(s, k) PROVE SessionInv'
  <2>1. toServer[s][k] \in Seq(Message \cup {"close"}) /\ toServer[s][k] # <<>>
    BY <1>4 DEF ReceiveFromDashboard
  <2>2. /\ Head(toServer[s][k]) \in Message \cup {"close"}
        /\ Tail(toServer[s][k]) \in Seq(Message \cup {"close"})
    BY <2>1, HeadTailProperties
  <2>3. toServer' \in [Session -> [1..2 -> Seq(Message \cup {"close"})]]
    BY <1>4, <2>2 DEF ReceiveFromDashboard
  <2>4. /\ dashboardWs' \in [Session -> 0..2]
        /\ pendingUnlock' \subseteq Session
        /\ toCompanion' \in [Session -> Seq(Message)]
    <3>1. CASE ~IsCurrentSocket(s, k)
      BY <1>4, <3>1 DEF ReceiveFromDashboard, IsCurrentSocket
    <3>2. CASE IsCurrentSocket(s, k) /\ Head(toServer[s][k]) = "close"
      <4>1. /\ dashboardWs'   = [dashboardWs EXCEPT ![s] = 0]
            /\ pendingUnlock' = pendingUnlock \cup {s}
            /\ toCompanion'   = toCompanion
        BY <1>4, <3>2 DEF ReceiveFromDashboard, ScheduleUnlock
      <4> QED BY <4>1
    <3>3. CASE IsCurrentSocket(s, k) /\ Head(toServer[s][k]) # "close"
      <4>1. Route(s, Head(toServer[s][k])) /\ UNCHANGED <<dashboardWs, pendingUnlock>>
        BY <1>4, <3>3 DEF ReceiveFromDashboard
      <4>2. Head(toServer[s][k]) \in Message
        BY <2>2, <3>3
      <4>3. Append(toCompanion[s], Head(toServer[s][k])) \in Seq(Message)
        BY <4>2
      <4>4. toCompanion' \in [Session -> Seq(Message)]
        BY <4>1, <4>3 DEF Route
      <4> QED BY <4>1, <4>4
    <3> QED BY <3>1, <3>2, <3>3
  <2>5. UNCHANGED <<relay, companionWs, commands, companionVars, dashVars, faults>>
    BY <1>4 DEF ReceiveFromDashboard
  <2> QED BY <2>3, <2>4, <2>5
<1>5. ASSUME NEW s \in Session, GraceExpires(s) PROVE SessionInv'
  BY <1>5 DEF GraceExpires, Route
<1>6. ASSUME NEW s \in Session, CompanionClosed(s) PROVE SessionInv'
  BY <1>6 DEF CompanionClosed
<1>7. CASE DeliverCommand
  <2>1. Head(commands) \in Command /\ Tail(commands) \in Seq(Command)
    BY <1>7, HeadTailProperties DEF DeliverCommand
  <2>2. Head(commands).session \in Session
    BY <2>1
  <2>3. /\ liveSessions' \subseteq Session
        /\ stopCh' \subseteq Session
        /\ loop' \in [Session -> LoopState]
    BY <1>7, <2>2 DEF DeliverCommand
  <2>4. \A s \in Session : UNCHANGED <<dash, attempt>>
    BY <1>7 DEF DeliverCommand
  <2> QED BY <1>7, <2>1, <2>3, <2>4 DEF DeliverCommand
<1>8. ASSUME NEW s \in Session, Dial(s) PROVE SessionInv'
  BY <1>8 DEF Dial
<1>9. ASSUME NEW s \in Session, HandleInput(s) PROVE SessionInv'
  BY <1>9 DEF HandleInput
<1>10. ASSUME NEW s \in Session, ReaderEnds(s) PROVE SessionInv'
  BY <1>10 DEF ReaderEnds
<1>11. ASSUME NEW s \in Session, SeeStop(s) PROVE SessionInv'
  BY <1>11 DEF SeeStop, CloseConn
<1>12. ASSUME NEW s \in Session, WriteFails(s) PROVE SessionInv'
  BY <1>12 DEF WriteFails
<1>13. ASSUME NEW s \in Session, EndLoop(s) PROVE SessionInv'
  BY <1>13 DEF EndLoop
<1>14. ASSUME NEW s \in Session, FailsafeFires(s) \/ FailsafeReleases(s) PROVE SessionInv'
  BY <1>14 DEF FailsafeFires, FailsafeReleases, liveVars
<1>15. CASE RelaunchCompanion
  BY <1>15 DEF RelaunchCompanion
<1>16. ASSUME NEW s \in Session, Reconnect(s) PROVE SessionInv'
  BY <1>16 DEF Reconnect
<1>17. ASSUME NEW s \in Session, ToggleInputLock(s) PROVE SessionInv'
  <2>1. attempt[s] \in 1..2
    BY <1>17 DEF ToggleInputLock
  <2>2. DEFINE msg == IF inputLocked[s] THEN "unlock" ELSE "lock"
  <2>3. Append(toServer[s][attempt[s]], msg) \in Seq(Message \cup {"close"})
    BY <2>1
  <2>4. toServer' = [toServer EXCEPT ![s][attempt[s]] = Append(@, msg)]
    BY <1>17 DEF ToggleInputLock
  <2>5. toServer' \in [Session -> [1..2 -> Seq(Message \cup {"close"})]]
    BY <2>1, <2>3, <2>4
  <2>6. inputLocked' \in [Session -> BOOLEAN]
    BY <1>17 DEF ToggleInputLock
  <2>7. toggles' \in [Session -> Nat]
    BY <1>17 DEF ToggleInputLock
  <2>8. UNCHANGED <<relayVars, commands, companionVars, toCompanion, dash, attempt, faults>>
    BY <1>17 DEF ToggleInputLock
  <2> QED BY <2>5, <2>6, <2>7, <2>8
<1>18. ASSUME NEW s \in Session, CloseWindow(s) PROVE SessionInv'
  BY <1>18 DEF CloseWindow
<1>19. ASSUME NEW s \in Session, DashboardDisconnects(s) PROVE SessionInv'
  <2>1. dash' = [dash EXCEPT ![s] = IF attempt[s] = 1 THEN "retrying" ELSE "error"]
    BY <1>19 DEF DashboardDisconnects, AfterClose
  <2>2. faults' \in Nat
    BY <1>19 DEF DashboardDisconnects, Fault
  <2>3. toServer' \in [Session -> [1..2 -> Seq(Message \cup {"close"})]]
    <3>1. CASE dash[s] = "open"
      <4>1. PICK n \in 0..Len(toServer[s][attempt[s]]) :
              toServer' = [toServer EXCEPT ![s][attempt[s]] =
                              Append(SubSeq(@, 1, n), "close")]
        BY <1>19, <3>1 DEF DashboardDisconnects
      <4>2. attempt[s] \in 1..2 /\ toServer[s][attempt[s]] \in Seq(Message \cup {"close"})
        BY <3>1
      <4>3. \A i \in 1..n : toServer[s][attempt[s]][i] \in Message \cup {"close"}
        BY <4>1, <4>2
      <4>4. SubSeq(toServer[s][attempt[s]], 1, n) \in Seq(Message \cup {"close"})
        BY <4>1, <4>3, SubSeqProperties
      <4>5. Append(SubSeq(toServer[s][attempt[s]], 1, n), "close")
              \in Seq(Message \cup {"close"})
        BY <4>4
      <4> QED BY <4>1, <4>2, <4>5
    <3>2. CASE dash[s] # "open"
      BY <1>19, <3>2 DEF DashboardDisconnects
    <3> QED BY <3>1, <3>2
  <2>4. UNCHANGED <<relayVars, commands, companionVars, toCompanion, attempt, inputLocked,
                    toggles>>
    BY <1>19 DEF DashboardDisconnects
  <2> QED BY <2>1, <2>2, <2>3, <2>4
<1>20. ASSUME NEW s \in Session, CompanionDisconnects(s) PROVE SessionInv'
  BY <1>20 DEF CompanionDisconnects, Fault
<1>21. ASSUME NEW s \in Session, DialFails(s) PROVE SessionInv'
  BY <1>21 DEF DialFails, Fault
<1>22. CASE ServerRestart
  BY <1>22 DEF ServerRestart, Fault, AfterClose
<1>23. CASE CompanionCrash
  <2>1. /\ loop' \in [Session -> LoopState]
        /\ reader' \in [Session -> ReaderState]
        /\ conn' \in [Session -> ConnState]
        /\ toCompanion' \in [Session -> Seq(Message)]
    BY <1>23 DEF CompanionCrash
  <2>2. companionUp' = FALSE /\ liveSessions' = {}
    BY <1>23 DEF CompanionCrash
  <2>4. faults' = faults + 1
    BY <1>23 DEF CompanionCrash, Fault
  <2>3. UNCHANGED <<relayVars, commands, stopCh, dashVars, toServer>>
    BY <1>23 DEF CompanionCrash
  <2>5. RelayTypeOK' /\ DashTypeOK'
    BY <2>3, <2>4
  <2>6. CompanionTypeOK'
    BY <2>1, <2>2, <2>3
  <2>7. RetryOnce'
    BY <2>3
  <2> QED BY <2>5, <2>6, <2>7
<1>24. CASE LoseCommand
  BY <1>24 DEF LoseCommand, Fault
<1>25. CASE UNCHANGED vars
  BY <1>25 DEF vars, liveVars
<1> HIDE DEF SessionInv
<1> QED
  BY <1>1, <1>2, <1>3, <1>4, <1>5, <1>6, <1>7, <1>8, <1>9, <1>10, <1>11, <1>12, <1>13,
     <1>14, <1>15, <1>16, <1>17, <1>18, <1>19, <1>20, <1>21, <1>22, <1>23, <1>24, <1>25
  DEF Next, RelayStep, CompanionStep, DashboardStep, FaultStep

(* Every variable of the system keeps its type.                            *)
THEOREM TypeCorrect == Spec => []TypeOK
<1>1. LockTypeOK /\ SessionInv /\ [Next]_vars => (LockTypeOK /\ SessionInv)'
  BY LockTypeStep, SessionInvStep
<1>2. Init => LockTypeOK /\ SessionInv
  BY TypeInvInit DEF TypeInv, TypeOK, SessionInv
<1>3. LockTypeOK /\ SessionInv => TypeOK
  BY DEF TypeOK, SessionInv
<1> QED BY <1>1, <1>2, <1>3, PTL DEF Spec

-----------------------------------------------------------------------------
(* The start command of a session is issued once, and not yet delivered    *)
(* while it is in the queue: no second loop runs under the same session.   *)
StartOnce ==
    /\ \A i \in 1..Len(commands) : commands[i].type = "start" =>
          /\ loop[commands[i].session] = "none"
          /\ relay[commands[i].session] # "none"
    /\ \A i, j \in 1..Len(commands) :
          commands[i].type = "start" /\ commands[j] = commands[i] => i = j
    /\ \A s \in Session : relay[s] = "none" => loop[s] = "none"

Types == LockTypeOK /\ SessionInv

LEMMA StartOnceStep == Types /\ StartOnce /\ [Next]_vars => StartOnce'
<1> SUFFICES ASSUME Types, StartOnce, [Next]_vars PROVE StartOnce'
  OBVIOUS
<1>0. /\ commands \in Seq(Command) /\ relay \in [Session -> RelayState]
      /\ loop \in [Session -> LoopState]
  BY DEF Types, SessionInv, RelayTypeOK, CompanionTypeOK
<1>a. Len(commands) \in Nat /\ \A i \in 1..Len(commands) : commands[i] \in Command
  BY <1>0, LenProperties, ElementOfSeq
<1>b. \A i \in 1..Len(commands) : commands[i].session \in Session
  BY <1>a DEF Command
<1>1. ASSUME UNCHANGED commands,
             \A s \in Session : loop[s] = "none" => loop'[s] = "none",
             \A s \in Session : relay[s] # "none" => relay'[s] # "none"
      PROVE  StartOnce'
  BY <1>b, <1>1 DEF StartOnce
<1>2. ASSUME commands # <<>>, commands' = Tail(commands), UNCHANGED <<loop, relay>>
      PROVE  StartOnce'
  BY <1>0, <1>2 DEF StartOnce
<1>3. ASSUME NEW s \in Session, StartSession(s) PROVE StartOnce'
  <2> DEFINE c == [type |-> "start", session |-> s]
  <2>1. /\ relay[s] = "none" /\ relay' = [relay EXCEPT ![s] = "registered"]
        /\ commands' = Append(commands, c) /\ loop' = loop
    BY <1>3 DEF StartSession, companionVars
  <2>2. c \in Command
    BY DEF Command
  <2>3. /\ Len(commands') = Len(commands) + 1
        /\ \A i \in 1..Len(commands) : commands'[i] = commands[i]
        /\ commands'[Len(commands) + 1] = c
    BY <1>0, <2>1, <2>2
  <2>4. \A i \in 1..Len(commands) : commands[i].type = "start" => commands[i].session # s
    BY <2>1 DEF StartOnce
  <2>5. \A i \in 1..Len(commands') :
          i \in 1..Len(commands) \/ (i = Len(commands) + 1 /\ commands'[i] = c)
    BY <1>a, <2>3
  <2>6. c.type = "start" /\ c.session = s
    OBVIOUS
  <2>7. relay'[s] = "registered" /\ \A t \in Session \ {s} : relay'[t] = relay[t]
    BY <1>0, <2>1
  <2>8. loop'[s] = "none"
    BY <2>1 DEF StartOnce
  <2>9. ASSUME NEW i \in 1..Len(commands'), commands'[i].type = "start"
        PROVE  loop'[commands'[i].session] = "none" /\ relay'[commands'[i].session] # "none"
    BY <1>b, <2>1, <2>3, <2>4, <2>5, <2>6, <2>7, <2>8, <2>9 DEF StartOnce
  <2>10. ASSUME NEW i \in 1..Len(commands'), NEW j \in 1..Len(commands'),
                commands'[i].type = "start", commands'[j] = commands'[i]
         PROVE  i = j
    BY <1>a, <2>3, <2>4, <2>5, <2>6, <2>10 DEF StartOnce
  <2>11. \A t \in Session : relay'[t] = "none" => loop'[t] = "none"
    BY <2>1, <2>7 DEF StartOnce
  <2> QED BY <2>9, <2>10, <2>11 DEF StartOnce
<1>4. ASSUME NEW s \in Session, StopSession(s) PROVE StartOnce'
  <2> DEFINE c == [type |-> "stop", session |-> s]
  <2>1. /\ relay' = [relay EXCEPT ![s] = "gone"]
        /\ commands' = Append(commands, c) /\ loop' = loop
    BY <1>4 DEF StopSession, companionVars
  <2>2. c \in Command
    BY DEF Command
  <2>3. /\ Len(commands') = Len(commands) + 1
        /\ \A i \in 1..Len(commands) : commands'[i] = commands[i]
        /\ commands'[Len(commands) + 1] = c
    BY <1>0, <2>1, <2>2
  <2> QED BY <1>0, <2>1, <2>3 DEF StartOnce, Command
<1>5. CASE DeliverCommand
  <2> DEFINE s == Head(commands).session
  <2>1. commands # <<>> /\ commands' = Tail(commands) /\ UNCHANGED relay
    BY <1>5 DEF DeliverCommand, relayVars
  <2>2. commands[1] = Head(commands) /\ s \in Session
    BY <1>0, <1>a, <1>b, <2>1
  <2>3. loop' = loop \/ (Head(commands).type = "start"
                         /\ loop' = [loop EXCEPT ![s] = "dialing"])
    BY <1>5 DEF DeliverCommand
  <2>4. CASE loop' = loop
    BY <1>2, <2>1, <2>4
  <2>5. CASE Head(commands).type = "start" /\ loop' = [loop EXCEPT ![s] = "dialing"]
    <3>1. \A i \in 2..Len(commands) : commands[i].type = "start" => commands[i].session # s
      <4> SUFFICES ASSUME NEW i \in 2..Len(commands), commands[i].type = "start",
                          commands[i].session = s
                   PROVE  FALSE
        OBVIOUS
      <4>1. commands[i] \in Command /\ commands[1] \in Command
        BY <1>0, <2>1
      <4>2. commands[i] = commands[1]
        BY <2>2, <2>5, <4>1 DEF Command
      <4> QED BY <1>0, <2>1, <2>2, <2>5, <4>2 DEF StartOnce
    <3>2. /\ Len(commands') = Len(commands) - 1
          /\ \A i \in 1..Len(commands') : commands'[i] = commands[i + 1]
      BY <1>0, <2>1
    <3>3. Len(commands) \in Nat
      BY <1>0
    <3>4. \A i \in 1..Len(commands') : i + 1 \in 2..Len(commands)
      BY <3>2, <3>3
    <3> QED BY <1>0, <1>b, <2>1, <2>5, <3>1, <3>2, <3>3, <3>4 DEF StartOnce
  <2> QED BY <2>3, <2>4, <2>5
<1>6. CASE LoseCommand
  BY <1>2, <1>6 DEF LoseCommand, relayVars, companionVars
<1>7. ASSUME NEW s \in Session,
             \/ ConnectDashboard(s) \/ (\E k \in 1..2 : ReceiveFromDashboard(s, k))
             \/ GraceExpires(s) \/ CompanionClosed(s) \/ CompanionStep(s)
             \/ DashboardStep(s) \/ DashboardDisconnects(s) \/ CompanionDisconnects(s)
             \/ DialFails(s)
      PROVE  StartOnce'
  BY <1>0, <1>1, <1>7
  DEF ConnectDashboard, ReceiveFromDashboard, GraceExpires, CompanionClosed, CompanionStep,
      Dial, HandleInput, ReaderEnds, SeeStop, WriteFails, EndLoop, MayRelease, FailsafeFires,
      FailsafeReleases, DashboardStep, Reconnect, ToggleInputLock, CloseWindow,
      DashboardDisconnects, CompanionDisconnects, DialFails, relayVars, companionVars, liveVars
<1>8. CASE RelaunchCompanion \/ ServerRestart \/ CompanionCrash
  BY <1>0, <1>1, <1>8 DEF RelaunchCompanion, ServerRestart, CompanionCrash, relayVars,
     companionVars
<1>9. CASE UNCHANGED vars
  BY <1>0, <1>1, <1>9 DEF vars, liveVars
<1> QED
  BY <1>3, <1>4, <1>5, <1>6, <1>7, <1>8, <1>9 DEF Next, RelayStep, FaultStep

-----------------------------------------------------------------------------
(* Who owns the lock after a step: as before, nobody, or the session whose *)
(* message was just read.                                                  *)
LEMMA OwnerStep ==
    ASSUME Types, [Next]_vars
    PROVE  \/ lockedBy' \in {lockedBy, NoSession}
           \/ \E s \in Session : HandleInput(s) /\ lockedBy' = s
<1> DEFINE Same == lockedBy' \in {lockedBy, NoSession}
<1>1. CASE UNCHANGED lockVars
  BY <1>1 DEF lockVars
<1>2. ASSUME NEW s \in Session, HandleInput(s) PROVE lockedBy' \in {lockedBy, NoSession, s}
  <2>1. PICK ok \in BlockResults : UNCHANGED lockVars \/ Lock(s, ok) \/ Unlock(s, ok)
    BY <1>2 DEF HandleInput, Apply
  <2> QED BY <2>1, <1>1 DEF Lock, Unlock, OwnerAfter, lockVars
<1>3. ASSUME NEW s \in Session, EndLoop(s) PROVE Same
  BY <1>3 DEF EndLoop, ReleaseAtEnd, Release, GiveUp
<1>4. ASSUME NEW s \in Session, FailsafeFires(s) \/ FailsafeReleases(s) PROVE Same
  BY <1>4 DEF FailsafeFires, FailsafeReleases, TimerFires, TimerCallback, GiveUp
<1>5. CASE CompanionCrash
  BY <1>5 DEF CompanionCrash
<1>6. ASSUME NEW s \in Session,
             \/ RelayStep(s) \/ DashboardStep(s)
             \/ Dial(s) \/ ReaderEnds(s) \/ SeeStop(s) \/ WriteFails(s)
             \/ DashboardDisconnects(s) \/ CompanionDisconnects(s) \/ DialFails(s)
      PROVE  UNCHANGED lockVars
  BY <1>6
  DEF RelayStep, StartSession, StopSession, ConnectDashboard, ReceiveFromDashboard,
      GraceExpires, CompanionClosed, DashboardStep, Reconnect, ToggleInputLock, CloseWindow,
      Dial, ReaderEnds, SeeStop, WriteFails, DashboardDisconnects, CompanionDisconnects,
      DialFails
<1>7. CASE DeliverCommand \/ RelaunchCompanion \/ ServerRestart \/ LoseCommand
  BY <1>1, <1>7 DEF DeliverCommand, RelaunchCompanion, ServerRestart, LoseCommand
<1>8. CASE UNCHANGED vars
  BY <1>1, <1>8 DEF vars
<1> QED
  BY <1>1, <1>2, <1>3, <1>4, <1>5, <1>6, <1>7, <1>8 DEF Next, CompanionStep, FaultStep

(* The loop and the reader of a session, step by step.                     *)
LoopInv == StartOnce /\ ReaderHasLoop

LEMMA LoopStep ==
    ASSUME Types, LoopInv, [Next]_vars
    PROVE  /\ ReaderHasLoop'
           /\ \A s \in Session : loop[s] \in {"streaming", "closing"} =>
                 \/ loop'[s] \in {"streaming", "closing"}
                 \/ EndLoop(s)
                 \/ CompanionCrash
<1> DEFINE Stays == \A s \in Session : loop[s] \in {"streaming", "closing"} =>
                       loop'[s] \in {"streaming", "closing"} \/ EndLoop(s) \/ CompanionCrash
<1>0. loop \in [Session -> LoopState] /\ reader \in [Session -> ReaderState]
  BY DEF Types, SessionInv, CompanionTypeOK
<1> USE DEF LoopInv, ReaderHasLoop
<1>1. ASSUME UNCHANGED <<loop, reader>> PROVE ReaderHasLoop' /\ Stays
  BY <1>1
<1>2. CASE DeliverCommand
  <2> DEFINE s == Head(commands).session
  <2>1. loop' = loop \/ (Head(commands).type = "start"
                         /\ loop' = [loop EXCEPT ![s] = "dialing"])
    BY <1>2 DEF DeliverCommand
  <2>2. reader' = reader
    BY <1>2 DEF DeliverCommand
  <2>3. commands # <<>> /\ commands \in Seq(Command)
    BY <1>2 DEF DeliverCommand, Types, SessionInv, RelayTypeOK
  <2>4. Head(commands).type = "start" => loop[s] = "none"
    BY <2>3 DEF StartOnce
  <2> QED BY <1>0, <1>1, <2>1, <2>2, <2>4
<1>3. ASSUME NEW s \in Session, Dial(s) PROVE ReaderHasLoop' /\ Stays
  BY <1>0, <1>3 DEF Dial
<1>4. ASSUME NEW s \in Session, SeeStop(s) \/ WriteFails(s) PROVE ReaderHasLoop' /\ Stays
  BY <1>0, <1>4 DEF SeeStop, WriteFails
<1>5. ASSUME NEW s \in Session, ReaderEnds(s) PROVE ReaderHasLoop' /\ Stays
  BY <1>0, <1>5 DEF ReaderEnds
<1>6. ASSUME NEW s \in Session, EndLoop(s) PROVE ReaderHasLoop' /\ Stays
  <2>1. reader[s] = "done" /\ loop' = [loop EXCEPT ![s] = "ended"] /\ reader' = reader
    BY <1>6 DEF EndLoop, MayRelease
  <2> QED BY <1>0, <1>6, <2>1
<1>7. ASSUME NEW s \in Session, DialFails(s) PROVE ReaderHasLoop' /\ Stays
  BY <1>0, <1>7 DEF DialFails
<1>8. CASE CompanionCrash
  BY <1>0, <1>8 DEF CompanionCrash
<1>9. ASSUME NEW s \in Session,
             \/ RelayStep(s) \/ DashboardStep(s) \/ HandleInput(s) \/ FailsafeFires(s)
             \/ FailsafeReleases(s) \/ DashboardDisconnects(s) \/ CompanionDisconnects(s)
      PROVE  UNCHANGED <<loop, reader>>
  BY <1>9
  DEF RelayStep, StartSession, StopSession, ConnectDashboard, ReceiveFromDashboard,
      GraceExpires, CompanionClosed, DashboardStep, Reconnect, ToggleInputLock, CloseWindow,
      HandleInput, FailsafeFires, FailsafeReleases, DashboardDisconnects,
      CompanionDisconnects, companionVars, liveVars
<1>10. CASE RelaunchCompanion \/ ServerRestart \/ LoseCommand
  BY <1>1, <1>10 DEF RelaunchCompanion, ServerRestart, LoseCommand, companionVars
<1>11. CASE UNCHANGED vars
  BY <1>1, <1>11 DEF vars, liveVars
<1> HIDE DEF ReaderHasLoop, LoopInv
<1> QED
  BY <1>1, <1>2, <1>3, <1>4, <1>5, <1>6, <1>7, <1>8, <1>9, <1>10, <1>11
  DEF Next, CompanionStep, FaultStep

(* The session that owns the input lock is one whose loop is still running *)
(* or releasing: no message read in the last moment takes the lock after   *)
(* the final release.  (The order of the defers of runLiveSessionLoop.)    *)
THEOREM OwnerIsRunning == Spec => []LockOwnerIsRunning
<1> DEFINE Inv == Types /\ LoopInv /\ LockOwnerIsRunning
<1>1. Init => Inv
  <2> SUFFICES ASSUME Init PROVE Inv
    OBVIOUS
  <2>1. Types
    BY TypeInvInit DEF TypeInv, TypeOK, SessionInv, Types
  <2>2. StartOnce /\ ReaderHasLoop /\ LockOwnerIsRunning
    BY DEF Init, LockInit, StartOnce, ReaderHasLoop, LockOwnerIsRunning
  <2> QED BY <2>1, <2>2 DEF LoopInv
<1>2. Inv /\ [Next]_vars => Inv'
  <2> SUFFICES ASSUME Inv, [Next]_vars PROVE Inv'
    OBVIOUS
  <2>1. Types'
    BY LockTypeStep, SessionInvStep DEF Types
  <2>2. LoopInv'
    BY LoopStep, StartOnceStep DEF LoopInv
  <2>3. LockOwnerIsRunning'
    <3> SUFFICES ASSUME lockedBy' # NoSession
                 PROVE  loop'[lockedBy'] \in {"streaming", "closing"}
      BY DEF LockOwnerIsRunning
    <3>1. lockedBy' \in Session
      BY <2>1 DEF Types, LockTypeOK
    <3>2. loop[lockedBy'] \in {"streaming", "closing"}
      <4>1. CASE lockedBy' = lockedBy
        BY <4>1 DEF LockOwnerIsRunning
      <4>2. ASSUME NEW s \in Session, HandleInput(s), lockedBy' = s
            PROVE  loop[lockedBy'] \in {"streaming", "closing"}
        BY <4>2 DEF HandleInput, LoopInv, ReaderHasLoop
      <4> QED BY <4>1, <4>2, OwnerStep
    <3>3. ASSUME EndLoop(lockedBy') PROVE FALSE
      <4>1. PICK ok \in BlockResults : Release(lockedBy', ok)
        BY <3>3 DEF EndLoop, ReleaseAtEnd
      <4> QED BY <4>1, <3>1, LockAssumption DEF Release, GiveUp
    <3>4. ASSUME CompanionCrash PROVE FALSE
      BY <3>4 DEF CompanionCrash
    <3> QED BY <3>1, <3>2, <3>3, <3>4, LoopStep
  <2> QED BY <2>1, <2>2, <2>3
<1>3. Inv => LockOwnerIsRunning
  OBVIOUS
<1> QED BY <1>1, <1>2, <1>3, PTL DEF Spec

-----------------------------------------------------------------------------
(* In shadow mode nothing reaches the companion, whatever the dashboard    *)
(* sends and whenever the grace timer fires; and the grace timer runs only *)
(* while a registered session has no dashboard.  (routeMessage,            *)
(* isCurrentSocket, cancelPendingUnlock.)                                  *)
THEOREM RelayIsSafe == Spec => [](ShadowIsOneWay /\ GraceOnlyWithoutDashboard)
<1> DEFINE Inv == Types /\ ShadowIsOneWay /\ GraceOnlyWithoutDashboard
<1>1. Init => Inv
  <2> SUFFICES ASSUME Init PROVE Inv
    OBVIOUS
  <2>1. Types
    BY TypeInvInit DEF TypeInv, TypeOK, SessionInv, Types
  <2>2. ShadowIsOneWay /\ GraceOnlyWithoutDashboard
    BY LiveAssumption DEF Init, ShadowIsOneWay, GraceOnlyWithoutDashboard
  <2> QED BY <2>1, <2>2
<1>2. Inv /\ [Next]_vars => Inv'
  <2> SUFFICES ASSUME Inv, [Next]_vars PROVE Inv'
    OBVIOUS
  <2>1. Types'
    BY LockTypeStep, SessionInvStep DEF Types
  <2>2. ShadowIsOneWay'
    <3>1. toCompanion \in [Session -> Seq(Message)]
      BY DEF Types, SessionInv, CompanionTypeOK
    <3>2. ASSUME UNCHANGED toCompanion PROVE ShadowIsOneWay'
      BY <3>2 DEF ShadowIsOneWay
    <3>3. ASSUME NEW s \in Session, NEW msg, Route(s, msg) PROVE ShadowIsOneWay'
      BY <3>1, <3>3, LiveAssumption DEF Route, MayRoute, ShadowIsOneWay
    <3>4. ASSUME NEW s \in Session, NEW k \in 1..2, ReceiveFromDashboard(s, k)
          PROVE  ShadowIsOneWay'
      BY <3>2, <3>3, <3>4 DEF ReceiveFromDashboard
    <3>5. ASSUME NEW s \in Session, GraceExpires(s) PROVE ShadowIsOneWay'
      BY <3>3, <3>5 DEF GraceExpires
    <3>6. ASSUME NEW s \in Session, HandleInput(s) PROVE ShadowIsOneWay'
      BY <3>1, <3>6, LiveAssumption DEF HandleInput, ShadowIsOneWay
    <3>7. ASSUME NEW s \in Session, ReaderEnds(s) PROVE ShadowIsOneWay'
      BY <3>1, <3>7, LiveAssumption DEF ReaderEnds, ShadowIsOneWay
    <3>8. CASE CompanionCrash
      BY <3>8, LiveAssumption DEF CompanionCrash, ShadowIsOneWay
    <3>9. ASSUME NEW s \in Session,
                 \/ StartSession(s) \/ StopSession(s) \/ ConnectDashboard(s)
                 \/ CompanionClosed(s) \/ Dial(s) \/ SeeStop(s) \/ WriteFails(s)
                 \/ EndLoop(s) \/ FailsafeFires(s) \/ FailsafeReleases(s)
                 \/ DashboardStep(s) \/ DashboardDisconnects(s)
                 \/ CompanionDisconnects(s) \/ DialFails(s)
          PROVE  UNCHANGED toCompanion
      BY <3>9
      DEF StartSession, StopSession, ConnectDashboard, CompanionClosed, Dial, SeeStop,
          WriteFails, EndLoop, FailsafeFires, FailsafeReleases, DashboardStep, Reconnect,
          ToggleInputLock, CloseWindow, DashboardDisconnects, CompanionDisconnects,
          DialFails, liveVars
    <3>10. CASE DeliverCommand \/ RelaunchCompanion \/ ServerRestart \/ LoseCommand
      BY <3>2, <3>10 DEF DeliverCommand, RelaunchCompanion, ServerRestart, LoseCommand
    <3>11. CASE UNCHANGED vars
      BY <3>2, <3>11 DEF vars, liveVars
    <3> QED
      BY <3>2, <3>4, <3>5, <3>6, <3>7, <3>8, <3>9, <3>10, <3>11
      DEF Next, RelayStep, CompanionStep, FaultStep
  <2>3. GraceOnlyWithoutDashboard'
    <3>1. /\ relay \in [Session -> RelayState] /\ dashboardWs \in [Session -> 0..2]
          /\ pendingUnlock \subseteq Session
      BY DEF Types, SessionInv, RelayTypeOK
    <3> USE DEF GraceOnlyWithoutDashboard
    <3>2. ASSUME UNCHANGED <<relay, dashboardWs, pendingUnlock>>
          PROVE  GraceOnlyWithoutDashboard'
      BY <3>2
    <3>3. ASSUME NEW s \in Session, StartSession(s) PROVE GraceOnlyWithoutDashboard'
      BY <3>1, <3>3 DEF StartSession
    <3>4. ASSUME NEW s \in Session, StopSession(s) PROVE GraceOnlyWithoutDashboard'
      BY <3>1, <3>4 DEF StopSession, CancelPendingUnlock
    <3>5. ASSUME NEW s \in Session, ConnectDashboard(s) PROVE GraceOnlyWithoutDashboard'
      <4>1. UNCHANGED relay
        BY <3>5 DEF ConnectDashboard
      <4>2. CASE relay[s] = "registered"
        <5>1. /\ dashboardWs' = [dashboardWs EXCEPT ![s] = attempt[s]]
              /\ pendingUnlock' = pendingUnlock \ {s}
          BY <3>5, <4>2 DEF ConnectDashboard, CancelPendingUnlock
        <5> QED BY <3>1, <4>1, <5>1
      <4>3. CASE relay[s] # "registered"
        BY <3>2, <3>5, <4>1, <4>3 DEF ConnectDashboard
      <4> QED BY <4>2, <4>3
    <3>6. ASSUME NEW s \in Session, NEW k \in 1..2, ReceiveFromDashboard(s, k)
          PROVE  GraceOnlyWithoutDashboard'
      <4>1. UNCHANGED relay
        BY <3>6 DEF ReceiveFromDashboard
      <4>2. \/ UNCHANGED <<dashboardWs, pendingUnlock>>
            \/ /\ relay[s] = "registered"
               /\ dashboardWs'   = [dashboardWs EXCEPT ![s] = 0]
               /\ pendingUnlock' = pendingUnlock \cup {s}
        BY <3>6 DEF ReceiveFromDashboard, IsCurrentSocket, ScheduleUnlock
      <4> QED BY <3>1, <4>1, <4>2
    <3>7. ASSUME NEW s \in Session, GraceExpires(s) PROVE GraceOnlyWithoutDashboard'
      BY <3>1, <3>7 DEF GraceExpires
    <3>8. CASE ServerRestart
      BY <3>8 DEF ServerRestart
    <3>9. ASSUME NEW s \in Session,
                 \/ CompanionClosed(s) \/ CompanionStep(s) \/ DashboardStep(s)
                 \/ DashboardDisconnects(s) \/ CompanionDisconnects(s) \/ DialFails(s)
          PROVE  UNCHANGED <<relay, dashboardWs, pendingUnlock>>
      BY <3>9
      DEF CompanionClosed, CompanionStep, Dial, HandleInput, ReaderEnds, SeeStop, WriteFails,
          EndLoop, FailsafeFires, FailsafeReleases, DashboardStep, Reconnect,
          ToggleInputLock, CloseWindow, DashboardDisconnects, CompanionDisconnects,
          DialFails, relayVars, liveVars
    <3>10. CASE DeliverCommand \/ RelaunchCompanion \/ CompanionCrash \/ LoseCommand
      BY <3>2, <3>10 DEF DeliverCommand, RelaunchCompanion, CompanionCrash, LoseCommand,
         relayVars
    <3>11. CASE UNCHANGED vars
      BY <3>2, <3>11 DEF vars, liveVars
    <3> HIDE DEF GraceOnlyWithoutDashboard
    <3> QED
      BY <3>2, <3>3, <3>4, <3>5, <3>6, <3>7, <3>8, <3>9, <3>10, <3>11
      DEF Next, RelayStep, FaultStep
  <2> QED BY <2>1, <2>2, <2>3
<1>3. Inv => ShadowIsOneWay /\ GraceOnlyWithoutDashboard
  OBVIOUS
<1> QED BY <1>1, <1>2, <1>3, PTL DEF Spec
=============================================================================
