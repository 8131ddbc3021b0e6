------------------------------ MODULE InputLock ------------------------------
(***************************************************************************)
(* The lock on the physical mouse and keyboard of a store machine          *)
(* (agent/input_windows.go): at most one live session owns it, whoever     *)
(* owns it has a failsafe timer armed, and BlockInput, the system call     *)
(* behind it, may fail.  The four variables are guarded by                 *)
(* localInputLockMu, so every operation below is one step.                 *)
(*                                                                         *)
(* A timer that has fired runs its callback in a goroutine of its own,     *)
(* which has to wait for the mutex: Stop can no longer take it back, and   *)
(* by the time it runs the lock may have been released and taken again.    *)
(***************************************************************************)
EXTENDS Naturals

CONSTANTS
    Session,         \* the live sessions of one machine
    NoSession,       \* localInputLockedBy = ""
    BlockResults     \* what BlockInput may return: {TRUE} or BOOLEAN

ASSUME LockAssumption ==
    /\ NoSession \notin Session
    /\ BlockResults \subseteq BOOLEAN
    /\ BlockResults # {}

VARIABLES
    lockedBy,        \* Session \cup {NoSession}: localInputLockedBy
    blocked,         \* BOOLEAN: Windows refuses physical input
    timer,           \* Session \cup {NoSession}: whose timer is armed
    expired          \* SUBSET Session: fired callbacks waiting for the mutex

lockVars == <<lockedBy, blocked, timer, expired>>

LockInit ==
    /\ lockedBy = NoSession
    /\ blocked  = FALSE
    /\ timer    = NoSession
    /\ expired  = {}

\* Mutants: a lock that Windows refused; an unlock that only forgets; an owner
\* kept when BlockInput fails, as in Unlock, but without its timer.
MutLockedAnyway(s, ok) == s
MutForgetsToUnblock(b, ok) == blocked' = (blocked \/ b)
MutReleaseKeepsOwner(s, ok) ==
    /\ lockedBy = s
    /\ blocked'  = IF ok THEN FALSE ELSE blocked
    /\ lockedBy' = IF ok THEN NoSession ELSE s
    /\ timer'    = NoSession

\* resetLocalInputLockTimerLocked: stop the old timer, arm one for s.
ResetTimer(s) == s

\* BlockInput(b) returns ok; when it fails nothing changes.
BlockInput(b, ok) == blocked' = IF ok THEN b ELSE blocked

\* The owner once BlockInput(TRUE) has returned ok to s.
OwnerAfter(s, ok) == IF ok THEN s ELSE lockedBy

\* setLocalInputLocked(s, true).  The owner's own repeat is a no-op and does not
\* extend its timer; any other session takes the lock over.
Lock(s, ok) ==
    \/ lockedBy = s /\ UNCHANGED lockVars
    \/ /\ lockedBy # s
       /\ BlockInput(TRUE, ok)
       /\ lockedBy' = OwnerAfter(s, ok)
       /\ timer'    = IF ok THEN ResetTimer(s) ELSE timer
       /\ UNCHANGED expired

\* setLocalInputLocked(s, false).  If BlockInput fails the lock is kept.
Unlock(s, ok) ==
    \/ (lockedBy # s \/ ~ok) /\ UNCHANGED lockVars
    \/ /\ lockedBy = s /\ ok
       /\ BlockInput(FALSE, ok)
       /\ lockedBy' = NoSession
       /\ timer'    = NoSession
       /\ UNCHANGED expired

\* The owner's part of releaseLocalInputLockForSession: the lock is given up
\* even if BlockInput fails.
GiveUp(s, ok) ==
    /\ lockedBy = s
    /\ BlockInput(FALSE, ok)
    /\ lockedBy' = NoSession
    /\ timer'    = NoSession

\* releaseLocalInputLockForSession, at the end of session s.
Release(s, ok) ==
    /\ GiveUp(s, ok) \/ (lockedBy # s /\ UNCHANGED <<lockedBy, blocked, timer>>)
    /\ UNCHANGED expired

\* localInputLockFailsafe passes.
TimerFires(s) ==
    /\ timer = s
    /\ timer'   = NoSession
    /\ expired' = expired \cup {s}
    /\ UNCHANGED <<lockedBy, blocked>>

\* The callback gets the mutex.
TimerCallback(s, ok) ==
    /\ s \in expired
    /\ expired' = expired \ {s}
    /\ GiveUp(s, ok) \/ (lockedBy # s /\ UNCHANGED <<lockedBy, blocked, timer>>)

-----------------------------------------------------------------------------
(* The lock by itself, used by any session at any time.                      *)
LockNext ==
    \E s \in Session :
        \/ TimerFires(s)
        \/ \E ok \in BlockResults :
             Lock(s, ok) \/ Unlock(s, ok) \/ Release(s, ok) \/ TimerCallback(s, ok)

LockSpec == LockInit /\ [][LockNext]_lockVars

LockTypeOK ==
    /\ lockedBy \in Session \cup {NoSession}
    /\ blocked  \in BOOLEAN
    /\ timer    \in Session \cup {NoSession}
    /\ expired  \subseteq Session

(* Whoever owns the lock has a failsafe under way: its timer is armed, or it  *)
(* has fired and its callback waits for the mutex.  Holds across takeovers,   *)
(* failing system calls and callbacks that come too late.                     *)
(* (setLocalInputLocked, resetLocalInputLockTimerLocked.)                     *)
OwnerHasFailsafe ==
    lockedBy # NoSession => timer = lockedBy \/ lockedBy \in expired

(* An owner means that physical input really is blocked: the code never       *)
(* believes in a lock Windows does not hold, whichever calls fail.            *)
OwnerMeansBlocked == lockedBy # NoSession => blocked

(* Without failures of BlockInput the converse holds as well: nobody is       *)
(* locked out by a lock that no session owns.                                 *)
BlockedMeansOwner == FALSE \notin BlockResults /\ blocked => lockedBy # NoSession
=============================================================================
