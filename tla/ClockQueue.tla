------------------------------ MODULE ClockQueue ------------------------------
(***************************************************************************)
(* How clock-proxy/server.js shares the browsers it drives the time clocks    *)
(* with: ClockQueue runs the operations on one clock one after the other, and *)
(* withPlaywrightSlot lets no more than MAX_PW_SLOTS of all of them have a    *)
(* browser at the same time.                                                *)
(*                                                                         *)
(* An operation is anonymous here (ClockRoster says what it does).  The       *)
(* waiter that a release resolves goes on as the next microtask, before any    *)
(* other operation is looked at: releasing a slot and handing it over are one  *)
(* step.                                                                    *)
(***************************************************************************)
EXTENDS Naturals, Sequences

CONSTANTS Clock,       \* CLOCK_IPS
          MaxSlots,    \* MAX_PW_SLOTS
          MaxPending   \* bound: operations queued on one clock

VARIABLES
  pending,  \* ClockQueue._pending: operations queued or running on a clock
  phase,    \* the operation at the head: none ("free"), "checking" the clock,
            \* "waiting" for a browser, "browsing"; or "cooling" after it
  slots,    \* _pwSlots
  waiters   \* _pwQueue: the clocks whose operation waits for a browser

vars == <<pending, phase, slots, waiters>>

Waiting  == {c \in Clock : phase[c] = "waiting"}

TypeOK ==
  /\ pending \in [Clock -> 0..MaxPending]
  /\ phase \in [Clock -> {"free", "checking", "waiting", "browsing", "cooling"}]
  /\ slots \in 0..MaxSlots
  /\ waiters \in Seq(Clock)

Init ==
  /\ pending = [c \in Clock |-> 0]
  /\ phase = [c \in Clock |-> "free"]
  /\ slots = MaxSlots
  /\ waiters = <<>>

(* run: the operation joins the tail of its clock.                            *)
Enqueue(c) ==
  /\ pending[c] < MaxPending
  /\ pending' = [pending EXCEPT ![c] = @ + 1]
  /\ UNCHANGED <<phase, slots, waiters>>

(* The tail has resolved and its cool-down is over: fn() of the next one.     *)
Begin(c) ==
  /\ phase[c] = "free" /\ pending[c] > 0
  /\ phase' = [phase EXCEPT ![c] = "checking"]
  /\ UNCHANGED <<pending, slots, waiters>>

(* withPlaywrightSlot with a browser to spare.                                *)
TakeSlot(c) ==
  /\ phase[c] = "checking" /\ slots > 0
  /\ slots' = slots - 1
  /\ phase' = [phase EXCEPT ![c] = "browsing"]
  /\ UNCHANGED <<pending, waiters>>

(* withPlaywrightSlot with none: in line.                                     *)
WaitForSlot(c) ==
  /\ phase[c] = "checking" /\ slots = 0
  /\ waiters' = Append(waiters, c)
  /\ phase' = [phase EXCEPT ![c] = "waiting"]
  /\ UNCHANGED <<pending, slots>>

(* The operation on c settles, with a result or an exception, and its clock   *)
(* gets INTER_JOB_COOLDOWN_MS of rest.                                        *)
Settle(c) ==
  pending' = [pending EXCEPT ![c] = @ - 1]

(* An enrolment found its clock offline: it never asked for a browser.        *)
Offline(c) ==
  /\ phase[c] = "checking"
  /\ Settle(c)
  /\ phase' = [phase EXCEPT ![c] = "cooling"]
  /\ UNCHANGED <<slots, waiters>>

(* The browser closes and nobody waits for it.                                *)
FreeSlot(c) ==
  /\ phase[c] = "browsing" /\ waiters = <<>>
  /\ Settle(c)
  /\ phase' = [phase EXCEPT ![c] = "cooling"]
  /\ slots' = slots + 1
  /\ UNCHANGED waiters

(* The browser closes and the first in line gets the slot.                    *)
MutWakesNobody(c) ==  \* mutation: the release does not look at _pwQueue
  /\ phase[c] = "browsing" /\ waiters # <<>>
  /\ Settle(c)
  /\ phase' = [phase EXCEPT ![c] = "cooling"]
  /\ slots' = slots + 1
  /\ UNCHANGED waiters

PassSlot(c) ==
  /\ phase[c] = "browsing" /\ waiters # <<>>
  /\ Settle(c)
  /\ phase' = [phase EXCEPT ![c] = "cooling", ![Head(waiters)] = "browsing"]
  /\ waiters' = Tail(waiters)
  /\ UNCHANGED slots

(* The cool-down is over.                                                     *)
Cooled(c) ==
  /\ phase[c] = "cooling"
  /\ phase' = [phase EXCEPT ![c] = "free"]
  /\ UNCHANGED <<pending, slots, waiters>>

Step(c) ==
  \/ Begin(c) \/ TakeSlot(c) \/ WaitForSlot(c)
  \/ FreeSlot(c) \/ PassSlot(c) \/ Cooled(c)

Next == \E c \in Clock : Enqueue(c) \/ Step(c) \/ Offline(c)

Spec == Init /\ [][Next]_vars

(* The event loop runs what is ready, and every wait of a Playwright session  *)
(* has a time limit, so that a browser closes in the end.                     *)
Fairness == \A c \in Clock : WF_vars(Step(c))

FairSpec == Spec /\ Fairness

-----------------------------------------------------------------------------

(* Whatever the other clocks do, an operation that was queued comes to its    *)
(* turn and settles: an earlier failure does not break the chain of its clock *)
(* and the line for browsers moves.                                           *)
QueueMoves == \A c \in Clock : pending[c] > 0 ~> phase[c] = "cooling"

=============================================================================
