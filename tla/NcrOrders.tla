------------------------------ MODULE NcrOrders ------------------------------
(***************************************************************************)
(* The NCR order monitor: every order mail of the mailbox becomes a row of  *)
(* ncr_monitor_emails, the server asks the back-office machine (BOH) of the  *)
(* store to look for the invoice (NFC-e) of the order, asks again after a    *)
(* pause while the answer is no, and mails the operator the verdict.         *)
(*                                                                         *)
(* tick() runs every two minutes.  Nothing keeps one tick from starting      *)
(* while an earlier one waits for a mail, so its three parts are actions of  *)
(* their own; each of them runs without an await up to its last database     *)
(* write.  A request is a command of the queue (module CommandQueue), which  *)
(* answers it at most once; here it is <<order, n>>, the n-th of its order.  *)
(* Time is kept as three facts that only time brings about: the pause of a   *)
(* row is over, the lead time of an order is over, a request is late.        *)
(***************************************************************************)
EXTENDS Integers, FiniteSets

CONSTANTS Order,        \* the order mails, by message_id
          Mapped,       \* those whose store resolves to a known machine
          MaxRequests,  \* bound on the requests sent for one order
          MaxFaults     \* bound on faults of mail, queue and server

ASSUME NcrAssumption == /\ Mapped \subseteq Order
                        /\ MaxRequests \in Nat
                        /\ MaxFaults \in Nat

VARIABLES
  row,        \* orders with a row in ncr_monitor_emails
  requests,   \* requests created for the order so far
  command,    \* command_id of the row: the number of its request, 0 for NULL
  open,       \* requests whose answer has not come, <<order, number>>
  late,       \* open requests older than ACK_TIMEOUT_MINUTES
  retries,    \* retry_count
  pausing,    \* orders whose next_retry_at lies ahead
  verdict,    \* danfe_found: "null", "found", "missing" (0), "unmapped" (-1)
  notified,   \* orders with notified_at
  sending,    \* result mails on their way, by order
  alerting,   \* orders whose store-unknown mail is on its way
  leadOver,   \* orders whose lead time has passed
  ripe,       \* history: requests created when the lead time had passed
  mails,      \* history: result mails delivered, by order
  reported,   \* history: orders an ACK time-out check has counted
  overlooked, \* history: orders with a late request that none had counted
  faults

rows     == <<row, command, retries, pausing, verdict, notified>>
queue    == <<requests, open, late, ripe>>
outgoing == <<sending, alerting>>
history  == <<mails, reported, overlooked>>
vars     == <<rows, queue, outgoing, history, leadOver, faults>>

Verdict == {"null", "found", "missing", "unmapped"}
Request == Order \X (1..MaxRequests)

TypeOK ==
  /\ row \subseteq Order
  /\ requests \in [Order -> 0..MaxRequests]
  /\ command \in [Order -> 0..MaxRequests]
  /\ open \subseteq Request /\ late \subseteq open /\ ripe \subseteq Request
  /\ retries \in [Order -> 0..4]
  /\ pausing \subseteq Order
  /\ verdict \in [Order -> Verdict]
  /\ notified \subseteq Order /\ alerting \subseteq Order /\ leadOver \subseteq Order
  /\ sending \in [Order -> Nat]
  /\ mails \in [Order -> Nat]
  /\ reported \subseteq Order /\ overlooked \subseteq Order
  /\ faults \in 0..MaxFaults

Init ==
  /\ row = {} /\ open = {} /\ late = {} /\ pausing = {} /\ notified = {}
  /\ alerting = {} /\ leadOver = {} /\ ripe = {} /\ reported = {}
  /\ overlooked = {}
  /\ requests = [o \in Order |-> 0]
  /\ command = [o \in Order |-> 0]
  /\ retries = [o \in Order |-> 0]
  /\ verdict = [o \in Order |-> "null"]
  /\ sending = [o \in Order |-> 0]
  /\ mails = [o \in Order |-> 0]
  /\ faults = 0

Fault == faults < MaxFaults /\ faults' = faults + 1

-----------------------------------------------------------------------------
(* dispatchNcrCheck for the orders of S: each gets a new request, and its    *)
(* row remembers that one only.                                              *)
NextRequest(o) == <<o, requests[o] + 1>>

Dispatch(S) ==
  /\ \A o \in S : requests[o] < MaxRequests
  /\ requests' = [o \in Order |-> IF o \in S THEN requests[o] + 1 ELSE requests[o]]
  /\ command' = [o \in Order |-> IF o \in S THEN requests[o] + 1 ELSE command[o]]
  /\ open' = open \cup {NextRequest(o) : o \in S}
  /\ ripe' = ripe \cup {NextRequest(o) : o \in S \cap leadOver}
  /\ UNCHANGED late

(* A tick finds the mail of an order that has no row (message_id is unique). *)
ProcessMapped(o) ==
  /\ o \in Mapped \ row
  /\ row' = row \cup {o}
  /\ Dispatch({o})
  /\ UNCHANGED <<retries, pausing, verdict, notified, outgoing, history, leadOver, faults>>

(* No machine for the store: the row is there, the mail about it is awaited. *)
ProcessUnmapped(o) ==
  /\ o \in Order \ (Mapped \cup row)
  /\ row' = row \cup {o}
  /\ alerting' = alerting \cup {o}
  /\ UNCHANGED <<command, retries, pausing, verdict, notified, queue, sending,
                 history, leadOver, faults>>

(* The finally of sendStoreUnresolvableAlert: sent or not, the row is closed. *)
UnmappedAlerted(o) ==
  /\ o \in alerting
  /\ alerting' = alerting \ {o}
  /\ verdict' = [verdict EXCEPT ![o] = "unmapped"]
  /\ notified' = notified \cup {o}
  /\ UNCHANGED <<row, command, retries, pausing, queue, sending, history, leadOver, faults>>

(* ncrGetPendingRetries *)
Due == {o \in row \cap Mapped : /\ verdict[o] = "null"
                                /\ retries[o] \in 1..4
                                /\ command[o] # 0
                                /\ o \notin pausing}

(* processRetries: every due row at once; next_retry_at is not touched, so a
   row stays due until the answer to its last request moves it. *)
ProcessRetries ==
  /\ Due # {}
  /\ Dispatch(Due)
  /\ UNCHANGED <<row, retries, pausing, verdict, notified, outgoing, history, leadOver, faults>>

(* ncrGetAckTimedOut: the request a row remembers is late. *)
TimedOut == {o \in row \cap Mapped : /\ verdict[o] = "null"
                                     /\ o \notin notified
                                     /\ <<o, command[o]>> \in late}

(* Orders that wait for an answer which is late. *)
Waiting == {o \in row : verdict[o] = "null" /\ \E r \in late : r[1] = o}

CheckAckTimeouts ==
  /\ late # {}
  /\ reported' = reported \cup TimedOut
  /\ overlooked' = overlooked \cup (Waiting \ reported')
  /\ UNCHANGED <<rows, queue, outgoing, mails, leadOver, faults>>

-----------------------------------------------------------------------------
(* Mutant: the row is found by its order, whatever request it remembers. *)
MutBelongsToOrder(r) == r[1] \notin notified

(* ncrGetByCommandId: the order a request belongs to, if its row still
   remembers that request, and if it has not been notified. *)
Belongs(r) == command[r[1]] = r[2] /\ r[1] \notin notified

(* Whether the pause of a row also covers the lead time: the later of both.  *)
PauseMayEnd(o) == o \in leadOver

Settle(o, v) ==
  /\ verdict' = [verdict EXCEPT ![o] = v]
  /\ sending' = [sending EXCEPT ![o] = @ + 1]
  /\ UNCHANGED <<retries, pausing>>

AskAgain(o) ==
  /\ retries' = [retries EXCEPT ![o] = @ + 1]
  /\ pausing' = pausing \cup {o}
  /\ UNCHANGED <<verdict, sending>>

(* The acknowledgement of a request arrives (postProcessNfceFind).  A failed
   command and an answer that does not parse count as "not found".           *)
Answered(r) == open' = open \ {r} /\ late' = late \ {r}

AnswerFound(r) ==
  /\ r \in open /\ Answered(r)
  /\ Belongs(r)
  /\ Settle(r[1], "found")
  /\ UNCHANGED <<row, command, notified, requests, ripe, alerting, history, leadOver, faults>>

AnswerNotFound(r) ==
  /\ r \in open /\ Answered(r)
  /\ Belongs(r)
  /\ IF retries[r[1]] < 4 THEN AskAgain(r[1]) ELSE Settle(r[1], "missing")
  /\ UNCHANGED <<row, command, notified, requests, ripe, alerting, history, leadOver, faults>>

AnswerIgnored(r) ==
  /\ r \in open /\ Answered(r)
  /\ ~Belongs(r)
  /\ UNCHANGED <<rows, requests, ripe, outgoing, history, leadOver, faults>>

(* sendNcrResultEmail runs on its own after the answer.                      *)
ResultMailed(o) ==
  /\ sending[o] > 0
  /\ sending' = [sending EXCEPT ![o] = @ - 1]
  /\ mails' = [mails EXCEPT ![o] = @ + 1]
  /\ notified' = notified \cup {o}
  /\ UNCHANGED <<row, command, retries, pausing, verdict, queue, alerting, reported, overlooked,
                 leadOver, faults>>

-----------------------------------------------------------------------------
LeadEnds(o) ==
  /\ o \notin leadOver
  /\ leadOver' = leadOver \cup {o}
  /\ UNCHANGED <<rows, queue, outgoing, history, faults>>

PauseEnds(o) ==
  /\ o \in pausing
  /\ PauseMayEnd(o)
  /\ pausing' = pausing \ {o}
  /\ UNCHANGED <<row, command, retries, verdict, notified, queue, outgoing, history,
                 leadOver, faults>>

(* Requests of one order get late in the order of their creation.            *)
GetsLate(r) ==
  /\ r \in open \ late
  /\ \A n \in 1..(r[2] - 1) : <<r[1], n>> \in open => <<r[1], n>> \in late
  /\ late' = late \cup {r}
  /\ UNCHANGED <<rows, requests, open, ripe, outgoing, history, leadOver, faults>>

(* The command or its acknowledgement is lost (see CommandQueue).            *)
LoseRequest(r) ==
  /\ r \in open /\ Fault
  /\ Answered(r)
  /\ UNCHANGED <<rows, requests, ripe, outgoing, history, leadOver>>

(* Microsoft Graph refuses the result mail: the error is logged.             *)
MailFails(o) ==
  /\ sending[o] > 0 /\ Fault
  /\ sending' = [sending EXCEPT ![o] = @ - 1]
  /\ UNCHANGED <<rows, queue, alerting, history, leadOver>>

(* The server stops between the insert of the row and the update that would
   have stored the command id. *)
CrashInInsert(o) ==
  /\ o \in Mapped \ row /\ Fault
  /\ row' = row \cup {o}
  /\ sending' = [p \in Order |-> 0]
  /\ alerting' = {}
  /\ UNCHANGED <<command, retries, pausing, verdict, notified, queue, history, leadOver>>

ServerRestart ==
  /\ Fault
  /\ sending' = [o \in Order |-> 0]
  /\ alerting' = {}
  /\ UNCHANGED <<rows, queue, history, leadOver>>

-----------------------------------------------------------------------------
TickStep == \/ ProcessRetries
            \/ CheckAckTimeouts
            \/ \E o \in Order : ProcessMapped(o) \/ ProcessUnmapped(o)

AnswerStep == \E r \in open : AnswerFound(r) \/ AnswerNotFound(r) \/ AnswerIgnored(r)

MailStep == \E o \in Order : UnmappedAlerted(o) \/ ResultMailed(o)

TimeStep == \/ \E o \in Order : LeadEnds(o) \/ PauseEnds(o)
            \/ \E r \in open : GetsLate(r)

FaultStep == \/ \E r \in open : LoseRequest(r)
             \/ \E o \in Order : MailFails(o) \/ CrashInInsert(o)
             \/ ServerRestart

Next == TickStep \/ AnswerStep \/ MailStep \/ TimeStep \/ FaultStep

Spec == Init /\ [][Next]_vars

-----------------------------------------------------------------------------
(* The operator gets at most one result mail for an order, although requests
   pile up while the machine is away and all of them are answered later:
   tasks/plan.md, "não duplicar email". *)
OneMailPerOrder == \A o \in Order : mails[o] + sending[o] <= 1

(* What danfe_found says once it says something is never changed again: no
   late answer turns a missing invoice into a found one or back. *)
VerdictIsFinal ==
  [][\A o \in Order : verdict[o] # "null" => verdict'[o] = verdict[o]]_vars

(* An order is given up only after its last search was asked for when the lead
   time of the order was over: an invoice issued on delivery is not missed. *)
GivenUpAfterLead ==
  \A o \in Order : verdict[o] = "missing" => <<o, command[o]>> \in ripe

(* ncrMonitor.js:15, "alerta se BOH não ACKou em 30 min": a check of the ACK
   time-outs counts every pending order that has an unanswered request older
   than that, unless an earlier check did. *)
LateIsReported == overlooked = {}

(* The monitor keeps the promise of OrderVerdict: one verdict for an order, given
   up only after a search that began late enough, told at most once. *)
Promise == INSTANCE OrderVerdict WITH
  Known <- Mapped, taken <- row, over <- leadOver, told <- mails,
  searched <- {o \in Order : \E r \in ripe : r[1] = o}

ImplementsVerdict == Promise!Spec
=============================================================================
