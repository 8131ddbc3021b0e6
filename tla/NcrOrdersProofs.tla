--------------------------- MODULE NcrOrdersProofs ---------------------------
(***************************************************************************)
(* The order monitor keeps its promises for every set of orders, every bound *)
(* on requests and every number of faults.  The argument: only the answer to *)
(* the request a row remembers counts, that request is open as long as the   *)
(* row has no verdict, and requests are answered at most once.               *)
(***************************************************************************)
EXTENDS NcrOrders, TLAPS

(* Requests are numbered below the counter of their order, which has a row
   and a store. *)
OpenInv == \A r \in open : /\ r[1] \in row \cap Mapped
                           /\ r[2] <= requests[r[1]]

(* Without a row nothing was decided; only orders of unknown stores are
   mailed about, and only they are "unmapped". *)
RowInv == \A o \in Order :
            /\ o \notin row => verdict[o] = "null" /\ retries[o] = 0 /\ o \notin pausing
            /\ o \in alerting => o \in row \ Mapped
            /\ verdict[o] = "unmapped" => o \notin Mapped
            /\ o \notin Mapped => verdict[o] \in {"null", "unmapped"}

(* A verdict of the store came with the answer to the request remembered. *)
DecidedInv == \A o \in Order :
                verdict[o] \in {"found", "missing"} => <<o, command[o]>> \notin open

(* Result mails start with the verdict, once. *)
MailInv == \A o \in Order :
             /\ mails[o] + sending[o] <= 1
             /\ verdict[o] \in {"null", "unmapped"} => mails[o] + sending[o] = 0

(* Once a row has been put off, it is asked for only when the lead is over. *)
LeadInv == \A o \in Order :
             /\ retries[o] > 0 /\ o \notin pausing => o \in leadOver
             /\ retries[o] > 0 /\ <<o, command[o]>> \in open => <<o, command[o]>> \in ripe

IInv == TypeOK /\ OpenInv /\ RowInv /\ DecidedInv /\ MailInv /\ LeadInv /\ GivenUpAfterLead

LEMMA InitInv == Init => IInv
BY NcrAssumption DEF Init, IInv, TypeOK, OpenInv, RowInv, DecidedInv, MailInv, LeadInv,
     GivenUpAfterLead, Verdict, Request

-----------------------------------------------------------------------------
(* An open request is a pair of its order and a number. *)
LEMMA OpenPair ==
  ASSUME TypeOK, NEW r \in open
  PROVE  /\ r = <<r[1], r[2]>>
         /\ r[1] \in Order
         /\ r[2] \in 1..MaxRequests
BY DEF TypeOK, Request

(* The orders of S, which have a row and no verdict, and whose lead time is
   over when they were put off before, get a new request each. *)
LEMMA DispatchStep ==
  ASSUME IInv, NEW S \in SUBSET (Order \cap Mapped), Dispatch(S),
         row \subseteq row', S \subseteq row', row' \subseteq Order,
         \A o \in row' \ row : o \in S,
         \A o \in S : verdict[o] = "null" /\ (retries[o] > 0 => o \in leadOver),
         UNCHANGED <<retries, pausing, verdict, notified, outgoing, history, leadOver, faults>>
  PROVE  IInv' /\ verdict' = verdict
<1> USE NcrAssumption
<1> USE DEF IInv, outgoing, history
<1>1. TypeOK'
  <2>1. \A o \in S : NextRequest(o) \in Request
    BY DEF TypeOK, Dispatch, NextRequest, Request
  <2>2. open' \subseteq Request /\ ripe' \subseteq Request
    BY <2>1 DEF TypeOK, Dispatch
  <2>3. late' \subseteq open'
    BY DEF TypeOK, Dispatch
  <2> QED BY <2>2, <2>3 DEF TypeOK, Dispatch
<1>2. \A o \in S : <<o, requests[o] + 1>> \notin open
  BY DEF TypeOK, OpenInv
<1>3. OpenInv'
  <2> SUFFICES ASSUME NEW r \in open'
               PROVE  r[1] \in row' \cap Mapped /\ r[2] <= requests'[r[1]]
    BY DEF OpenInv
  <2>1. CASE r \in open
    BY <2>1, OpenPair DEF OpenInv, Dispatch, TypeOK
  <2>2. CASE r \notin open
    <3>1. PICK o \in S : r = <<o, requests[o] + 1>>
      BY <2>2 DEF Dispatch, NextRequest
    <3> QED BY <3>1 DEF Dispatch, TypeOK
  <2> QED BY <2>1, <2>2
<1>4. RowInv' /\ MailInv'
  BY DEF RowInv, MailInv
<1>5. ASSUME NEW o \in Order, o \notin S
      PROVE  command'[o] = command[o] /\ (<<o, command[o]>> \in open' => <<o, command[o]>> \in open)
  BY <1>5 DEF Dispatch, NextRequest, TypeOK
<1>6. DecidedInv'
  BY <1>5 DEF DecidedInv
<1>7. LeadInv'
  <2> SUFFICES ASSUME NEW o \in Order, retries[o] > 0
               PROVE  /\ o \notin pausing => o \in leadOver
                      /\ <<o, command'[o]>> \in open' => <<o, command'[o]>> \in ripe'
    BY DEF LeadInv
  <2>1. CASE o \in S
    <3>1. NextRequest(o) \in ripe'
      BY <2>1 DEF Dispatch
    <3>2. command'[o] = requests[o] + 1
      BY <2>1 DEF Dispatch
    <3> QED BY <3>1, <3>2 DEF LeadInv, NextRequest
  <2>2. CASE o \notin S
    BY <2>2, <1>5 DEF LeadInv, Dispatch
  <2> QED BY <2>1, <2>2
<1>8. GivenUpAfterLead'
  BY <1>5 DEF GivenUpAfterLead, Dispatch
<1> QED BY <1>1, <1>3, <1>4, <1>6, <1>7, <1>8

(* The answer to the request a row remembers finds that row undecided. *)
LEMMA AnswerFindsNull ==
  ASSUME IInv, NEW r \in open, Belongs(r)
  PROVE  /\ verdict[r[1]] = "null"
         /\ r[1] \in row \cap Mapped
         /\ mails[r[1]] + sending[r[1]] = 0
         /\ retries[r[1]] > 0 => r \in ripe
<1> USE DEF IInv
<1>1. r = <<r[1], r[2]>> /\ r[1] \in Order
  BY OpenPair
<1>2. r[1] \in row \cap Mapped
  BY DEF OpenInv
<1>3. r = <<r[1], command[r[1]]>>
  BY <1>1 DEF Belongs
<1>4. verdict[r[1]] \in Verdict
  BY <1>1 DEF TypeOK
<1>5. verdict[r[1]] = "null"
  BY <1>1, <1>2, <1>3, <1>4 DEF DecidedInv, RowInv, Verdict
<1> QED BY <1>1, <1>2, <1>3, <1>5 DEF MailInv, LeadInv

-----------------------------------------------------------------------------
LEMMA NextInv == IInv /\ [Next]_vars => IInv' /\ (\A o \in Order : verdict[o] # "null" => verdict'[o] = verdict[o])
<1> SUFFICES ASSUME IInv, [Next]_vars
             PROVE  IInv' /\ (\A o \in Order : verdict[o] # "null" => verdict'[o] = verdict[o])
  OBVIOUS
<1> DEFINE Kept == \A o \in Order : verdict[o] # "null" => verdict'[o] = verdict[o]
<1> USE NcrAssumption
<1>1. CASE ProcessRetries
  <2>1. Due \in SUBSET (Order \cap Mapped) /\ Due \subseteq row
    BY DEF Due, IInv, TypeOK
  <2>2. \A o \in Due : verdict[o] = "null" /\ (retries[o] > 0 => o \in leadOver)
    BY <2>1 DEF Due, IInv, LeadInv
  <2>3. row' = row /\ row' \subseteq Order
    BY <1>1 DEF ProcessRetries, IInv, TypeOK
  <2> QED BY <1>1, <2>1, <2>2, <2>3, DispatchStep DEF ProcessRetries
<1>2. ASSUME NEW o \in Order, ProcessMapped(o) PROVE IInv' /\ Kept
  <2>1. {o} \in SUBSET (Order \cap Mapped) /\ row' = row \cup {o} /\ row' \subseteq Order
    BY <1>2 DEF ProcessMapped, IInv, TypeOK
  <2>2. verdict[o] = "null" /\ retries[o] = 0
    BY <1>2 DEF ProcessMapped, IInv, RowInv
  <2> QED BY <1>2, <2>1, <2>2, DispatchStep DEF ProcessMapped
<1> USE DEF IInv, TypeOK, OpenInv, RowInv, DecidedInv, MailInv, LeadInv, GivenUpAfterLead,
            rows, queue, outgoing, history, Verdict
<1>3. CASE CheckAckTimeouts
  BY <1>3 DEF CheckAckTimeouts, TimedOut, Waiting
<1>4. ASSUME NEW o \in Order, ProcessUnmapped(o) PROVE IInv' /\ Kept
  BY <1>4 DEF ProcessUnmapped
<1>5. ASSUME NEW o \in Order, UnmappedAlerted(o) PROVE IInv' /\ Kept
  BY <1>5 DEF UnmappedAlerted
<1>6. ASSUME NEW o \in Order, ResultMailed(o) PROVE IInv' /\ Kept
  BY <1>6 DEF ResultMailed
<1>7. ASSUME NEW o \in Order, LeadEnds(o) \/ PauseEnds(o) \/ MailFails(o) PROVE IInv' /\ Kept
  BY <1>7 DEF LeadEnds, PauseEnds, PauseMayEnd, MailFails, Fault
<1>8. ASSUME NEW o \in Order, CrashInInsert(o) PROVE IInv' /\ Kept
  BY <1>8 DEF CrashInInsert, Fault
<1>9. CASE ServerRestart
  BY <1>9 DEF ServerRestart, Fault
<1>10. ASSUME NEW r \in open, AnswerIgnored(r) \/ LoseRequest(r) PROVE IInv' /\ Kept
  BY <1>10 DEF AnswerIgnored, LoseRequest, Answered, Fault
<1>11. ASSUME NEW r \in open, GetsLate(r) PROVE IInv' /\ Kept
  BY <1>11 DEF GetsLate
<1>12. ASSUME NEW r \in open, NEW v \in {"found", "missing"}, Belongs(r), Answered(r), Settle(r[1], v),
              v = "missing" => r \in ripe,
              UNCHANGED <<row, command, notified, requests, ripe, alerting, history, leadOver, faults>>
      PROVE  IInv' /\ Kept
  <2> DEFINE p == r[1]
  <2>1. /\ verdict[p] = "null" /\ p \in row \cap Mapped /\ mails[p] + sending[p] = 0
        /\ retries[p] > 0 => r \in ripe
    BY <1>12, AnswerFindsNull
  <2>2. r = <<p, command[p]>> /\ p \in Order
    BY <1>12, OpenPair DEF Belongs
  <2> HIDE DEF p
  <2>3. verdict' = [verdict EXCEPT ![p] = v] /\ sending' = [sending EXCEPT ![p] = @ + 1]
        /\ UNCHANGED <<retries, pausing>> /\ open' = open \ {r} /\ late' = late \ {r}
    BY <1>12 DEF Settle, Answered, p
  <2>4. TypeOK' /\ OpenInv'
    BY <1>12, <2>2, <2>3
  <2>5. RowInv' /\ MailInv' /\ Kept
    BY <1>12, <2>1, <2>2, <2>3
  <2>6. DecidedInv' /\ LeadInv' /\ GivenUpAfterLead'
    BY <1>12, <2>1, <2>2, <2>3
  <2> QED BY <2>4, <2>5, <2>6
<1>13. ASSUME NEW r \in open, AnswerFound(r) PROVE IInv' /\ Kept
  BY <1>12, <1>13 DEF AnswerFound
<1>14. ASSUME NEW r \in open, AnswerNotFound(r), retries[r[1]] < 4 PROVE IInv' /\ Kept
  <2> DEFINE p == r[1]
  <2>1. verdict[p] = "null" /\ p \in row \cap Mapped
    BY <1>14, AnswerFindsNull DEF AnswerNotFound
  <2>2. r = <<p, command[p]>> /\ p \in Order
    BY <1>14, OpenPair DEF Belongs, AnswerNotFound
  <2> HIDE DEF p
  <2>3. /\ retries' = [retries EXCEPT ![p] = @ + 1] /\ pausing' = pausing \cup {p}
        /\ retries[p] < 4
        /\ UNCHANGED <<verdict, sending>> /\ open' = open \ {r} /\ late' = late \ {r}
        /\ UNCHANGED <<row, command, notified, requests, ripe, alerting, history, leadOver, faults>>
    BY <1>14 DEF AnswerNotFound, AskAgain, Answered, p
  <2>4. TypeOK' /\ OpenInv'
    BY <2>2, <2>3
  <2>5. RowInv' /\ MailInv' /\ Kept
    BY <2>1, <2>2, <2>3
  <2>6. DecidedInv' /\ LeadInv' /\ GivenUpAfterLead'
    BY <2>1, <2>2, <2>3
  <2> QED BY <2>4, <2>5, <2>6
<1>15. ASSUME NEW r \in open, AnswerNotFound(r), ~(retries[r[1]] < 4) PROVE IInv' /\ Kept
  <2>1. retries[r[1]] > 0
    BY <1>15, OpenPair
  <2>2. r \in ripe
    BY <1>15, <2>1, AnswerFindsNull DEF AnswerNotFound
  <2> QED BY <1>12, <1>15, <2>2 DEF AnswerNotFound
<1>16. CASE UNCHANGED vars
  BY <1>16 DEF vars
<1> QED
  BY <1>1, <1>2, <1>3, <1>4, <1>5, <1>6, <1>7, <1>8, <1>9, <1>10, <1>11, <1>13, <1>14, <1>15, <1>16
  DEF Next, TickStep, AnswerStep, MailStep, TimeStep, FaultStep

-----------------------------------------------------------------------------
(* Every reachable state of the monitor is well typed. *)
THEOREM TypeCorrect == Spec => []TypeOK
<1>1. IInv => TypeOK
  BY DEF IInv
<1> QED BY <1>1, InitInv, NextInv, PTL DEF Spec

(* At most one result mail for an order (sendNcrResultEmail). *)
THEOREM OneMailAlways == Spec => []OneMailPerOrder
<1>1. IInv => OneMailPerOrder
  BY DEF IInv, MailInv, OneMailPerOrder
<1> QED BY <1>1, InitInv, NextInv, PTL DEF Spec

(* danfe_found is written once (postProcessNfceFind). *)
THEOREM VerdictStays == Spec => VerdictIsFinal
<1>1. IInv /\ [Next]_vars => [\A o \in Order : verdict[o] # "null" => verdict'[o] = verdict[o]]_vars
  BY NextInv
<1> QED BY <1>1, InitInv, NextInv, PTL DEF Spec, VerdictIsFinal

(* An order is given up only by an answer to a request made when its lead time
   was over (handleNfceFindNotFound). *)
THEOREM GivenUpLate == Spec => []GivenUpAfterLead
<1>1. IInv => GivenUpAfterLead
  BY DEF IInv
<1> QED BY <1>1, InitInv, NextInv, PTL DEF Spec

-----------------------------------------------------------------------------
(* What OrderVerdict sees of the searches.                                   *)
Searched == {o \in Order : \E r \in ripe : r[1] = o}

(* A dispatch begins searches for the orders whose lead time is over.         *)
LEMMA DispatchSearches ==
  ASSUME NEW S \in SUBSET Order, Dispatch(S)
  PROVE  Searched' = Searched \cup (S \cap leadOver)
<1>1. ripe' = ripe \cup {NextRequest(o) : o \in S \cap leadOver}
  BY DEF Dispatch
<1>2. \A o \in Order : NextRequest(o)[1] = o
  BY DEF NextRequest
<1>3. ASSUME NEW o \in Searched' PROVE o \in Searched \cup (S \cap leadOver)
  <2>1. PICK r \in ripe' : r[1] = o
    BY <1>3 DEF Searched
  <2>2. CASE r \in ripe
    BY <1>3, <2>1, <2>2 DEF Searched
  <2>3. CASE r \notin ripe
    <3>1. PICK p \in S \cap leadOver : r = NextRequest(p)
      BY <1>1, <2>1, <2>3
    <3>2. p = o
      BY <1>2, <2>1, <3>1
    <3> QED BY <3>1, <3>2
  <2> QED BY <2>2, <2>3
<1>4. ASSUME NEW o \in Searched PROVE o \in Searched'
  BY <1>1, <1>4 DEF Searched
<1>5. ASSUME NEW o \in S \cap leadOver PROVE o \in Searched'
  <2>1. NextRequest(o) \in ripe' /\ NextRequest(o)[1] = o /\ o \in Order
    BY <1>1, <1>2
  <2> QED BY <2>1 DEF Searched
<1> QED BY <1>3, <1>4, <1>5

LEMMA RefinesVerdict ==
  ASSUME IInv, NEW r \in open, NEW v \in {"found", "missing"}, Belongs(r), Settle(r[1], v),
         v = "missing" => r \in ripe,
         UNCHANGED <<row, leadOver, ripe, mails>>
  PROVE  Promise!Decide(r[1], v)
<1>1. r[1] \in Order /\ r[1] \in row \cap Mapped /\ verdict[r[1]] = "null"
  BY OpenPair, AnswerFindsNull DEF IInv
<1>2. verdict' = [verdict EXCEPT ![r[1]] = v]
  BY DEF Settle
<1>3. v = "missing" => r[1] \in Searched
  BY <1>1 DEF Searched
<1>4. UNCHANGED Searched
  BY DEF Searched
<1> QED BY <1>1, <1>2, <1>3, <1>4 DEF Promise!Decide, Searched

(* Every behaviour of the monitor is one that OrderVerdict allows: one verdict   *)
(* for an order, "missing" only after a search that began when the lead time    *)
(* was over, and at most one result mail, with several requests under way, ticks *)
(* that overlap, lost answers, failing mails and restarts (ncrMonitor.js).      *)
THEOREM OrdersImplementVerdict == Spec => ImplementsVerdict
<1>1. Init => Promise!Init
  BY DEF Init, Promise!Init
<1>2. IInv /\ [Next]_vars => [Promise!Next]_(Promise!vars)
  <2> SUFFICES ASSUME IInv, [Next]_vars PROVE Promise!Next \/ UNCHANGED Promise!vars
    OBVIOUS
  <2> DEFINE Seen == <<row, leadOver, ripe, verdict, mails>>
  <2>0. Mapped \subseteq Order
    BY NcrAssumption
  <2>1. UNCHANGED Seen => UNCHANGED Promise!vars
    BY DEF Promise!vars
  <2>2. CASE ProcessRetries
    <3>0. PICK S : S = Due \cap leadOver
      OBVIOUS
    <3>1. Due \in SUBSET Order /\ Due \subseteq row \cap Mapped
      BY <2>0 DEF Due
    <3>2. Dispatch(Due) /\ UNCHANGED <<row, leadOver, verdict, mails>>
      BY <2>2 DEF ProcessRetries, history
    <3>3. Searched' = Searched \cup S
      BY <3>0, <3>1, <3>2, DispatchSearches
    <3>4. S \in SUBSET Order /\ S \subseteq row \cap Mapped \cap leadOver
          /\ \A o \in S : verdict[o] = "null"
      BY <3>0, <3>1 DEF Due
    <3>5. Promise!Search(S)
      BY <3>2, <3>3, <3>4 DEF Promise!Search, Searched
    <3> QED BY <3>4, <3>5 DEF Promise!Next
  <2>3. ASSUME NEW o \in Order, ProcessMapped(o) PROVE Promise!Next
    <3>1. Dispatch({o}) /\ o \in Mapped /\ o \notin row /\ row' = row \cup {o}
          /\ UNCHANGED <<leadOver, verdict, mails>>
      BY <2>3 DEF ProcessMapped, history
    <3>2. Searched' = Searched \cup ({o} \cap leadOver)
      BY <3>1, DispatchSearches
    <3>3. {o} \cap leadOver = {o} \cap Mapped \cap leadOver
      BY <3>1
    <3>4. Promise!TakeUp(o)
      BY <3>1, <3>2, <3>3 DEF Promise!TakeUp, Searched
    <3> QED BY <3>4 DEF Promise!Next
  <2>4. ASSUME NEW o \in Order, ProcessUnmapped(o) \/ CrashInInsert(o) PROVE Promise!Next
    <3>1. o \notin row /\ row' = row \cup {o} /\ UNCHANGED <<leadOver, ripe, verdict, mails>>
      BY <2>4 DEF ProcessUnmapped, CrashInInsert, queue, history
    <3>2. Promise!TakeUp(o)
      BY <3>1 DEF Promise!TakeUp
    <3> QED BY <3>2 DEF Promise!Next
  <2>5. ASSUME NEW o \in Order, UnmappedAlerted(o)
        PROVE  Promise!Next \/ UNCHANGED Promise!vars
    <3>1. verdict' = [verdict EXCEPT ![o] = "unmapped"] /\ UNCHANGED <<row, leadOver, ripe, mails>>
      BY <2>5 DEF UnmappedAlerted, queue, history
    <3>2. o \in row /\ o \notin Mapped /\ verdict[o] \in {"null", "unmapped"}
          /\ DOMAIN verdict = Order
      BY <2>5 DEF UnmappedAlerted, IInv, RowInv, TypeOK
    <3>3. CASE verdict[o] = "null"
      <4>1. Promise!Decide(o, "unmapped")
        BY <3>1, <3>2, <3>3 DEF Promise!Decide
      <4> QED BY <4>1 DEF Promise!Next
    <3>4. CASE verdict[o] = "unmapped"
      <4>1. verdict' = verdict
        BY <3>1, <3>2, <3>4 DEF IInv, TypeOK
      <4> QED BY <2>1, <3>1, <4>1
    <3> QED BY <3>2, <3>3, <3>4
  <2>6. ASSUME NEW o \in Order, ResultMailed(o) PROVE Promise!Next
    <3>1. sending[o] > 0 /\ mails' = [mails EXCEPT ![o] = @ + 1]
          /\ UNCHANGED <<row, leadOver, ripe, verdict>>
      BY <2>6 DEF ResultMailed, queue
    <3>2. sending[o] \in Nat /\ mails[o] \in Nat /\ mails[o] + sending[o] <= 1
      BY DEF IInv, TypeOK, MailInv
    <3>3. mails[o] = 0 /\ mails[o] + sending[o] # 0
      BY <3>1, <3>2
    <3>4. verdict[o] \in {"found", "missing"}
      BY <3>3 DEF IInv, TypeOK, MailInv, Verdict
    <3>5. mails' = [mails EXCEPT ![o] = 1]
      BY <3>1, <3>3
    <3>6. Promise!Tell(o)
      BY <3>1, <3>3, <3>4, <3>5 DEF Promise!Tell
    <3> QED BY <3>6 DEF Promise!Next
  <2>7. ASSUME NEW r \in open, AnswerFound(r) PROVE Promise!Next
    <3>1. Promise!Decide(r[1], "found") /\ r[1] \in Order
      BY <2>7, RefinesVerdict, OpenPair DEF AnswerFound, history, IInv
    <3> QED BY <3>1 DEF Promise!Next
  <2>8. ASSUME NEW r \in open, AnswerNotFound(r)
        PROVE  Promise!Next \/ UNCHANGED Promise!vars
    <3>1. UNCHANGED <<row, leadOver, ripe, mails>> /\ Belongs(r) /\ r[1] \in Order
      BY <2>8, OpenPair DEF AnswerNotFound, history, IInv
    <3>2. CASE retries[r[1]] < 4
      <4>1. UNCHANGED verdict
        BY <2>8, <3>2 DEF AnswerNotFound, AskAgain
      <4> QED BY <2>1, <3>1, <4>1
    <3>3. CASE ~(retries[r[1]] < 4)
      <4>1. retries[r[1]] > 0
        BY <3>1, <3>3 DEF IInv, TypeOK
      <4>2. r \in ripe
        BY <3>1, <4>1, AnswerFindsNull
      <4>3. Settle(r[1], "missing")
        BY <2>8, <3>3 DEF AnswerNotFound
      <4>4. Promise!Decide(r[1], "missing")
        BY <3>1, <4>2, <4>3, RefinesVerdict
      <4> QED BY <3>1, <4>4 DEF Promise!Next
    <3> QED BY <3>2, <3>3
  <2>9. ASSUME NEW o \in Order, LeadEnds(o) PROVE Promise!Next
    <3>1. leadOver' = leadOver \cup {o} /\ UNCHANGED <<row, ripe, verdict, mails>>
      BY <2>9 DEF LeadEnds, rows, queue, history
    <3>2. Promise!LeadEnds(o)
      BY <3>1 DEF Promise!LeadEnds
    <3> QED BY <3>2 DEF Promise!Next
  <2>10. ASSUME NEW o \in Order, PauseEnds(o) \/ MailFails(o) PROVE UNCHANGED Seen
    BY <2>10 DEF PauseEnds, MailFails, rows, queue, history
  <2>11. ASSUME NEW r \in open, AnswerIgnored(r) \/ LoseRequest(r) \/ GetsLate(r)
         PROVE  UNCHANGED Seen
    BY <2>11 DEF AnswerIgnored, LoseRequest, GetsLate, rows, history
  <2>12. ASSUME CheckAckTimeouts \/ ServerRestart \/ UNCHANGED vars PROVE UNCHANGED Seen
    BY <2>12 DEF CheckAckTimeouts, ServerRestart, rows, queue, history, vars
  <2> HIDE DEF Seen
  <2> QED
    BY <2>1, <2>2, <2>3, <2>4, <2>5, <2>6, <2>7, <2>8, <2>9, <2>10, <2>11, <2>12
    DEF Next, TickStep, AnswerStep, MailStep, TimeStep, FaultStep
<1> QED BY <1>1, <1>2, InitInv, NextInv, PTL DEF Spec, ImplementsVerdict, Promise!Spec
=============================================================================
