------------------------------ MODULE ClockRoster ------------------------------
(***************************************************************************)
(* Who is registered on which time clock, and what the HR module says about   *)
(* it: the removal of a person from all clocks (POST /rh/offboard, its audit   *)
(* row and its LGPD receipt), and the enrolment jobs.                         *)
(*                                                                         *)
(* One session with a clock is one step (ClockQueue puts them in order).  The  *)
(* table in the dashboard that both are started from may be old (ClockScan,    *)
(* EmployeeTable): a job may name any clocks.  A request and a job are used    *)
(* once, which bounds their number.                                           *)
(***************************************************************************)
EXTENDS Naturals, FiniteSets

CONSTANTS Clock,       \* CLOCK_IPS
          Person,      \* CPFs
          Req,         \* calls of POST /api/rh/offboard
          Job,         \* enrolment jobs
          MaxBlind,    \* bound: pages of a clock that are misread
          MaxRestarts  \* bound: restarts of the proxy, and of the server

VARIABLES
  roster,    \* who is on a clock
  offboard,  \* by request: who, the clocks left, the clocks that reported the
             \* person gone; the state of the loop, whether the server waits
  row,       \* by request: its row in clock_offboard_log
  receipt,   \* by request: the receipt in LGPD_DIR
  doubtful,  \* history: requests with a misread page, or whose person was
             \* enrolled on a clock after the visit
  job,       \* by job: who, the clocks left
  logged,    \* by job: rows in clock_operation_log
  known,     \* _loggedEnrollJobs
  blind, restarts, reboots

removal == <<offboard, row, receipt, doubtful>>
enrol   == <<job, logged, known>>
bounds  == <<blind, restarts, reboots>>
vars    == <<roster, removal, enrol, bounds>>

TypeOK ==
  /\ roster \in [Clock -> SUBSET Person]
  /\ offboard \in [Req -> [who: Person, left: SUBSET Clock, gone: SUBSET Clock,
                           loop: {"unused", "running", "over"}, waits: BOOLEAN]]
  /\ row \in [Req -> {"none", "ok", "partial", "error"}]
  /\ receipt \in [Req -> BOOLEAN]
  /\ doubtful \subseteq Req
  /\ job \in [Job -> [who: Person, left: SUBSET Clock,
                      state: {"unused", "running", "done", "lost"}]]
  /\ logged \in [Job -> Nat] /\ known \subseteq Job

Init ==
  /\ roster \in [Clock -> SUBSET Person]
  /\ offboard = [r \in Req |-> [who |-> CHOOSE p \in Person : TRUE, left |-> {}, gone |-> {},
                                loop |-> "unused", waits |-> FALSE]]
  /\ row = [r \in Req |-> "none"]
  /\ receipt = [r \in Req |-> FALSE]
  /\ doubtful = {}
  /\ job = [j \in Job |-> [who |-> CHOOSE p \in Person : TRUE, left |-> {},
                           state |-> "unused"]]
  /\ logged = [j \in Job |-> 0] /\ known = {}
  /\ blind = 0 /\ restarts = 0 /\ reboots = 0

-----------------------------------------------------------------------------
(* The removal of a person.                                                  *)

(* What deleteEmployee does to a clock when it reports the person gone, and    *)
(* when it reports a failure: nobody knows whether "Excluir" was executed.     *)
Deleted(c, q) == roster' = [roster EXCEPT ![c] = @ \ {q}]
Attempted(c, q) == \E gone \in SUBSET {q} : roster' = [roster EXCEPT ![c] = @ \ gone]

(* handleRemove, POST /api/rh/offboard, POST /rh/offboard: the loop starts.   *)
Remove(r, p) ==
  /\ offboard[r].loop = "unused"
  /\ offboard' = [offboard EXCEPT ![r] =
       [who |-> p, left |-> Clock, gone |-> {}, loop |-> "running", waits |-> TRUE]]
  /\ UNCHANGED <<roster, row, receipt, doubtful, enrol, bounds>>

Visits(r, c) == offboard[r].loop = "running" /\ c \in offboard[r].left

(* deleteEmployee finds the person and removes them, or finds that they are   *)
(* not there ("alreadyAbsent").                                               *)
RemoveAtClock(r, c) ==
  /\ Visits(r, c)
  /\ Deleted(c, offboard[r].who)
  /\ offboard' = [offboard EXCEPT ![r].left = @ \ {c}, ![r].gone = @ \cup {c}]
  /\ UNCHANGED <<row, receipt, doubtful, enrol, bounds>>

(* No login, a page that does not load, "Excluir" still there.               *)
RemoveFails(r, c) ==
  /\ Visits(r, c)
  /\ Attempted(c, offboard[r].who)
  /\ offboard' = [offboard EXCEPT ![r].left = @ \ {c}]
  /\ UNCHANGED <<row, receipt, doubtful, enrol, bounds>>

(* navigateAndSearchByCPF waits 3 s for the page of the person; a clock that  *)
(* takes longer has, for the code, nobody to remove.                          *)
Misread(r, c) ==
  /\ blind < MaxBlind /\ blind' = blind + 1
  /\ Visits(r, c)
  /\ offboard' = [offboard EXCEPT ![r].left = @ \ {c}, ![r].gone = @ \cup {c}]
  /\ doubtful' = doubtful \cup {r}
  /\ UNCHANGED <<roster, row, receipt, enrol, restarts, reboots>>

(* writeLgpdKit, which may fail, and the answer, to whoever still listens:    *)
(* the server writes its row.                                                *)
MutSomeIsEnough(r) ==  \* mutation: results.some instead of results.every
  IF offboard[r].gone # {} THEN "ok" ELSE "partial"

Verdict(r) == IF offboard[r].gone = Clock THEN "ok" ELSE "partial"

WriteLgpdKit(r) == \E saved \in BOOLEAN : receipt' = [receipt EXCEPT ![r] = saved]

LogOffboard(r) == row' = [row EXCEPT ![r] = IF offboard[r].waits THEN Verdict(r) ELSE @]

Answer(r) ==
  /\ offboard[r].loop = "running" /\ offboard[r].left = {}
  /\ WriteLgpdKit(r) /\ LogOffboard(r)
  /\ offboard' = [offboard EXCEPT ![r].loop = "over", ![r].waits = FALSE]
  /\ UNCHANGED <<roster, doubtful, enrol, bounds>>

(* callClockProxy gives up after 300 s; the loop in the proxy goes on.        *)
GiveUp(r) ==
  /\ offboard[r].waits
  /\ offboard' = [offboard EXCEPT ![r].waits = FALSE]
  /\ row' = [row EXCEPT ![r] = "error"]
  /\ UNCHANGED <<roster, receipt, doubtful, enrol, bounds>>

-----------------------------------------------------------------------------
(* Enrolment jobs.                                                          *)

StartJob(j, p, targets) ==
  /\ job[j].state = "unused"
  /\ job' = [job EXCEPT ![j] = [who |-> p, left |-> targets, state |-> "running"]]
  /\ UNCHANGED <<roster, removal, logged, known, bounds>>

(* handleNewEnroll: on all clocks.                                            *)
NewEmployee(j, p) == StartJob(j, p, Clock)

(* handleSyncAll, handleEnroll: on the clocks where a table misses the person.*)
FillGaps(j, p) == \E targets \in SUBSET Clock \ {{}, Clock} : StartJob(j, p, targets)

(* enrollEmployee.  What the clock reports does not tell what it has: it may   *)
(* fail after it saved, or report a success that nobody could verify.         *)
Enrolled(c, q) ==
  /\ roster' = [roster EXCEPT ![c] = @ \cup {q}]
  /\ doubtful' = doubtful \cup {r \in Req : offboard[r].who = q /\ c \notin offboard[r].left}

(* One clock of a job: enrolled, or left as it is because it is offline or     *)
(* fails.  After the last clock the job is done.                              *)
EnrollAtClock(j, c) ==
  /\ job[j].state = "running" /\ c \in job[j].left
  /\ \/ UNCHANGED <<roster, doubtful>>
     \/ Enrolled(c, job[j].who)
  /\ job' = [job EXCEPT ![j].left = @ \ {c},
                        ![j].state = IF job[j].left = {c} THEN "done" ELSE @]
  /\ UNCHANGED <<offboard, row, receipt, logged, known, bounds>>

(* A dashboard polls a job that is done: the first poll writes the row and    *)
(* registers the number.                                                      *)
PollJob(j) ==
  /\ job[j].state = "done"
  /\ logged' = [logged EXCEPT ![j] = IF j \in known THEN @ ELSE @ + 1]
  /\ known' = known \cup {j}
  /\ UNCHANGED <<roster, removal, job, bounds>>

(* Ten minutes after its end a job is forgotten.                              *)
ForgetJob(j) ==
  /\ job[j].state = "done"
  /\ job' = [job EXCEPT ![j].state = "lost"]
  /\ UNCHANGED <<roster, removal, logged, known, bounds>>

-----------------------------------------------------------------------------
(* The proxy ends in the middle of its work (POST /deploy, a browser that     *)
(* cannot start): loops and jobs are lost and the callers see an error.       *)
ProxyRestart ==
  /\ restarts < MaxRestarts /\ restarts' = restarts + 1
  /\ offboard' = [r \in Req |->
       IF offboard[r].loop = "running"
         THEN [offboard[r] EXCEPT !.loop = "over", !.waits = FALSE] ELSE offboard[r]]
  /\ row' = [r \in Req |->
       IF offboard[r].loop = "running" /\ offboard[r].waits THEN "error" ELSE row[r]]
  /\ job' = [j \in Job |->
       IF job[j].state = "unused" THEN job[j] ELSE [job[j] EXCEPT !.state = "lost"]]
  /\ UNCHANGED <<roster, receipt, doubtful, logged, known, blind, reboots>>

(* The server starts again: what it logged and whom it waits for is forgotten.*)
ServerRestart ==
  /\ reboots < MaxRestarts /\ reboots' = reboots + 1
  /\ offboard' = [r \in Req |-> [offboard[r] EXCEPT !.waits = FALSE]]
  /\ known' = {}
  /\ UNCHANGED <<roster, row, receipt, doubtful, job, logged, blind, restarts>>

Next ==
  \/ \E r \in Req, p \in Person : Remove(r, p)
  \/ \E r \in Req, c \in Clock : RemoveAtClock(r, c) \/ RemoveFails(r, c) \/ Misread(r, c)
  \/ \E r \in Req : Answer(r) \/ GiveUp(r)
  \/ \E j \in Job, p \in Person : NewEmployee(j, p) \/ FillGaps(j, p)
  \/ \E j \in Job, c \in Clock : EnrollAtClock(j, c)
  \/ \E j \in Job : PollJob(j) \/ ForgetJob(j)
  \/ ProxyRestart \/ ServerRestart

Spec == Init /\ [][Next]_vars

-----------------------------------------------------------------------------
(* A row of the audit log that reports success is right: the person is on no  *)
(* clock, unless the page of one was misread or somebody enrolled them again, *)
(* whatever timed out, failed or started anew in the meantime and however     *)
(* many removals ran at the same time (rh.js, "evidência para ANPD").         *)
SuccessMeansGone ==
  \A r \in Req, c \in Clock :
    row[r] = "ok" /\ r \notin doubtful => offboard[r].who \notin roster[c]

=============================================================================
