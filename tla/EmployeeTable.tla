----------------------------- MODULE EmployeeTable -----------------------------
(***************************************************************************)
(* dashboard/src/components/EmployeeTable.jsx: the loading of the table by a   *)
(* poll that outlives the component, and "Sincronizar Todos", which sends one *)
(* enrolment job per divergent employee, polls every job on its own, and       *)
(* reads the clocks again when all of them are done.                         *)
(*                                                                         *)
(* Jobs are numbered in the order in which they are sent; what they do is in   *)
(* ClockRoster.  Only how an entry of the panel stands is kept.               *)
(***************************************************************************)
EXTENDS Naturals, Sequences

CONSTANTS MaxJobs,   \* bound: enrolment jobs sent in all
          MaxList    \* bound: divergent employees of one synchronisation

VARIABLES
  loading,   \* the table waits for the poll
  polling,   \* _polling, of the module: it survives the component
  panel,     \* syncAllJobs: what every entry's own job is (0: none) and its status
  sending,   \* syncAllRunning
  triggered, \* _syncRefreshTriggered
  pollers,   \* running pollJob calls: the index they write to, and their job
  sent,      \* jobs sent so far
  ended      \* jobs that are done

sync == <<panel, sending, triggered, pollers, sent, ended>>
load == <<loading, polling>>
vars == <<load, sync>>

Settled == {"done", "timeout", "error"}
Indices == 1..Len(panel)

TypeOK ==
  /\ loading \in BOOLEAN /\ polling \in BOOLEAN
  /\ panel \in Seq([job: 0..MaxJobs, status: {"pending", "polling"} \cup Settled])
  /\ sending \in BOOLEAN /\ triggered \in BOOLEAN
  /\ pollers \subseteq [index: 1..MaxList, job: 1..MaxJobs]
  /\ sent \in 0..MaxJobs /\ ended \subseteq 1..MaxJobs

Init ==
  /\ loading = FALSE /\ polling = FALSE
  /\ panel = <<>> /\ sending = FALSE /\ triggered = FALSE
  /\ pollers = {} /\ sent = 0 /\ ended = {}

(* loadEmployees: the button is disabled while it loads; a poll that runs     *)
(* already is shared.                                                        *)
LoadEmployees ==
  /\ ~loading
  /\ loading' = TRUE /\ polling' = TRUE
  /\ UNCHANGED sync

(* The proxy answered with a result, or 80 times that it is not ready.        *)
PollEnds ==
  /\ polling
  /\ polling' = FALSE /\ loading' = FALSE
  /\ UNCHANGED sync

(* getEmployees throws: try/finally resets _polling and nobody is told.       *)
PollThrows ==
  /\ polling
  /\ polling' = FALSE
  /\ UNCHANGED <<loading, sync>>

(* The user leaves the module and comes back: a new component, whose table     *)
(* waits if the poll is still running.  What the old one still sends and polls *)
(* is shown nowhere.                                                         *)
Remount ==
  /\ loading' = polling
  /\ panel' = <<>> /\ sending' = FALSE /\ triggered' = FALSE /\ pollers' = {}
  /\ UNCHANGED <<polling, sent, ended>>

(* handleSyncAll.  Its button is disabled while it sends, not while it polls. *)
SyncAll ==
  /\ ~sending /\ ~loading
  /\ \E n \in 1..MaxList :
       /\ sent + n <= MaxJobs
       /\ panel' = [i \in 1..n |-> [job |-> 0, status |-> "pending"]]
  /\ sending' = TRUE /\ triggered' = FALSE
  /\ UNCHANGED <<load, pollers, sent, ended>>

Unsent == {i \in Indices : panel[i].job = 0 /\ panel[i].status # "error"}
Next1  == CHOOSE i \in Unsent : \A k \in Unsent : i <= k

(* One turn of its loop: the job is accepted and polled, or refused.          *)
Send ==
  /\ sending /\ Unsent # {}
  /\ \/ /\ sent < MaxJobs
        /\ sent' = sent + 1
        /\ panel' = [panel EXCEPT ![Next1] = [job |-> sent', status |-> "polling"]]
        /\ pollers' = pollers \cup {[index |-> Next1, job |-> sent']}
     \/ /\ panel' = [panel EXCEPT ![Next1].status = "error"]
        /\ UNCHANGED <<sent, pollers>>
  /\ sending' = (Unsent # {Next1})
  /\ UNCHANGED <<load, triggered, ended>>

(* A job is done.  One that the proxy lost in a restart never is: 404.        *)
JobEnds(j) ==
  /\ j \in 1..sent \ ended
  /\ ended' = ended \cup {j}
  /\ UNCHANGED <<load, panel, sending, triggered, pollers, sent>>

(* setSyncAllJobs(prev => prev.map((j, i) => i !== jobIndex ? j : ...)): what  *)
(* is written goes to whatever entry has that index now.                      *)
Write(p, status) ==
  /\ panel' = [i \in Indices |-> IF i = p.index THEN [panel[i] EXCEPT !.status = status] ELSE panel[i]]
  /\ pollers' = pollers \ {p}
  /\ UNCHANGED <<load, sending, triggered, sent, ended>>

PollDone(p) == p \in pollers /\ p.job \in ended /\ Write(p, "done")

(* 3 h of answers that it runs, or of errors.                                 *)
MutForgetsEntry(p) ==  \* mutation: the last attempt does not touch the panel
  /\ p \in pollers
  /\ pollers' = pollers \ {p}
  /\ UNCHANGED <<load, panel, sending, triggered, sent, ended>>

PollTimesOut(p) == p \in pollers /\ Write(p, "timeout")

AllSettled == panel # <<>> /\ ~sending /\ \A i \in Indices : panel[i].status \in Settled

(* The effect on syncAllJobs: the clocks of all jobs are read again.          *)
AutoRefresh ==
  /\ AllSettled /\ ~triggered
  /\ triggered' = TRUE
  /\ UNCHANGED <<load, panel, sending, pollers, sent, ended>>

ClosePanel ==
  /\ AllSettled
  /\ panel' = <<>>
  /\ UNCHANGED <<load, sending, triggered, pollers, sent, ended>>

PollerStep == \E p \in pollers : PollDone(p) \/ PollTimesOut(p)

Next ==
  \/ LoadEmployees \/ PollEnds \/ PollThrows \/ Remount
  \/ SyncAll \/ Send \/ PollerStep \/ AutoRefresh \/ ClosePanel
  \/ \E j \in 1..MaxJobs : JobEnds(j)

Spec == Init /\ [][Next]_vars

(* The page stays open: its loops and timers run, and every attempt has an    *)
(* end.                                                                      *)
Fairness ==
  /\ WF_vars(PollEnds \/ PollThrows)
  /\ WF_vars(Send) /\ WF_vars(PollerStep)

FairSpec == Spec /\ Fairness

-----------------------------------------------------------------------------
(* No synchronisation stays on the screen as running for ever: whichever jobs *)
(* are refused, lost with the proxy or polled in vain, in the end every entry  *)
(* of the panel has a verdict or the panel is gone.                           *)
SyncEnds ==
  \A i \in 1..MaxList :
    (i \in Indices /\ panel[i].status \notin Settled)
      ~> (i \notin Indices \/ panel[i].status \in Settled)

=============================================================================
