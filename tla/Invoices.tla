------------------------------- MODULE Invoices -------------------------------
(***************************************************************************)
(* The index of NFC-e invoices (routes/aloha.js, routes/agent.js, db.js,       *)
(* AlohaDANFESearch.jsx): commands make the agent of a store's BOH list and     *)
(* read its days; a poll that outlives the component shows how far it is.      *)
(***************************************************************************)
EXTENDS Naturals

CONSTANTS Machine,      \* BOH machines
          Listed,       \* days the agent finds when it lists its months
          MaxDays, MaxTriggers, MaxLooks, MaxErrors  \* bounds

VARIABLES
  lists,   \* aloha-list-nfce-months commands: was there one, pending, sent
  days,    \* aloha-index-nfce-day commands: pending since the last list or from
           \* before it, and sent
  poll,    \* the machine of _pollId, or None
  cache,   \* _cache: the pendingDays last heard of a machine, or Unknown
  shown,   \* the machine of the mounted component, or None
  status,  \* its indexStatus: pendingDays, or Unknown
  loading, \* its loadingStatus
  asked,   \* requests for a status on the way: [by, machine, answer]; a look whose
           \* component has gone is "gone"
  triggers, looks, errors

vars == <<lists, days, poll, cache, shown, status, loading, asked, triggers,
          looks, errors>>

None == "none"
Unknown == MaxDays + 1
Counts == 0..MaxDays
Statuses == Counts \cup {Unknown}

TypeOK ==
  /\ lists \in [Machine -> [made : BOOLEAN, pending : 0..MaxTriggers, sent : 0..MaxTriggers]]
  /\ days \in [Machine -> [old : Counts, new : Counts, sent : Counts]]
  /\ poll \in Machine \cup {None} /\ shown \in Machine \cup {None}
  /\ cache \in [Machine -> Statuses] /\ status \in Statuses /\ loading \in BOOLEAN
  /\ asked \subseteq [by : {"poll", "look", "gone"}, machine : Machine, answer : Statuses]

Init ==
  /\ lists = [m \in Machine |-> [made |-> FALSE, pending |-> 0, sent |-> 0]]
  /\ days = [m \in Machine |-> [old |-> 0, new |-> 0, sent |-> 0]]
  /\ poll = None /\ cache = [m \in Machine |-> Unknown]
  /\ shown = None /\ status = Unknown /\ loading = FALSE
  /\ asked = {} /\ triggers = 0 /\ looks = 0 /\ errors = 0

server == <<lists, days>>
screen == <<cache, shown, status, loading>>

Total(m) == days[m].old + days[m].new + days[m].sent

\* getNFCeIndexStatus: commands that the agent has taken no longer count, nor
\* those from before the last listing.
PendingDays(m) == IF lists[m].made THEN days[m].new ELSE days[m].old + days[m].new

-----------------------------------------------------------------------------
\* The answer to a trigger starts the poll; without one the commands are there,
\* but nobody polls.
Answered ==
  \/ poll' = shown /\ UNCHANGED errors
  \/ errors < MaxErrors /\ errors' = errors + 1 /\ UNCHANGED poll

(* POST /history/trigger.                                                     *)
TriggerHistory ==
  /\ shown # None /\ ~loading /\ triggers < MaxTriggers
  /\ triggers' = triggers + 1
  /\ lists' = [lists EXCEPT ![shown].made = TRUE, ![shown].pending = @ + 1]
  /\ days' = [days EXCEPT ![shown].old = @ + days[shown].new, ![shown].new = 0]
  /\ Answered
  /\ UNCHANGED <<screen, asked, looks>>

(* POST /index/trigger: a command for every day of the month so far.           *)
TriggerIndex ==
  /\ shown # None /\ ~loading /\ triggers < MaxTriggers
  /\ triggers' = triggers + 1
  /\ Total(shown) < MaxDays
  /\ days' = [days EXCEPT ![shown].new = @ + 1]
  /\ Answered
  /\ UNCHANGED <<lists, screen, asked, looks>>

(* The agent takes all that is pending.                                       *)
AgentPolls(m) ==
  /\ lists[m].pending + days[m].old + days[m].new > 0
  /\ lists' = [lists EXCEPT ![m].sent = @ + lists[m].pending, ![m].pending = 0]
  /\ days' = [days EXCEPT ![m] = [old |-> 0, new |-> 0, sent |-> Total(m)]]
  /\ UNCHANGED <<poll, screen, asked, triggers, looks, errors>>

(* postProcessNfceMonths: a listing puts a command for every day in the queue; *)
(* one that failed, or is not understood, puts none.                          *)
AckMonths(m) ==
  /\ lists[m].sent > 0
  /\ lists' = [lists EXCEPT ![m].sent = @ - 1]
  /\ \E n \in {0, Listed} :
       /\ Total(m) + n <= MaxDays
       /\ days' = [days EXCEPT ![m].new = @ + n]
  /\ UNCHANGED <<poll, screen, asked, triggers, looks, errors>>

(* postProcessNfceIndex stores the records of a day.                          *)
AckDay(m) ==
  /\ days[m].sent > 0
  /\ days' = [days EXCEPT ![m].sent = @ - 1]
  /\ UNCHANGED <<lists, poll, screen, asked, triggers, looks, errors>>

-----------------------------------------------------------------------------
Request(by, m) == [by |-> by, machine |-> m, answer |-> Unknown]

(* Every 8 s the poll asks; its answers are assumed to come within the 8 s,    *)
(* but one to the poll of another machine may still be on the way.             *)
PollTick ==
  /\ poll # None /\ \A r \in asked : r.by = "poll" => r.machine # poll
  /\ asked' = asked \cup {Request("poll", poll)}
  /\ UNCHANGED <<server, poll, screen, triggers, looks, errors>>

(* The component is mounted, or another machine is chosen.                    *)
Look(m) ==
  /\ shown # m /\ looks < MaxLooks
  /\ looks' = looks + 1
  /\ shown' = m /\ status' = cache[m] /\ loading' = (cache[m] = Unknown)
  /\ asked' = asked \cup {Request("look", m)}
  /\ UNCHANGED <<server, poll, cache, triggers, errors>>

Unmount ==
  /\ shown # None /\ shown' = None
  /\ status' = Unknown /\ loading' = FALSE
  /\ asked' = {IF r.by = "look" THEN [r EXCEPT !.by = "gone"] ELSE r : r \in asked}
  /\ UNCHANGED <<server, poll, cache, triggers, looks, errors>>

ServeStatus(r) ==
  /\ r \in asked /\ r.answer = Unknown
  /\ asked' = (asked \ {r}) \cup {[r EXCEPT !.answer = PendingDays(r.machine)]}
  /\ UNCHANGED <<server, poll, screen, triggers, looks, errors>>

(* An answer to the poll: nothing pending ends it, whichever it is by then.    *)
PollAnswered(r) ==
  /\ r \in asked /\ r.by = "poll" /\ r.answer # Unknown
  /\ asked' = asked \ {r}
  /\ cache' = [cache EXCEPT ![r.machine] = r.answer]
  /\ status' = IF shown = r.machine THEN r.answer ELSE status
  /\ poll' = IF r.answer = 0 THEN None ELSE poll
  /\ UNCHANGED <<server, shown, loading, triggers, looks, errors>>

\* "garante poll ativo se indexando"
MutKeepsPoll(r) == poll  \* mutation: only a trigger starts the poll

PollAfterLook(r) == IF r.answer > 0 THEN r.machine ELSE poll

(* The answer to a look is shown whatever machine has been chosen since.       *)
LookAnswered(r) ==
  /\ r \in asked /\ r.by # "poll" /\ r.answer # Unknown
  /\ asked' = asked \ {r}
  /\ cache' = [cache EXCEPT ![r.machine] = r.answer]
  /\ status' = IF r.by = "look" THEN r.answer ELSE status
  /\ loading' = (loading /\ r.by = "gone")
  /\ poll' = PollAfterLook(r)
  /\ UNCHANGED <<server, shown, triggers, looks, errors>>

RequestFails(r) ==
  /\ r \in asked /\ errors < MaxErrors /\ errors' = errors + 1
  /\ asked' = asked \ {r}
  /\ loading' = (loading /\ r.by # "look")
  /\ UNCHANGED <<server, poll, cache, shown, status, triggers, looks>>

Agent(m) == AgentPolls(m) \/ AckMonths(m) \/ AckDay(m)
Answer(r) == ServeStatus(r) \/ PollAnswered(r) \/ LookAnswered(r)

Next ==
  \/ TriggerHistory \/ TriggerIndex
  \/ \E m \in Machine : Agent(m) \/ Look(m)
  \/ PollTick \/ Unmount
  \/ \E r \in asked : Answer(r) \/ RequestFails(r)

Spec == Init /\ [][Next]_vars

(* The agents work and the interval fires; every request is answered or fails. *)
FairSpec ==
  /\ Spec
  /\ \A m \in Machine : WF_vars(Agent(m))
  /\ WF_vars(PollTick)
  /\ WF_vars(\E r \in asked : Answer(r))

-----------------------------------------------------------------------------
(* For an operator who stays with one machine (Machine has one element; see     *)
(* PollIsEnsured for more) a progress bar does not stand still for ever: once   *)
(* it shows days that are still to be read, it comes to show that none is, or   *)
(* the component goes away, although requests fail, answers overtake each       *)
(* other and the poll belongs to no component.                                *)
BarComesToAnEnd == (status \in 1..MaxDays) ~> (status \notin 1..MaxDays)

(* "Ao trocar de máquina: [...] busca status e garante poll ativo se           *)
(* indexando" (AlohaDANFESearch.jsx:339): when no request is on the way, a       *)
(* machine whose bar shows its own days to be read is polled.                  *)
PollIsEnsured ==
  (shown # None /\ asked = {} /\ status = cache[shown] /\ status \in 1..MaxDays)
    => poll = shown
=============================================================================
