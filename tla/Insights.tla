------------------------------- MODULE Insights -------------------------------
(***************************************************************************)
(* The analysis of Windows events by Claude (services/insightEngine.js):       *)
(* every six hours, and whenever POST /insights/generate asks for it, runNow   *)
(* takes the machines as they are and goes through them one by one; of each    *)
(* it reads the events after the cursor, shows the newest ones to Claude and  *)
(* moves the cursor when it has an answer that it can read.  Nothing keeps    *)
(* two runs apart.                                                          *)
(*                                                                         *)
(* From the answer of Claude to the next question nothing else runs.          *)
(* Events are numbered as win_events numbers them (AUTOINCREMENT, one count   *)
(* for all machines); the events of type 'offline' have a cursor of the same  *)
(* kind.                                                                    *)
(***************************************************************************)
EXTENDS Naturals, Sequences, FiniteSets

CONSTANTS Machine, Run,
          MaxEvents,   \* bound: events reported
          PromptSize   \* 150: events of a machine that fit into a prompt

VARIABLES
  owner,    \* win_events: the machines of the events, in the order of their ids
  purged,   \* events deleted since
  cursor,   \* machines.last_win_event_id
  run,      \* runNow under way: machines left, their cursors at its start,
            \* the machine that Claude is asked about and the events read
  seen,     \* events that a run with a readable answer had read
  shown,    \* events that were in the prompt of such a run
  insights  \* insights: machines with a saved pattern

vars == <<owner, purged, cursor, run, seen, shown, insights>>

Idle == [left |-> {}, cursors |-> [m \in Machine |-> 0], read |-> {}]

Events == 1..Len(owner)

TypeOK ==
  /\ owner \in Seq(Machine) /\ Len(owner) <= MaxEvents
  /\ purged \subseteq Events
  /\ cursor \in [Machine -> Nat]
  /\ run \in [Run -> [left : SUBSET Machine, cursors : [Machine -> Nat], read : SUBSET Events]]
  /\ shown \subseteq seen /\ seen \subseteq Events
  /\ insights \subseteq Machine

Init ==
  /\ owner = <<>> /\ purged = {} /\ seen = {} /\ shown = {}
  /\ cursor = [m \in Machine |-> 0] /\ run = [r \in Run |-> Idle]
  /\ insights = {}

(* fetchNewEvents, with the cursor of the machine as the run got it.          *)
New(m, from) == {e \in Events \ purged : owner[e] = m /\ e > from}

(* events.slice(0, 150)                                                       *)
InPrompt(events) ==
  {e \in events : Cardinality({d \in events : d > e}) < PromptSize}

(* saveWinEvents                                                             *)
Report(m) ==
  /\ Len(owner) < MaxEvents
  /\ owner' = Append(owner, m)
  /\ UNCHANGED <<purged, cursor, run, seen, shown, insights>>

(* Thirty days later.                                                        *)
Purge(e) ==
  /\ e \in Events \ purged
  /\ purged' = purged \cup {e}
  /\ UNCHANGED <<owner, cursor, run, seen, shown, insights>>

(* The timer of start, or POST /generate.                                     *)
RunNow(r) ==
  /\ run[r] = Idle
  /\ run' = [run EXCEPT ![r] = [left |-> Machine, cursors |-> cursor, read |-> {}]]
  /\ UNCHANGED <<owner, purged, cursor, seen, shown, insights>>

Goes(r) == run[r].left # {} /\ run[r].read = {}

Current(r) == CHOOSE m \in run[r].left : TRUE

Onward(r) == [run[r] EXCEPT !.left = @ \ {Current(r)}, !.read = {}]

(* analyzeMachine: the events are read and Claude is asked; without any the   *)
(* next machine is next.                                                     *)
Ask(r) ==
  /\ Goes(r)
  /\ LET events == New(Current(r), run[r].cursors[Current(r)]) IN
       run' = [run EXCEPT ![r] =
                 IF events = {} THEN Onward(r) ELSE [run[r] EXCEPT !.read = events]]
  /\ UNCHANGED <<owner, purged, cursor, seen, shown, insights>>

(* fetchClaudeResponse or parseInsightsResponse yields null.                  *)
NoAnswer(r) ==
  /\ run[r].read # {}
  /\ run' = [run EXCEPT ![r] = Onward(r)]
  /\ UNCHANGED <<owner, purged, cursor, seen, shown, insights>>

(* Bug: the newest event of the table instead of the newest one read.         *)
MutNewest(r, e) ==
  owner[e] = Current(r) /\ \A d \in Events : owner[d] = Current(r) => d <= e

(* events[0] of the query, which orders by id.                                *)
Newest(r, e) == e \in run[r].read /\ \A d \in run[r].read : d <= e

MoveCursor(r) ==
  /\ run[r].read # {}
  /\ \E e \in Events : Newest(r, e) /\ cursor' = [cursor EXCEPT ![Current(r)] = e]
  /\ seen' = seen \cup run[r].read /\ shown' = shown \cup InPrompt(run[r].read)

(* A readable answer: the cursor, then persistInsights (INSERT OR IGNORE by    *)
(* the hash of the pattern) and the next machine.                            *)
Answer(r) ==
  /\ MoveCursor(r)
  /\ \E found \in SUBSET {Current(r)} : insights' = insights \cup found
  /\ run' = [run EXCEPT ![r] = Onward(r)]
  /\ UNCHANGED <<owner, purged>>

Stopped == run' = [r \in Run |-> Idle]

(* A stop between the cursor and the insights: they are never found again.     *)
DiesInAnswer(r) ==
  /\ MoveCursor(r) /\ Stopped
  /\ UNCHANGED <<owner, purged, insights>>

Restart ==
  /\ Stopped
  /\ UNCHANGED <<owner, purged, cursor, seen, shown, insights>>

Next ==
  \/ \E m \in Machine : Report(m)
  \/ \E e \in 1..MaxEvents : Purge(e)
  \/ \E r \in Run : RunNow(r) \/ Ask(r) \/ NoAnswer(r) \/ Answer(r) \/ DiesInAnswer(r)
  \/ Restart

Spec == Init /\ [][Next]_vars

-----------------------------------------------------------------------------
(* "nenhum evento pode ser marcado já analisado sem ter sido" (fetchNewEvents): *)
(* what lies before the cursor was read by a run that had an answer, or was    *)
(* deleted, however runs overlap, fail and stop, and although events arrive    *)
(* while Claude answers.                                                     *)
OnlySeenIsPassed ==
  \A e \in Events \ purged : e <= cursor[owner[e]] => e \in seen

=============================================================================
