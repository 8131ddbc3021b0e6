----------------------------- MODULE Registration -----------------------------
(***************************************************************************)
(* Under which row of the server an agent lives: registerMachine and           *)
(* deleteMachine (server/db.js), the routes that call them, the token check    *)
(* (middleware/auth.js), and the agent, which registers again when its token   *)
(* is refused (agent.go) and may lose its config.json.                        *)
(*                                                                         *)
(* Of the history of a machine only is kept whether there is any, of its row    *)
(* the name and the token: which of several rows of one name is taken over      *)
(* (one in a store first) is left open.  Windows computers always have          *)
(* different names.                                                          *)
(***************************************************************************)
EXTENDS Naturals, Functions

CONSTANTS PC,          \* computers with an agent
          Id,          \* machine ids
          Host,        \* names of computers
          RegLimit,    \* registrations per IP and window of _checkRegRateLimit
          MaxTokens,   \* bound: tokens issued
          MaxRenames, MaxDeletes, MaxLost,  \* bounds: renamed computers,
                       \* removals in the dashboard, lost files config.json
          MaxFails     \* bound: answers to a registration that are lost

None == 0
NoRow == [host |-> "none", token |-> None]

VARIABLES
  row,      \* machines, by id
  history,  \* ids with rows in the _MACHINE_CHILD_TABLES that cascade
  serviceRows, \* ids with rows in service_status, which has no foreign key
  insights, \* ids with rows in insights, which the list does not name
  tombs,    \* deleted_machines younger than 10 minutes
  id, token, name,  \* what an agent has in config.json, and its computer's name
  attempts, \* _regAttempts of the one IP
  issued,   \* tokens issued so far
  renames, deletes, lost, fails

agents == <<id, token, name>>
bounds == <<renames, deletes, lost, fails>>
data   == <<history, serviceRows, insights>>
vars   == <<row, data, tombs, agents, attempts, issued, bounds>>

Exists(i) == row[i] # NoRow
Named(h)  == {i \in Id : Exists(i) /\ row[i].host = h}

(* getMachineByToken, for the agent of p.                                     *)
Opens(p) == {i \in Id : Exists(i) /\ row[i].token = token[p]}
Known(p) == Opens(p) # {}

TypeOK ==
  /\ \A i \in Id : Exists(i) =>
       row[i] \in [host: Host, token: 1..MaxTokens]
  /\ history \cup serviceRows \cup insights \cup tombs \subseteq Id
  /\ id \in [PC -> Id] /\ token \in [PC -> 0..MaxTokens] /\ name \in [PC -> Host]
  /\ attempts \in 0..RegLimit /\ issued \in 0..MaxTokens

(* Every agent has just been installed.                                       *)
Init ==
  /\ row = [i \in Id |-> NoRow]
  /\ history = {} /\ serviceRows = {} /\ insights = {} /\ tombs = {}
  /\ id = CHOOSE f \in [PC -> Id] : IsInjective(f)
  /\ token = [p \in PC |-> None]
  /\ name = CHOOSE f \in [PC -> Host] : IsInjective(f)
  /\ attempts = 0 /\ issued = 0
  /\ renames = 0 /\ deletes = 0 /\ lost = 0 /\ fails = 0

-----------------------------------------------------------------------------
(* registerMachine.                                                         *)

(* The agent keeps the token of the answer, unless that is lost.               *)
Gets(p, t) ==
  \/ token' = [token EXCEPT ![p] = t] /\ UNCHANGED fails
  \/ /\ fails < MaxFails /\ fails' = fails + 1
     /\ token' = [token EXCEPT ![p] = None]

(* The id is known.                                                          *)
Update(p) ==
  /\ Exists(id[p])
  /\ row' = [row EXCEPT ![id[p]].host = name[p]]
  /\ Gets(p, row[id[p]].token)
  /\ UNCHANGED <<data, issued>>

(* service_status moves from c to n as one UPDATE.  Rows that n left behind    *)
(* when it was removed are in its way if a service is in both, and the error is *)
(* swallowed: the rows of c stay at c.  Other rows of the name are deleted.    *)
ServicesMove(c, n, dupes) ==
  LET moved == IF c \in serviceRows THEN (serviceRows \ {c}) \cup {n} ELSE serviceRows
  IN  \/ serviceRows' = moved \ dupes
      \/ n \in serviceRows /\ serviceRows' = serviceRows \ dupes

(* The id is unknown, the name is not: a row of that name and its history move *)
(* to the id, and other rows of the name are removed.                         *)
MutKeepsDupes(p) ==  \* mutation: the history of the other rows is not deleted
  /\ ~Exists(id[p])
  /\ \E c \in Named(name[p]) :
       /\ row' = [i \in Id |-> IF i = id[p] THEN row[c]
                               ELSE IF i \in Named(name[p]) THEN NoRow ELSE row[i]]
       /\ history' = (history \ {c})
                      \cup {i \in {id[p]} : c \in history}
       /\ ServicesMove(c, id[p], Named(name[p]) \ {c})
       /\ Gets(p, row[c].token)
  /\ UNCHANGED <<insights, issued>>

ReKey(p) ==
  /\ ~Exists(id[p])
  /\ \E c \in Named(name[p]) :
       /\ row' = [i \in Id |-> IF i = id[p] THEN row[c]
                               ELSE IF i \in Named(name[p]) THEN NoRow ELSE row[i]]
       /\ history' = (history \ Named(name[p]))
                      \cup {i \in {id[p]} : c \in history}
       /\ ServicesMove(c, id[p], Named(name[p]) \ {c})
       /\ Gets(p, row[c].token)
  /\ UNCHANGED <<insights, issued>>

(* Both are unknown.                                                         *)
Insert(p) ==
  /\ ~Exists(id[p]) /\ Named(name[p]) = {}
  /\ issued < MaxTokens /\ issued' = issued + 1
  /\ row' = [row EXCEPT ![id[p]] = [host |-> name[p], token |-> issued']]
  /\ Gets(p, issued')
  /\ UNCHANGED data

(* POST /api/register, by an agent without a token or whose heartbeat was      *)
(* refused.  The route does not ask isDeletedMachine, nobody does.            *)
MutAsksTwice(p) ==  \* mutation: a refused token is kept, registration waits for ""
  /\ token[p] = None
  /\ attempts < RegLimit /\ attempts' = attempts + 1
  /\ Update(p) \/ ReKey(p) \/ Insert(p)
  /\ UNCHANGED <<tombs, id, name, renames, deletes, lost>>

Register(p) ==
  /\ ~Known(p)
  /\ attempts < RegLimit /\ attempts' = attempts + 1
  /\ Update(p) \/ ReKey(p) \/ Insert(p)
  /\ UNCHANGED <<tombs, id, name, renames, deletes, lost>>

(* 30 minutes are over.                                                       *)
WindowEnds ==
  /\ attempts > 0 /\ attempts' = 0
  /\ UNCHANGED <<row, data, tombs, agents, issued, bounds>>

-----------------------------------------------------------------------------
(* An agent with a valid token reports: what comes in is written under the    *)
(* row of the token.  Insights are written by the server, about that row.     *)
Report(p) ==
  /\ \/ history' = history \cup Opens(p) /\ UNCHANGED <<serviceRows, insights>>
     \/ serviceRows' = serviceRows \cup Opens(p) /\ UNCHANGED <<history, insights>>
     \/ insights' = insights \cup Opens(p) /\ UNCHANGED <<history, serviceRows>>
  /\ UNCHANGED <<row, tombs, agents, attempts, issued, bounds>>

(* DELETE /api/machines/:id: deleteMachine, with what cascades; service_status *)
(* does not.                                                               *)
Delete(i) ==
  /\ Exists(i)
  /\ deletes < MaxDeletes /\ deletes' = deletes + 1
  /\ row' = [row EXCEPT ![i] = NoRow]
  /\ history' = history \ {i} /\ insights' = insights \ {i}
  /\ tombs' = tombs \cup {i}
  /\ UNCHANGED <<serviceRows, agents, attempts, issued, renames, lost, fails>>

TombExpires(i) ==
  /\ i \in tombs /\ tombs' = tombs \ {i}
  /\ UNCHANGED <<row, data, agents, attempts, issued, bounds>>

-----------------------------------------------------------------------------
(* config.json is lost or made anew: a new id.                               *)
LoseConfig(p) ==
  /\ lost < MaxLost /\ lost' = lost + 1
  /\ \E i \in Id : /\ ~Exists(i) /\ \A q \in PC : id[q] # i
                   /\ id' = [id EXCEPT ![p] = i]
  /\ token' = [token EXCEPT ![p] = None]
  /\ UNCHANGED <<row, data, tombs, name, attempts, issued, renames, deletes, fails>>

(* A computer gets a name that no other has.  An agent with a token does not   *)
(* register, and the server takes no name from a heartbeat.                   *)
Rename(p) ==
  /\ renames < MaxRenames /\ renames' = renames + 1
  /\ \E h \in Host : (\A q \in PC : name[q] # h) /\ name' = [name EXCEPT ![p] = h]
  /\ UNCHANGED <<row, data, tombs, id, token, attempts, issued, deletes, lost, fails>>

Next ==
  \/ \E p \in PC : Register(p) \/ LoseConfig(p) \/ Rename(p) \/ Report(p)
  \/ \E i \in Id : Delete(i) \/ TombExpires(i)
  \/ WindowEnds

Spec == Init /\ [][Next]_vars

(* Heartbeats go on and their answers arrive in the end; time passes.         *)
Fairness == WF_vars(\E p \in PC : Register(p)) /\ WF_vars(WindowEnds)

FairSpec == Spec /\ Fairness

-----------------------------------------------------------------------------
(* Re-keying with foreign keys switched off and removing a machine leave no    *)
(* history without its machine behind, in the tables of the list that cascade; *)
(* and as long as no machine is removed in the dashboard, which forgets         *)
(* service_status, none in service_status either, although nothing but the     *)
(* re-keying itself keeps that table in order.                               *)
NoOrphans ==
  /\ \A i \in history : Exists(i)
  /\ deletes = 0 => \A i \in serviceRows : Exists(i)

(* An agent whose token is refused, for whatever was removed, renamed, lost    *)
(* or limited, has a row again in the end, and stands in the dashboard.       *)
AgentReturns == \A p \in PC : ~Known(p) ~> (Known(p) \/ issued = MaxTokens)

=============================================================================
