------------------------------ MODULE FleetView ------------------------------
(***************************************************************************)
(* The list of machines in an open dashboard (hooks/useMachines.js,            *)
(* useWebSocket.js) and the table it shows.  Three things write the list: the   *)
(* answers of GET /machines, asked for every 30 seconds, at every connection    *)
(* of the socket and whenever a message names an unknown machine; the messages *)
(* of the socket; and the answers to the operator's own changes.  Answers of   *)
(* different requests come in any order, messages in the order in which they   *)
(* were sent, and those of a closed socket are lost.                          *)
(***************************************************************************)
EXTENDS Naturals, Sequences, FiniteSets

CONSTANTS Dash, Machine,
          Group,       \* groups of the operator
          MaxChanges,  \* bound: what happens at the server and in the network
          MaxLists     \* bound: GETs of a dashboard under way

Temporary == "Temporario"  \* the group of a new machine, and of one without a group
Nowhere   == ""
Gone      == [status |-> "gone", place |-> Nowhere]  \* no row

List   == [Machine -> [status : {"online", "offline"}, place : Group \cup {Temporary, Nowhere}]
                        \cup {Gone}]
NoEdit == [kind |-> "none"]
Edit   == [kind : {"move"}, machine : Machine, to : Group] \cup
          [kind : {"delete"}, machine : Machine] \cup
          [kind : {"dissolve"}, group : Group]

VARIABLES
  row,      \* machines
  view,     \* by dashboard: its list
  open,     \* dashboards whose socket is open
  wire,     \* by dashboard: messages on their way
  asked,    \* by dashboard: GETs that the server has not read yet
  answers,  \* by dashboard: lists on their way back
  edit,     \* by dashboard: a change on its way to the server
  done,     \* by dashboard: a change whose answer is on its way back
  changes

screen == <<view, open, wire>>
lists  == <<asked, answers>>
edits  == <<edit, done>>
vars   == <<row, screen, lists, edits, changes>>

TypeOK ==
  /\ row \in List
  /\ view \in [Dash -> List]
  /\ open \subseteq Dash
  /\ \A d \in Dash : \A i \in DOMAIN wire[d] :
       wire[d][i] \in [type : {"update", "offline"}, machine : Machine, status : {"online", "offline"}]
  /\ asked \in [Dash -> 0..MaxLists]
  /\ answers \in [Dash -> SUBSET List]
  /\ edit \in [Dash -> Edit \cup {NoEdit}] /\ done \in [Dash -> Edit \cup {NoEdit}]
  /\ changes \in 0..MaxChanges

Init ==
  /\ row \in [Machine -> {[status |-> s, place |-> p] : s \in {"online", "offline"}, p \in Group}]
  /\ view = [d \in Dash |-> [m \in Machine |-> Gone]]
  /\ open = {} /\ wire = [d \in Dash |-> <<>>]
  /\ asked = [d \in Dash |-> 0] /\ answers = [d \in Dash |-> {}]
  /\ edit = [d \in Dash |-> NoEdit] /\ done = [d \in Dash |-> NoEdit]
  /\ changes = 0

Happens == changes < MaxChanges /\ changes' = changes + 1

Is(m, status, rows) == rows[m].status = status

(* broadcast: to every socket that is open.                                   *)
Broadcast(type, m, status) ==
  wire' = [d \in Dash |->
             IF d \in open THEN Append(wire[d], [type |-> type, machine |-> m, status |-> status])
             ELSE wire[d]]

(* Register of a machine without a row, or the heartbeat of one.               *)
Appears(m) ==
  /\ Happens /\ ~Is(m, "online", row)
  /\ row' = [row EXCEPT ![m] = [status |-> "online",
                                 place |-> IF row[m] = Gone THEN Temporary ELSE row[m].place]]
  /\ Broadcast("update", m, "online")
  /\ UNCHANGED <<view, open, lists, edits>>

(* checkOffline                                                              *)
Vanishes(m) ==
  /\ Happens /\ Is(m, "online", row)
  /\ row' = [row EXCEPT ![m].status = "offline"]
  /\ Broadcast("offline", m, "offline")
  /\ UNCHANGED <<view, open, lists, edits>>

(* wolMachine: another machine of the group that the list shows online gets    *)
(* the command; handleWolSetup tells all dashboards about the target.          *)
Wake(d, m) ==
  /\ Happens /\ Is(m, "offline", view[d]) /\ row[m] # Gone
  /\ \E relay \in Machine \ {m} :
       Is(relay, "online", view[d]) /\ view[d][relay].place = view[d][m].place /\ row[relay] # Gone
  /\ Broadcast("update", m, row[m].status)
  /\ UNCHANGED <<row, view, open, lists, edits>>

Busy(d)     == asked[d] + Cardinality(answers[d])
FetchAll(d) == asked' = [asked EXCEPT ![d] = @ + 1]

(* setInterval(fetchAll, 30000), and when the component mounts.                *)
Refresh(d) ==
  /\ Busy(d) < MaxLists /\ FetchAll(d)
  /\ UNCHANGED <<row, screen, answers, edits, changes>>

(* connect of useWebSocket, at once and 5 s after every close.                 *)
Connect(d) ==
  /\ d \notin open /\ Busy(d) < MaxLists
  /\ open' = open \cup {d} /\ FetchAll(d)
  /\ UNCHANGED <<row, view, wire, answers, edits, changes>>

Close(d) ==
  /\ Happens /\ d \in open
  /\ open' = open \ {d} /\ wire' = [wire EXCEPT ![d] = <<>>]
  /\ UNCHANGED <<row, view, lists, edits>>

(* GET /machines                                                             *)
ServeList(d) ==
  /\ asked[d] > 0
  /\ asked' = [asked EXCEPT ![d] = @ - 1] /\ answers' = [answers EXCEPT ![d] = @ \cup {row}]
  /\ UNCHANGED <<row, screen, edits, changes>>

ListFails(d) ==
  /\ Happens /\ asked[d] > 0
  /\ asked' = [asked EXCEPT ![d] = @ - 1]
  /\ UNCHANGED <<row, screen, answers, edits>>

(* Bug: setMachines(prev => prev.map(...)), which adds and removes none.       *)
MutShown(d, rows) == [m \in Machine |-> IF view[d][m] = Gone THEN Gone ELSE rows[m]]

(* setMachines(list)                                                         *)
Shown(d, rows) == rows

ListArrives(d, rows) ==
  /\ rows \in answers[d]
  /\ view' = [view EXCEPT ![d] = Shown(d, rows)]
  /\ answers' = [answers EXCEPT ![d] = @ \ {rows}]
  /\ UNCHANGED <<row, open, wire, asked, edits, changes>>

Received(d) == wire' = [wire EXCEPT ![d] = Tail(@)]

(* 'machine:update' of a machine of the list: whatever status the message has. *)
Update(d) ==
  /\ wire[d] # <<>> /\ Head(wire[d]).type = "update" /\ Received(d)
  /\ view[d][Head(wire[d]).machine] # Gone
  /\ view' = [view EXCEPT ![d][Head(wire[d]).machine].status = "online"]
  /\ UNCHANGED <<row, open, lists, edits, changes>>

(* 'machine:update' of another machine: fetchAll.                              *)
UnknownUpdate(d) ==
  /\ wire[d] # <<>> /\ Head(wire[d]).type = "update" /\ Received(d)
  /\ view[d][Head(wire[d]).machine] = Gone
  /\ Busy(d) < MaxLists /\ FetchAll(d)
  /\ UNCHANGED <<row, view, open, answers, edits, changes>>

(* 'machine:offline'                                                         *)
Offline(d) ==
  /\ wire[d] # <<>> /\ Head(wire[d]).type = "offline" /\ Received(d)
  /\ LET m == Head(wire[d]).machine IN
       view' = IF view[d][m] = Gone THEN view ELSE [view EXCEPT ![d][m].status = "offline"]
  /\ UNCHANGED <<row, open, lists, edits, changes>>

(* What a change does to a list: the server leaves the machines of a dissolved *)
(* group without one, the dashboard shows them as 'Temporário'.               *)
Changed(e, rows, left) ==
  CASE e.kind = "move" ->
         IF rows[e.machine] = Gone THEN rows ELSE [rows EXCEPT ![e.machine].place = e.to]
    [] e.kind = "delete" -> [rows EXCEPT ![e.machine] = Gone]
    [] OTHER ->
         [m \in Machine |-> IF rows[m] # Gone /\ rows[m].place = e.group
                            THEN [rows[m] EXCEPT !.place = left] ELSE rows[m]]

(* moveMachineToGroup, deleteMachine, deleteGroup: the request is sent.         *)
SendEdit(d, e) ==
  /\ Happens /\ edit[d] = NoEdit /\ done[d] = NoEdit
  /\ "machine" \in DOMAIN e => view[d][e.machine] # Gone
  /\ edit' = [edit EXCEPT ![d] = e]
  /\ UNCHANGED <<row, screen, lists, done>>

(* PUT, DELETE /machines/:id (404 without a row), DELETE /groups/:name.        *)
ServeEdit(d) ==
  /\ edit[d] # NoEdit
  /\ LET found == "machine" \in DOMAIN edit[d] => row[edit[d].machine] # Gone IN
       /\ row' = IF found THEN Changed(edit[d], row, Nowhere) ELSE row
       /\ done' = IF found THEN [done EXCEPT ![d] = edit[d]] ELSE done
  /\ edit' = [edit EXCEPT ![d] = NoEdit]
  /\ UNCHANGED <<screen, lists, changes>>

(* The answer: the list is changed without asking for it again.                *)
EditDone(d) ==
  /\ done[d] # NoEdit
  /\ view' = [view EXCEPT ![d] = Changed(done[d], @, Temporary)]
  /\ done' = [done EXCEPT ![d] = NoEdit]
  /\ UNCHANGED <<row, open, wire, lists, edit, changes>>

EditLost(d) ==
  /\ Happens /\ done[d] # NoEdit
  /\ done' = [done EXCEPT ![d] = NoEdit]
  /\ UNCHANGED <<row, screen, lists, edit>>

Receive(d) == Update(d) \/ UnknownUpdate(d) \/ Offline(d)

Next ==
  \/ \E m \in Machine : Appears(m) \/ Vanishes(m)
  \/ \E d \in Dash :
       \/ \E m \in Machine : Wake(d, m)
       \/ Refresh(d) \/ Connect(d) \/ Close(d) \/ ServeList(d) \/ ListFails(d)
       \/ \E rows \in answers[d] : ListArrives(d, rows)
       \/ Receive(d)
       \/ \E e \in Edit : SendEdit(d, e)
       \/ ServeEdit(d) \/ EditDone(d) \/ EditLost(d)

Spec == Init /\ [][Next]_vars

(* The timers run, and what is on its way arrives: faults are among `changes'. *)
Fairness ==
  \A d \in Dash :
    /\ WF_vars(Refresh(d)) /\ WF_vars(ServeList(d)) /\ WF_vars(Receive(d))
    /\ WF_vars(\E rows \in answers[d] : ListArrives(d, rows))
    /\ WF_vars(ServeEdit(d)) /\ WF_vars(EditDone(d))

FairSpec == Spec /\ Fairness

-----------------------------------------------------------------------------
(* When the changes end, every dashboard shows the machines as they are: what  *)
(* a late list, a lost message or an answer out of order made wrong is put     *)
(* right by a later list.                                                    *)
ViewCatchesUp == \A d \in Dash : <>[](view[d] = row)

=============================================================================
