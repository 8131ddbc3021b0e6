---------------------------- MODULE RemoteClockIn ----------------------------
(***************************************************************************)
(* Ponto remoto: the page on the employees' phones (ponto-remoto-web/index    *)
(* .html), the routes and sessions (routes/pontoRemoto.js, middleware/         *)
(* employeeAuth.js, the remote_* tables).  A phone goes from hand to hand and   *)
(* may have the page open several times; all of its pages send one cookie.     *)
(*                                                                         *)
(* The handlers are synchronous; what takes time is the position of the phone *)
(* (8 s, or as long as it takes to allow it) and the clock-in on its way.  The *)
(* other requests are one step with their answers, which may be lost.  Left    *)
(* out: where the phone is (within_geofence is stored, nothing depends on it),*)
(* the type of an entry, which is that of the button, the limit on failed      *)
(* logins, which only refuses some, and the list of the administrator's panel. *)
(***************************************************************************)
EXTENDS Integers, Sequences

CONSTANTS Employee, Phone, Page,
          MaxEntries  \* bound: clock-ins in remote_time_entries

Nobody == "nobody"

VARIABLES
  active,   \* remote_employees with active = 1
  entry,    \* remote_time_entries: the employee; history, whose clock-in it may be
  valid,    \* remote_sessions that have not expired, by phone and employee
  cookie,   \* the employee whose cookie a phone holds
  page      \* name: the one shown, or the login card; pressed: a clock-in is under way;
            \* sent: its cookie; among: history, the one whose name the page shows, or
            \* showed when the button was pressed, and those who logged in on the phone since

server == <<active, entry, valid>>
vars   == <<server, cookie, page>>

Someone == Employee \cup {Nobody}
Closed  == [name |-> Nobody, pressed |-> FALSE, sent |-> Nobody, among |-> {}]

TypeOK ==
  /\ active \subseteq Employee
  /\ Len(entry) <= MaxEntries + 1
  /\ valid \subseteq Phone \X Employee
  /\ cookie \in [Phone -> Someone]
  /\ page \in [Phone \X Page ->
                [name : Someone, pressed : BOOLEAN, sent : Someone, among : SUBSET Employee]]

Init ==
  /\ active \in SUBSET Employee
  /\ entry = <<>> /\ valid = {}
  /\ cookie = [p \in Phone |-> Nobody]
  /\ page = [g \in Phone \X Page |-> Closed]

\* Without a name and without a press nothing is remembered.
Tidy(g) == IF g.name = Nobody /\ ~g.pressed THEN Closed ELSE g

Becomes(g, new) == page' = [page EXCEPT ![g] = Tidy(new)]

-----------------------------------------------------------------------------
(* Bug: a phone with a session keeps it, whoever logs in.                      *)
MutKeepsSession(p, e) ==
  IF cookie[p] # Nobody THEN cookie ELSE [cookie EXCEPT ![p] = e]

(* issueSessionCookie                                                       *)
NewCookie(p, e) == [cookie EXCEPT ![p] = e]

(* What the pages of a phone hold when e has logged in on one of them.         *)
SeesLogin(g, t, e) ==
  Tidy(IF g[2] = t
         THEN [page[g] EXCEPT !.name = e,
                 !.among = IF page[g].pressed THEN @ \cup {e} ELSE {e}]
         ELSE [page[g] EXCEPT !.among = @ \cup {e}])

(* POST /login of somebody who is active.  If the answer is lost a session stays *)
(* that nobody uses.                                                          *)
Login(p, t, e) ==
  /\ page[<<p, t>>].name = Nobody
  /\ e \in active
  /\ valid' = valid \cup {<<p, e>>}
  /\ \/ /\ cookie' = NewCookie(p, e)
        /\ page' = [g \in Phone \X Page |-> IF g[1] = p THEN SeesLogin(g, t, e) ELSE page[g]]
     \/ UNCHANGED <<cookie, page>>
  /\ UNCHANGED <<active, entry>>

(* employeeAuth.                                                            *)
Authentic(p, e) == <<p, e>> \in valid /\ e \in active

(* The login card comes back whether or not POST /logout was heard; a position *)
(* that is being looked for is not given up.                                  *)
Logout(p, t) ==
  /\ page[<<p, t>>].name # Nobody
  /\ Becomes(<<p, t>>, [page[<<p, t>>] EXCEPT !.name = Nobody])
  /\ \/ /\ Authentic(p, cookie[p])
        /\ valid' = valid \ {<<p, cookie[p]>>}
        /\ cookie' = [cookie EXCEPT ![p] = Nobody]
     \/ UNCHANGED <<valid, cookie>>
  /\ UNCHANGED <<active, entry>>

(* The page is opened again: GET /me finds the session, or asks to log in.     *)
OpenPage(p, t) ==
  /\ page' = [page EXCEPT ![<<p, t>>] =
                IF Authentic(p, cookie[p])
                THEN [Closed EXCEPT !.name = cookie[p], !.among = {cookie[p]}] ELSE Closed]
  /\ UNCHANGED <<server, cookie>>

(* The button is pressed: the page looks for the position.                    *)
Press(g) ==
  /\ page[g].name # Nobody /\ ~page[g].pressed
  /\ page' = [page EXCEPT ![g].pressed = TRUE]
  /\ UNCHANGED <<server, cookie>>

(* POST /clock goes out, with the cookie of now.                              *)
Send(g) ==
  /\ page[g].pressed /\ page[g].sent = Nobody /\ cookie[g[1]] # Nobody
  /\ page' = [page EXCEPT ![g].sent = cookie[g[1]]]
  /\ UNCHANGED <<server, cookie>>

Released(g) == Becomes(g, [page[g] EXCEPT !.pressed = FALSE, !.sent = Nobody])

(* The entry is that of the session; the page is told, or sees an error because *)
(* the answer is lost, and the button can be pressed again.                    *)
ClockIn(g) ==
  /\ page[g].sent # Nobody /\ Authentic(g[1], page[g].sent)
  /\ Len(entry) < MaxEntries
  /\ entry' = Append(entry, [who |-> page[g].sent, among |-> page[g].among])
  /\ Released(g)
  /\ UNCHANGED <<active, valid, cookie>>

(* No cookie, 401, or the request never arrives.                              *)
ClockInFails(g) ==
  /\ page[g].pressed
  /\ Released(g)
  /\ UNCHANGED <<server, cookie>>

(* SESSION_TTL_MS.                                                          *)
SessionExpires(p, e) ==
  /\ <<p, e>> \in valid /\ valid' = valid \ {<<p, e>>}
  /\ UNCHANGED <<active, entry, cookie, page>>

-----------------------------------------------------------------------------
(* The administrator: POST /admin/employees, PATCH /admin/employees/:id, and a  *)
(* correction, a row of its own for the employee of the row it corrects,      *)
(* whether or not that employee is active.                                   *)
SetActive(e) ==
  /\ active' \in {active \cup {e}, active \ {e}}
  /\ UNCHANGED <<entry, valid, cookie, page>>

Correct(row) ==
  /\ row \in DOMAIN entry /\ Len(entry) <= MaxEntries
  /\ entry' = Append(entry, entry[row])
  /\ UNCHANGED <<active, valid, cookie, page>>

Next ==
  \/ \E p \in Phone, t \in Page :
       \/ Logout(p, t) \/ OpenPage(p, t)
       \/ \E e \in Employee : Login(p, t, e)
  \/ \E g \in Phone \X Page : Press(g) \/ Send(g) \/ ClockIn(g) \/ ClockInFails(g)
  \/ \E p \in Phone, e \in Employee : SessionExpires(p, e)
  \/ \E e \in Employee : SetActive(e)
  \/ \E row \in 1..(MaxEntries + 1) : Correct(row)

Spec == Init /\ [][Next]_vars

-----------------------------------------------------------------------------
(* An entry is that of the person whose name the page showed when the button    *)
(* was pressed, over lost logouts and logins, pages left open, expired and      *)
(* revoked sessions, and positions that come late.  It may be another's only    *)
(* if that other logged in on the same phone in the meantime: the clock-in      *)
(* takes the cookie of when it is sent, not of when the button was pressed.     *)
EntryIsOfItsPresser ==
  \A n \in DOMAIN entry : entry[n].who \in entry[n].among

=============================================================================
