------------------------------ MODULE ClockProofs ------------------------------
(***************************************************************************)
(* What the clocks and the clock-in promise (the parts "roster", "scan" and*)
(* "entry" of OfficeParts), for any number of clocks, people, removals and *)
(* jobs.                                                                   *)
(***************************************************************************)
EXTENDS OfficeParts, SequenceTheorems, TLAPS

-----------------------------------------------------------------------------
(* ClockRoster: a clock that reported a person gone has them no more, unless   *)
(* the removal is doubtful; a row says "ok" only of a loop that is over.       *)

RemovalRecord == [who : Person, left : SUBSET RosterClock, gone : SUBSET RosterClock,
                  loop : {"unused", "running", "over"}, waits : BOOLEAN]

EnrolRecord == [who : Person, left : SUBSET RosterClock,
                state : {"unused", "running", "done", "lost"}]

JobsTyped == job \in [EnrolJob -> EnrolRecord]

RosterTyped ==
  /\ roster \in [RosterClock -> SUBSET Person]
  /\ offboard \in [Removal -> RemovalRecord]
  /\ rosterRow \in [Removal -> {"none", "ok", "partial", "error"}]

GoneIsGone ==
  \A r \in Removal \ doubtful : \A c \in offboard[r].gone : offboard[r].who \notin roster[c]

VisitedOnce == \A r \in Removal : offboard[r].gone \cap offboard[r].left = {}

OkIsOver ==
  \A r \in Removal : rosterRow[r] = "ok" =>
    offboard[r].loop = "over" /\ offboard[r].gone = RosterClock

RosterInv == JobsTyped /\ RosterTyped /\ GoneIsGone /\ VisitedOnce /\ OkIsOver

LEMMA RosterMoves == [Moves]_all => [Roster!Next]_rosterVars
<1>1. Moves => [Roster!Next]_rosterVars
  BY DEF Moves, Only
<1>2. UNCHANGED all => UNCHANGED rosterVars
  BY DEF all
<1> QED BY <1>1, <1>2

LEMMA RosterStarts == Roster!Init => RosterInv
<1> SUFFICES ASSUME Roster!Init PROVE RosterInv
  OBVIOUS
<1> DEFINE somebody == CHOOSE q \in Person : TRUE
<1>1. somebody \in Person
  BY OfficeAssumption
<1> HIDE DEF somebody
<1>2. offboard = [r \in Removal |-> [who |-> somebody, left |-> {}, gone |-> {},
                                     loop |-> "unused", waits |-> FALSE]]
  BY DEF Roster!Init, somebody
<1>3. /\ roster \in [RosterClock -> SUBSET Person]
      /\ rosterRow = [r \in Removal |-> "none"]
  BY DEF Roster!Init
<1>4. RosterTyped
  BY <1>1, <1>2, <1>3 DEF RosterTyped, RemovalRecord
<1>5. \A r \in Removal : offboard[r].gone = {} /\ rosterRow[r] = "none"
  BY <1>2, <1>3
<1>6. job = [j \in EnrolJob |-> [who |-> somebody, left |-> {}, state |-> "unused"]]
  BY DEF Roster!Init, somebody
<1>7. JobsTyped
  BY <1>1, <1>6 DEF JobsTyped, EnrolRecord
<1> QED BY <1>4, <1>5, <1>7 DEF RosterInv, GoneIsGone, VisitedOnce, OkIsOver

(* A clock only loses people here: whoever was gone from a clock stays gone.   *)
LEMMA RosterShrinks ==
  ASSUME RosterInv, NEW c \in RosterClock, NEW out,
         roster' = [roster EXCEPT ![c] = @ \ out]
  PROVE  /\ roster' \in [RosterClock -> SUBSET Person]
         /\ \A d \in RosterClock : roster'[d] \subseteq roster[d]
         /\ roster'[c] = roster[c] \ out
  BY DEF RosterInv, RosterTyped

LEMMA RosterStep == RosterInv /\ [Roster!Next]_rosterVars => RosterInv'
<1> SUFFICES ASSUME RosterInv, [Roster!Next]_rosterVars PROVE RosterInv'
  OBVIOUS
<1> USE DEF RosterInv, JobsTyped, Roster!removal, Roster!enrol, Roster!bounds
<1>0. \A r \in Removal : offboard[r] \in RemovalRecord
  BY DEF RosterTyped
<1>1. ASSUME UNCHANGED <<roster, offboard, rosterRow, doubtful>>, JobsTyped' PROVE RosterInv'
  BY <1>1 DEF RosterTyped, GoneIsGone, VisitedOnce, OkIsOver
<1>2. ASSUME NEW r \in Removal, NEW q \in Person, Roster!Remove(r, q) PROVE RosterInv'
  <2> DEFINE new == [who |-> q, left |-> RosterClock, gone |-> {}, loop |-> "running",
                     waits |-> TRUE]
  <2>1. /\ offboard[r].loop = "unused" /\ offboard' = [offboard EXCEPT ![r] = new]
        /\ UNCHANGED <<roster, rosterRow, doubtful, job>>
    BY <1>2 DEF Roster!Remove
  <2>2. new \in RemovalRecord /\ new.gone = {}
    BY DEF RemovalRecord
  <2> HIDE DEF new
  <2>3. offboard'[r] = new /\ \A s \in Removal : s # r => offboard'[s] = offboard[s]
    BY <2>1 DEF RosterTyped
  <2>4. RosterTyped'
    BY <2>1, <2>2 DEF RosterTyped
  <2>5. GoneIsGone' /\ VisitedOnce'
    BY <2>1, <2>2, <2>3 DEF GoneIsGone, VisitedOnce
  <2>6. OkIsOver'
    BY <2>1, <2>3 DEF OkIsOver
  <2> QED BY <2>1, <2>4, <2>5, <2>6
<1>3. ASSUME NEW r \in Removal, NEW c \in RosterClock, Roster!RemoveAtClock(r, c)
      PROVE  RosterInv'
  <2> DEFINE new == [offboard[r] EXCEPT !.left = @ \ {c}, !.gone = @ \cup {c}]
  <2>1. /\ offboard[r].loop = "running" /\ c \in offboard[r].left
        /\ roster' = [roster EXCEPT ![c] = @ \ {offboard[r].who}]
        /\ offboard' = [offboard EXCEPT ![r] = new]
        /\ UNCHANGED <<rosterRow, doubtful, job>>
    BY <1>3 DEF Roster!RemoveAtClock, Roster!Visits, Roster!Deleted, RosterTyped
  <2>2. /\ new \in RemovalRecord /\ new.left = offboard[r].left \ {c}
        /\ new.gone = offboard[r].gone \cup {c} /\ new.who = offboard[r].who
        /\ new.loop = offboard[r].loop
    BY <1>0 DEF RemovalRecord
  <2> HIDE DEF new
  <2>3. offboard'[r] = new /\ \A s \in Removal : s # r => offboard'[s] = offboard[s]
    BY <2>1 DEF RosterTyped
  <2>4. /\ roster' \in [RosterClock -> SUBSET Person]
        /\ \A d \in RosterClock : roster'[d] \subseteq roster[d]
        /\ roster'[c] = roster[c] \ {offboard[r].who}
    BY <2>1, RosterShrinks
  <2>5. RosterTyped'
    BY <2>1, <2>2, <2>4 DEF RosterTyped
  <2>6. \A s \in Removal : offboard[s].gone \subseteq RosterClock
    BY <1>0 DEF RemovalRecord
  <2>7. GoneIsGone'
    BY <2>1, <2>2, <2>3, <2>4, <2>6 DEF GoneIsGone
  <2>8. VisitedOnce' /\ OkIsOver'
    BY <2>1, <2>2, <2>3 DEF VisitedOnce, OkIsOver
  <2> QED BY <2>1, <2>5, <2>7, <2>8
<1>4. ASSUME NEW r \in Removal, NEW c \in RosterClock, Roster!RemoveFails(r, c)
      PROVE  RosterInv'
  <2> DEFINE new == [offboard[r] EXCEPT !.left = @ \ {c}]
  <2>1. PICK out \in SUBSET {offboard[r].who} : roster' = [roster EXCEPT ![c] = @ \ out]
    BY <1>4 DEF Roster!RemoveFails, Roster!Attempted
  <2>2. /\ offboard' = [offboard EXCEPT ![r] = new] /\ UNCHANGED <<rosterRow, doubtful, job>>
        /\ offboard[r].loop = "running"
    BY <1>4 DEF Roster!RemoveFails, Roster!Visits, RosterTyped
  <2>3. /\ new \in RemovalRecord /\ new.left = offboard[r].left \ {c}
        /\ new.gone = offboard[r].gone /\ new.who = offboard[r].who
        /\ new.loop = offboard[r].loop
    BY <1>0 DEF RemovalRecord
  <2> HIDE DEF new
  <2>4. offboard'[r] = new /\ \A s \in Removal : s # r => offboard'[s] = offboard[s]
    BY <2>2 DEF RosterTyped
  <2>5. /\ roster' \in [RosterClock -> SUBSET Person]
        /\ \A d \in RosterClock : roster'[d] \subseteq roster[d]
    BY <2>1, RosterShrinks
  <2>6. RosterTyped'
    BY <2>2, <2>3, <2>5 DEF RosterTyped
  <2>7. \A s \in Removal : offboard[s].gone \subseteq RosterClock
    BY <1>0 DEF RemovalRecord
  <2>8. GoneIsGone'
    BY <2>2, <2>3, <2>4, <2>5, <2>7 DEF GoneIsGone
  <2>9. VisitedOnce' /\ OkIsOver'
    BY <2>2, <2>3, <2>4 DEF VisitedOnce, OkIsOver
  <2> QED BY <2>2, <2>6, <2>8, <2>9
<1>5. ASSUME NEW r \in Removal, NEW c \in RosterClock, Roster!Misread(r, c) PROVE RosterInv'
  <2> DEFINE new == [offboard[r] EXCEPT !.left = @ \ {c}, !.gone = @ \cup {c}]
  <2>1. /\ offboard[r].loop = "running" /\ c \in offboard[r].left
        /\ offboard' = [offboard EXCEPT ![r] = new]
        /\ doubtful' = doubtful \cup {r} /\ UNCHANGED <<roster, rosterRow, job>>
    BY <1>5 DEF Roster!Misread, Roster!Visits, RosterTyped
  <2>2. /\ new \in RemovalRecord /\ new.left = offboard[r].left \ {c}
        /\ new.gone = offboard[r].gone \cup {c} /\ new.loop = offboard[r].loop
    BY <1>0 DEF RemovalRecord
  <2> HIDE DEF new
  <2>3. offboard'[r] = new /\ \A s \in Removal : s # r => offboard'[s] = offboard[s]
    BY <2>1 DEF RosterTyped
  <2>4. RosterTyped'
    BY <2>1, <2>2 DEF RosterTyped
  <2>5. GoneIsGone'
    BY <2>1, <2>3 DEF GoneIsGone
  <2>6. VisitedOnce' /\ OkIsOver'
    BY <2>1, <2>2, <2>3 DEF VisitedOnce, OkIsOver
  <2> QED BY <2>1, <2>4, <2>5, <2>6
\* The record changes in nothing but its loop and who waits.
<1>6. ASSUME UNCHANGED <<roster, doubtful>>, JobsTyped', offboard' \in [Removal -> RemovalRecord],
             rosterRow' \in [Removal -> {"none", "ok", "partial", "error"}],
             \A r \in Removal : /\ offboard'[r].who = offboard[r].who
                                /\ offboard'[r].left = offboard[r].left
                                /\ offboard'[r].gone = offboard[r].gone,
             OkIsOver'
      PROVE  RosterInv'
  BY <1>6 DEF RosterTyped, GoneIsGone, VisitedOnce
<1>7. ASSUME NEW r \in Removal, Roster!Answer(r) PROVE RosterInv'
  <2> DEFINE new == [offboard[r] EXCEPT !.loop = "over", !.waits = FALSE]
  <2>1. /\ offboard' = [offboard EXCEPT ![r] = new] /\ UNCHANGED <<roster, doubtful, job>>
        /\ rosterRow' = [rosterRow EXCEPT ![r] = IF offboard[r].waits THEN Roster!Verdict(r) ELSE @]
        /\ offboard[r].loop = "running"
    BY <1>7 DEF Roster!Answer, Roster!LogOffboard, RosterTyped
  <2>2. /\ new \in RemovalRecord /\ new.left = offboard[r].left /\ new.loop = "over"
        /\ new.gone = offboard[r].gone /\ new.who = offboard[r].who
    BY <1>0 DEF RemovalRecord
  <2> HIDE DEF new
  <2>3. offboard'[r] = new /\ \A s \in Removal : s # r => offboard'[s] = offboard[s]
    BY <2>1 DEF RosterTyped
  <2>4. /\ rosterRow' \in [Removal -> {"none", "ok", "partial", "error"}]
        /\ \A s \in Removal : s # r => rosterRow'[s] = rosterRow[s]
        /\ rosterRow'[r] = "ok" => offboard[r].gone = RosterClock
    BY <2>1 DEF RosterTyped, Roster!Verdict, OkIsOver
  <2>5. offboard' \in [Removal -> RemovalRecord]
    BY <2>1, <2>2 DEF RosterTyped
  <2>6. OkIsOver'
    BY <2>2, <2>3, <2>4 DEF OkIsOver
  <2> QED BY <1>6, <2>1, <2>2, <2>3, <2>4, <2>5, <2>6
<1>8. ASSUME NEW r \in Removal, Roster!GiveUp(r) PROVE RosterInv'
  <2> DEFINE new == [offboard[r] EXCEPT !.waits = FALSE]
  <2>1. /\ offboard' = [offboard EXCEPT ![r] = new] /\ UNCHANGED <<roster, doubtful, job>>
        /\ rosterRow' = [rosterRow EXCEPT ![r] = "error"]
    BY <1>8 DEF Roster!GiveUp, RosterTyped
  <2>2. /\ new \in RemovalRecord /\ new.left = offboard[r].left
        /\ new.gone = offboard[r].gone /\ new.who = offboard[r].who
    BY <1>0 DEF RemovalRecord
  <2> HIDE DEF new
  <2>3. offboard'[r] = new /\ \A s \in Removal : s # r => offboard'[s] = offboard[s]
    BY <2>1 DEF RosterTyped
  <2>4. /\ rosterRow' \in [Removal -> {"none", "ok", "partial", "error"}]
        /\ \A s \in Removal : s # r => rosterRow'[s] = rosterRow[s]
        /\ rosterRow'[r] = "error"
    BY <2>1 DEF RosterTyped
  <2>5. offboard' \in [Removal -> RemovalRecord]
    BY <2>1, <2>2 DEF RosterTyped
  <2>6. OkIsOver'
    BY <2>3, <2>4 DEF OkIsOver
  <2> QED BY <1>6, <2>1, <2>2, <2>3, <2>4, <2>5, <2>6
<1>9. ASSUME NEW j \in EnrolJob, NEW c \in RosterClock, Roster!EnrollAtClock(j, c)
      PROVE  RosterInv'
  <2>1. UNCHANGED <<offboard, rosterRow>>
    BY <1>9 DEF Roster!EnrollAtClock
  <2> DEFINE new == [job[j] EXCEPT !.left = @ \ {c},
                                   !.state = IF job[j].left = {c} THEN "done" ELSE @]
  <2>4. new \in EnrolRecord
    BY DEF EnrolRecord
  <2>5. job' = [job EXCEPT ![j] = new]
    BY <1>9 DEF Roster!EnrollAtClock
  <2> HIDE DEF new
  <2>6. JobsTyped'
    BY <2>4, <2>5
  <2>2. CASE UNCHANGED <<roster, doubtful>>
    BY <1>1, <2>1, <2>2, <2>6
  <2>3. CASE Roster!Enrolled(c, job[j].who)
    <3> DEFINE q == job[j].who
    <3>1. /\ roster' = [roster EXCEPT ![c] = @ \cup {q}]
          /\ doubtful' = doubtful \cup
               {r \in Removal : offboard[r].who = q /\ c \notin offboard[r].left}
      BY <2>3 DEF Roster!Enrolled
    <3>2. q \in Person
      BY DEF EnrolRecord
    <3> HIDE DEF q
    <3>3. RosterTyped'
      BY <2>1, <3>1, <3>2 DEF RosterTyped
    <3>4. \A r \in Removal : offboard[r].gone \subseteq RosterClock
      BY <1>0 DEF RemovalRecord
    <3>5. GoneIsGone'
      BY <2>1, <3>1, <3>4 DEF RosterTyped, GoneIsGone, VisitedOnce
    <3>6. VisitedOnce' /\ OkIsOver'
      BY <2>1 DEF VisitedOnce, OkIsOver
    <3> QED BY <2>6, <3>3, <3>5, <3>6
  <2> QED BY <1>9, <2>2, <2>3 DEF Roster!EnrollAtClock
<1>10. ASSUME NEW j \in EnrolJob, NEW q \in Person,
              Roster!NewEmployee(j, q) \/ Roster!FillGaps(j, q)
       PROVE  RosterInv'
  <2>1. PICK targets \in SUBSET RosterClock : Roster!StartJob(j, q, targets)
    BY <1>10 DEF Roster!NewEmployee, Roster!FillGaps
  <2> DEFINE new == [who |-> q, left |-> targets, state |-> "running"]
  <2>2. new \in EnrolRecord
    BY DEF EnrolRecord
  <2>3. job' = [job EXCEPT ![j] = new]
    BY <2>1 DEF Roster!StartJob
  <2> HIDE DEF new
  <2> QED BY <1>1, <2>1, <2>2, <2>3 DEF Roster!StartJob
<1>11. ASSUME NEW j \in EnrolJob, Roster!PollJob(j) PROVE RosterInv'
  BY <1>1, <1>11 DEF Roster!PollJob
<1>12. ASSUME NEW j \in EnrolJob, Roster!ForgetJob(j) PROVE RosterInv'
  <2> DEFINE new == [job[j] EXCEPT !.state = "lost"]
  <2>1. new \in EnrolRecord
    BY DEF EnrolRecord
  <2>2. job' = [job EXCEPT ![j] = new]
    BY <1>12 DEF Roster!ForgetJob
  <2> HIDE DEF new
  <2> QED BY <1>1, <1>12, <2>1, <2>2 DEF Roster!ForgetJob
<1>13. CASE Roster!ProxyRestart
  <2> DEFINE ended(r) == [offboard[r] EXCEPT !.loop = "over", !.waits = FALSE]
             forgot(j) == [job[j] EXCEPT !.state = "lost"]
  <2>1. /\ UNCHANGED <<roster, doubtful>>
        /\ offboard' = [r \in Removal |-> IF offboard[r].loop = "running"
                                          THEN ended(r) ELSE offboard[r]]
        /\ job' = [j \in EnrolJob |-> IF job[j].state = "unused" THEN job[j] ELSE forgot(j)]
        /\ rosterRow' = [r \in Removal |->
             IF offboard[r].loop = "running" /\ offboard[r].waits THEN "error" ELSE rosterRow[r]]
    BY <1>13 DEF Roster!ProxyRestart
  <2>2. \A r \in Removal :
          /\ ended(r) \in RemovalRecord /\ ended(r).left = offboard[r].left
          /\ ended(r).gone = offboard[r].gone /\ ended(r).who = offboard[r].who
          /\ ended(r).loop = "over"
    BY <1>0 DEF RemovalRecord
  <2>3. \A j \in EnrolJob : forgot(j) \in EnrolRecord
    BY DEF EnrolRecord
  <2> HIDE DEF ended, forgot
  <2>4. JobsTyped' /\ offboard' \in [Removal -> RemovalRecord]
    BY <1>0, <2>1, <2>2, <2>3
  <2>5. rosterRow' \in [Removal -> {"none", "ok", "partial", "error"}]
    BY <2>1 DEF RosterTyped
  <2>6. OkIsOver'
    BY <2>1, <2>2 DEF OkIsOver
  <2> QED BY <1>6, <2>1, <2>2, <2>4, <2>5, <2>6
<1>14. CASE Roster!ServerRestart
  <2> DEFINE alone(r) == [offboard[r] EXCEPT !.waits = FALSE]
  <2>1. /\ UNCHANGED <<roster, doubtful, rosterRow, job>>
        /\ offboard' = [r \in Removal |-> alone(r)]
    BY <1>14 DEF Roster!ServerRestart
  <2>2. \A r \in Removal :
          /\ alone(r) \in RemovalRecord /\ alone(r).left = offboard[r].left
          /\ alone(r).gone = offboard[r].gone /\ alone(r).who = offboard[r].who
          /\ alone(r).loop = offboard[r].loop
    BY <1>0 DEF RemovalRecord
  <2> HIDE DEF alone
  <2>3. offboard' \in [Removal -> RemovalRecord] /\ OkIsOver'
    BY <2>1, <2>2 DEF OkIsOver
  <2> QED BY <1>6, <2>1, <2>2, <2>3 DEF RosterTyped
<1>15. CASE UNCHANGED rosterVars
  BY <1>1, <1>15 DEF rosterVars
<1> QED
  BY <1>2, <1>3, <1>4, <1>5, <1>7, <1>8, <1>9, <1>10, <1>11, <1>12, <1>13, <1>14, <1>15
  DEF Roster!Next

(* An audit row that reports a removal from all clocks is right, however many  *)
(* clocks, people, removals and enrolments there are.                         *)
THEOREM SuccessIsTrue == Office => []SuccessMeansGone
<1>1. Begins => Roster!Init
  BY DEF Begins
<1>2. RosterInv => SuccessMeansGone
  BY DEF RosterInv, GoneIsGone, OkIsOver, SuccessMeansGone, Roster!SuccessMeansGone
<1> QED BY <1>1, <1>2, RosterStarts, RosterMoves, RosterStep, PTL DEF Office
-----------------------------------------------------------------------------
(* ClockScan: a clock with a good list on disk has a good list in memory, which *)
(* every job finds there again, or the flag has let an empty one pass since.    *)

ScanInv ==
  /\ cached \in [ScanClock -> Int] /\ disk \in [ScanClock -> Int]
  /\ retry \in [ScanJob -> [ScanClock -> Int]]
  /\ \A j \in ScanJob, c \in ScanClock : retry[j][c] = Scan!None \/ retry[j][c] > 0
  /\ tornFiles \in Nat
  /\ \A c \in ScanClock : disk[c] > 0 => cached[c] > 0 \/ c \in lifted

Kept(c) == disk[c] > 0 => disk'[c] > 0 \/ c \in lifted \/ tornFiles' > tornFiles

LEMMA ScanMoves == [Moves]_all => [Scan!Next]_scanVars
<1>1. Moves => [Scan!Next]_scanVars
  BY DEF Moves, Only
<1>2. UNCHANGED all => UNCHANGED scanVars
  BY DEF all
<1> QED BY <1>1, <1>2

LEMMA ScanStarts == Scan!Init => ScanInv
  BY DEF Scan!Init, ScanInv, Scan!None

(* A good list in memory is only replaced by a good one.                      *)
LEMMA ScanStep ==
  ASSUME ScanInv, [Scan!Next]_scanVars
  PROVE  ScanInv' /\ \A c \in ScanClock : Kept(c)
<1> DEFINE Goal == ScanInv' /\ \A c \in ScanClock : Kept(c)
<1> USE DEF ScanInv, Kept, Scan!None, Scan!past, Scan!store, Scan!work, Scan!bounds
<1>1. ASSUME UNCHANGED <<cached, disk, retry, lifted, tornFiles>> PROVE Goal
  BY <1>1
<1>0. ASSUME NEW j \in ScanJob, NEW c \in ScanClock, Scan!Leaves(j, c)
      PROVE  /\ retry' \in [ScanJob -> [ScanClock -> Int]]
             /\ \A k \in ScanJob, d \in ScanClock :
                  retry'[k][d] = Scan!None \/ retry'[k][d] > 0
  <2>1. retry' = [retry EXCEPT ![j] = [retry[j] EXCEPT ![c] = -2]]
    BY <1>0 DEF Scan!Leaves
  <2>2. [retry[j] EXCEPT ![c] = -2] \in [ScanClock -> Int]
    OBVIOUS
  <2>3. \A k \in ScanJob, d \in ScanClock :
          retry'[k][d] = IF k = j /\ d = c THEN -2 ELSE retry[k][d]
    BY <2>1
  <2> QED BY <2>1, <2>2, <2>3
<1>2. ASSUME UNCHANGED <<disk, tornFiles>>, NEW j \in ScanJob, NEW c \in ScanClock,
             NEW n \in Int, Scan!Leaves(j, c), cached' = [cached EXCEPT ![c] = n],
             n > 0 \/ cached[c] <= 0 \/ c \in lifted',
             lifted' = IF n > 0 THEN lifted \ {c} ELSE lifted \cup (lifted' \cap {c})
      PROVE  Goal
  <2>1. ASSUME NEW d \in ScanClock, disk[d] > 0 PROVE cached'[d] > 0 \/ d \in lifted'
    <3>1. CASE d = c
      BY <1>2, <2>1, <3>1
    <3>2. CASE d # c
      BY <1>2, <2>1, <3>2
    <3> QED BY <3>1, <3>2
  <2> QED BY <1>0, <1>2, <2>1
<1>3. ASSUME NEW j \in ScanJob, Scan!Finish(j) PROVE Goal
  BY <1>3 DEF Scan!Finish
<1>4. ASSUME NEW j \in ScanJob, Scan!GetEmployees(j) \/ \E t \in timers : Scan!TimerFires(j, t)
      PROVE  Goal
  BY <1>1, <1>4 DEF Scan!GetEmployees, Scan!TimerFires, Scan!RunInBackground
<1>5. ASSUME NEW j \in ScanJob, NEW c \in ScanClock, Scan!Refresh(j, c) PROVE Goal
  BY <1>1, <1>5 DEF Scan!Refresh
<1>6. ASSUME NEW j \in ScanJob, NEW c \in ScanClock, Scan!ClockOffline(j, c) PROVE Goal
  <2>1. PICK n \in Int : /\ cached' = [cached EXCEPT ![c] = n]
                         /\ (cached[c] = -2 /\ n = -1) \/ n = cached[c]
    <3>1. cached' = [cached EXCEPT ![c] = Scan!OfflineEntry(cached[c])]
      BY <1>6 DEF Scan!ClockOffline
    <3>2. CASE cached[c] = -2
      <4>1. Scan!OfflineEntry(cached[c]) = -1
        BY <3>2 DEF Scan!OfflineEntry, Scan!Bad
      <4>2. -1 \in Int
        OBVIOUS
      <4>3. cached' = [cached EXCEPT ![c] = -1]
        BY <3>1, <4>1
      <4> QED BY <3>2, <4>2, <4>3
    <3>3. CASE cached[c] # -2
      <4>1. Scan!OfflineEntry(cached[c]) = cached[c] /\ cached[c] \in Int
        BY <3>3 DEF Scan!OfflineEntry
      <4> QED BY <3>1, <4>1
    <3> QED BY <3>2, <3>3
  <2>2. UNCHANGED <<disk, lifted, tornFiles>> /\ Scan!Leaves(j, c)
    BY <1>6 DEF Scan!ClockOffline
  <2>3. ASSUME NEW d \in ScanClock, disk[d] > 0 PROVE cached'[d] > 0 \/ d \in lifted'
    BY <2>1, <2>2, <2>3
  <2> QED BY <1>0, <2>1, <2>2, <2>3
<1>7. ASSUME NEW j \in ScanJob, NEW c \in ScanClock,
             Scan!ReadFails(j, c) \/ Scan!RetryRejected(j, c)
      PROVE  Goal
  BY <1>0, <1>7 DEF Scan!ReadFails, Scan!RetryRejected
<1>14. ASSUME NEW j \in ScanJob, NEW c \in ScanClock, Scan!ReadSuspicious(j, c) PROVE Goal
  <2>1. retry' = [retry EXCEPT ![j] = [retry[j] EXCEPT ![c] = cached[c]]]
        /\ cached[c] > 0 /\ UNCHANGED <<cached, disk, lifted, tornFiles>>
    BY <1>14 DEF Scan!ReadSuspicious, Scan!Suspicious
  <2>2. [retry[j] EXCEPT ![c] = cached[c]] \in [ScanClock -> Int]
    OBVIOUS
  <2>3. \A k \in ScanJob, d \in ScanClock :
          retry'[k][d] = IF k = j /\ d = c THEN cached[c] ELSE retry[k][d]
    BY <2>1
  <2> QED BY <2>1, <2>2, <2>3
<1>8. ASSUME NEW j \in ScanJob, NEW c \in ScanClock, Scan!ReadAccepted(j, c) PROVE Goal
  <2>1. PICK n \in Scan!Readings(c) :
          /\ ~Scan!Suspicious(c, n) /\ cached' = [cached EXCEPT ![c] = n]
          /\ lifted' = IF n > 0 THEN lifted \ {c} ELSE lifted \cup (armed \cap {c})
    BY <1>8 DEF Scan!ReadAccepted
  <2>2. n \in Int /\ n >= 0
    BY DEF Scan!Readings
  <2>3. n > 0 \/ cached[c] <= 0 \/ c \in lifted'
    <3>1. CASE n = 0 /\ cached[c] > 0 /\ c \notin armed
      <4>1. Scan!Half(cached[c]) > 0
        BY <3>1 DEF Scan!Half
      <4> QED BY <2>1, <3>1, <4>1 DEF Scan!Suspicious
    <3> QED BY <2>1, <2>2, <3>1
  <2>4. lifted' = IF n > 0 THEN lifted \ {c} ELSE lifted \cup (lifted' \cap {c})
    BY <2>1
  <2>5. UNCHANGED <<disk, tornFiles>> /\ Scan!Leaves(j, c)
    BY <1>8 DEF Scan!ReadAccepted
  <2> QED BY <1>2, <2>1, <2>2, <2>3, <2>4, <2>5
<1>9. ASSUME NEW j \in ScanJob, NEW c \in ScanClock, Scan!RetryAccepted(j, c) PROVE Goal
  <2>1. PICK n \in Scan!Readings(c) :
          n >= Scan!Half(retry[j][c]) /\ cached' = [cached EXCEPT ![c] = n]
    BY <1>9 DEF Scan!RetryAccepted
  <2>2. retry[j][c] \in Int /\ retry[j][c] > 0
    BY <1>9 DEF Scan!RetryAccepted, Scan!Reads2
  <2>3. n \in Int /\ n > 0
    BY <2>1, <2>2 DEF Scan!Readings, Scan!Half
  <2>4. UNCHANGED <<disk, tornFiles>> /\ Scan!Leaves(j, c) /\ lifted' = lifted \ {c}
    BY <1>9 DEF Scan!RetryAccepted
  <2> QED BY <1>2, <2>1, <2>3, <2>4
<1>10. ASSUME NEW c \in ScanClock, Scan!MarkNew(c) \/ Scan!Roster(c) PROVE Goal
  BY <1>1, <1>10 DEF Scan!MarkNew, Scan!Roster
<1>11. CASE Scan!CacheExpires
  BY <1>1, <1>11 DEF Scan!CacheExpires
<1>12. CASE Scan!Restart
  BY <1>12 DEF Scan!Restart, Scan!Starts
<1>15. ASSUME NEW j \in ScanJob, Scan!RestartInFinish(j) PROVE Goal
  <2>1. /\ \A c \in ScanClock : cached'[c] = -2 /\ disk'[c] = -2
        /\ tornFiles' = tornFiles + 1 /\ UNCHANGED lifted
        /\ cached' \in [ScanClock -> Int] /\ disk' \in [ScanClock -> Int]
        /\ retry' = [k \in ScanJob |-> [c \in ScanClock |-> -2]]
    BY <1>15 DEF Scan!RestartInFinish, Scan!Starts
  <2> QED BY <2>1
<1>13. CASE UNCHANGED scanVars
  BY <1>1, <1>13 DEF scanVars
<1> QED
  BY <1>3, <1>4, <1>5, <1>6, <1>7, <1>8, <1>9, <1>10, <1>11, <1>12, <1>13, <1>14, <1>15
  DEF Scan!Next, Scan!Reading

(* A list on disk is not lost to failures, for any number of clocks, jobs,      *)
(* marks, swaps and restarts.                                                *)
THEOREM GoodListStays == Office => GoodListKept
<1>1. Begins => Scan!Init
  BY DEF Begins
<1>2. ScanInv /\ [Scan!Next]_scanVars => [\A c \in ScanClock : Kept(c)]_Scan!vars
  BY ScanStep
<1>3. ScanInv /\ [Scan!Next]_scanVars => ScanInv'
  BY ScanStep
<1> QED
  BY <1>1, <1>2, <1>3, ScanStarts, ScanMoves, PTL
  DEF Office, GoodListKept, Scan!GoodListKept, Kept
-----------------------------------------------------------------------------
(* RemoteClockIn: whoever's cookie a phone holds is among those that each of   *)
(* its pages may speak for, and so is the cookie of a clock-in on its way.     *)

Pages == Phone \X Page

PageRecord == [name : Clocking!Someone, pressed : BOOLEAN, sent : Clocking!Someone,
               among : SUBSET Employee]

Entry == [who : Employee \cup {"nobody"}, among : SUBSET Employee]

Speaks(r, c) ==
  /\ r.sent # "nobody" => r.pressed /\ r.sent \in r.among
  /\ r.name # "nobody" \/ r.pressed => c = "nobody" \/ c \in r.among

EntryInv ==
  /\ page \in [Pages -> PageRecord] /\ cookie \in [Phone -> Clocking!Someone]
  /\ entry \in Seq(Entry) /\ active \subseteq Employee
  /\ \A g \in Pages : Speaks(page[g], cookie[g[1]])
  /\ EntryIsOfItsPresser

LEMMA EntryMoves == [Moves]_all => [Clocking!Next]_entryVars
<1>1. Moves => [Clocking!Next]_entryVars
  BY DEF Moves, Only
<1>2. UNCHANGED all => UNCHANGED entryVars
  BY DEF all
<1> QED BY <1>1, <1>2

LEMMA ClosedSpeaks ==
  Clocking!Closed \in PageRecord /\ \A c : Speaks(Clocking!Closed, c)
  BY DEF Clocking!Closed, Clocking!Nobody, Clocking!Someone, PageRecord, Speaks

LEMMA TidySpeaks ==
  ASSUME NEW r \in PageRecord, NEW c, Speaks(r, c)
  PROVE  Clocking!Tidy(r) \in PageRecord /\ Speaks(Clocking!Tidy(r), c)
<1>1. Clocking!Tidy(r) \in {r, Clocking!Closed}
  BY DEF Clocking!Tidy
<1> QED BY <1>1, ClosedSpeaks

LEMMA EntryStarts == Clocking!Init => EntryInv
<1> SUFFICES ASSUME Clocking!Init PROVE EntryInv
  OBVIOUS
<1>1. /\ page = [g \in Pages |-> Clocking!Closed] /\ entry = <<>>
      /\ cookie = [p \in Phone |-> "nobody"]
  BY DEF Clocking!Init, Pages, Clocking!Nobody
<1>2. page \in [Pages -> PageRecord] /\ \A g \in Pages : Speaks(page[g], cookie[g[1]])
  BY <1>1, ClosedSpeaks
<1>3. cookie \in [Phone -> Clocking!Someone]
  BY <1>1 DEF Clocking!Someone, Clocking!Nobody
<1>4. entry \in Seq(Entry) /\ EntryIsOfItsPresser
  BY <1>1 DEF EntryIsOfItsPresser, Clocking!EntryIsOfItsPresser
<1> QED BY <1>2, <1>3, <1>4 DEF EntryInv, Clocking!Init

(* A row that may be of its employee is put at the end.                        *)
LEMMA RowAppended ==
  ASSUME EntryInv, NEW new \in Entry, new.who \in new.among, entry' = Append(entry, new)
  PROVE  entry' \in Seq(Entry) /\ EntryIsOfItsPresser'
<1>1. entry \in Seq(Entry) /\ Len(entry) \in Nat
  BY LenProperties DEF EntryInv
<1>2. /\ entry' \in Seq(Entry) /\ Len(entry') = Len(entry) + 1
      /\ \A n \in 1..Len(entry) : entry'[n] = entry[n]
      /\ entry'[Len(entry) + 1] = new
  BY <1>1, AppendProperties
<1>3. DOMAIN entry' = 1..(Len(entry) + 1) /\ DOMAIN entry = 1..Len(entry)
  BY <1>1, <1>2
<1>4. ASSUME NEW n \in DOMAIN entry' PROVE entry'[n].who \in entry'[n].among
  <2>1. CASE n \in 1..Len(entry)
    <3>1. entry[n].who \in entry[n].among
      BY <1>3, <2>1 DEF EntryInv, EntryIsOfItsPresser, Clocking!EntryIsOfItsPresser
    <3> QED BY <1>2, <2>1, <3>1
  <2>2. CASE n = Len(entry) + 1
    BY <1>2, <2>2
  <2> QED BY <1>1, <1>3, <2>1, <2>2
<1> QED BY <1>2, <1>4 DEF EntryIsOfItsPresser, Clocking!EntryIsOfItsPresser

LEMMA EntryStep == EntryInv /\ [Clocking!Next]_entryVars => EntryInv'
<1> SUFFICES ASSUME EntryInv, [Clocking!Next]_entryVars PROVE EntryInv'
  OBVIOUS
<1> USE DEF Clocking!server, Clocking!Nobody
<1>0. active' \subseteq Employee
  BY DEF EntryInv, Clocking!Next, Clocking!Logout, Clocking!OpenPage, Clocking!Login,
     Clocking!Press, Clocking!Send, Clocking!ClockIn, Clocking!ClockInFails,
     Clocking!SessionExpires, Clocking!SetActive, Clocking!Correct, entryVars
<1>1. ASSUME UNCHANGED <<page, cookie, entry>> PROVE EntryInv'
  BY <1>0, <1>1 DEF EntryInv, EntryIsOfItsPresser, Clocking!EntryIsOfItsPresser
<1>2. ASSUME UNCHANGED entry, page' \in [Pages -> PageRecord],
             cookie' \in [Phone -> Clocking!Someone],
             \A g \in Pages : Speaks(page'[g], cookie'[g[1]])
      PROVE  EntryInv'
  BY <1>0, <1>2 DEF EntryInv, EntryIsOfItsPresser, Clocking!EntryIsOfItsPresser
<1>3. ASSUME NEW g \in Pages, NEW new \in PageRecord, page' = [page EXCEPT ![g] = new],
             Speaks(new, cookie[g[1]])
      PROVE  /\ page' \in [Pages -> PageRecord]
             /\ \A h \in Pages : Speaks(page'[h], cookie[h[1]])
  BY <1>3 DEF EntryInv
<1>4. ASSUME NEW g \in Pages, NEW new \in PageRecord, Clocking!Becomes(g, new),
             Speaks(new, cookie[g[1]])
      PROVE  /\ page' \in [Pages -> PageRecord]
             /\ \A h \in Pages : Speaks(page'[h], cookie[h[1]])
  <2>1. page' = [page EXCEPT ![g] = Clocking!Tidy(new)]
    BY <1>4 DEF Clocking!Becomes
  <2> QED BY <1>3, <1>4, <2>1, TidySpeaks
<1>5. ASSUME NEW p \in Phone, NEW t \in Page, Clocking!Logout(p, t) PROVE EntryInv'
  <2> DEFINE g == <<p, t>>  new == [page[g] EXCEPT !.name = "nobody"]
  <2>1. /\ g \in Pages /\ g[1] = p
        /\ page[g] \in PageRecord /\ Speaks(page[g], cookie[p])
    BY DEF EntryInv, Pages
  <2>2. new \in PageRecord /\ Speaks(new, cookie[p])
    BY <2>1 DEF PageRecord, Speaks, Clocking!Someone
  <2>3. Clocking!Becomes(g, new) /\ UNCHANGED entry
        /\ cookie' \in {cookie, [cookie EXCEPT ![p] = "nobody"]}
    BY <1>5 DEF Clocking!Logout
  <2> HIDE DEF new, g
  <2>4. /\ page' \in [Pages -> PageRecord]
        /\ \A h \in Pages : Speaks(page'[h], cookie[h[1]])
    BY <1>4, <2>1, <2>2, <2>3
  <2>5. /\ cookie' \in [Phone -> Clocking!Someone]
        /\ \A q \in Phone : cookie'[q] \in {cookie[q], "nobody"}
    BY <2>3 DEF EntryInv, Clocking!Someone
  <2>6. \A h \in Pages : Speaks(page'[h], cookie'[h[1]])
    BY <2>4, <2>5 DEF Speaks, Pages
  <2> QED BY <1>2, <2>3, <2>4, <2>5, <2>6
<1>6. ASSUME NEW p \in Phone, NEW t \in Page, Clocking!OpenPage(p, t) PROVE EntryInv'
  <2> DEFINE g == <<p, t>>
             named == [Clocking!Closed EXCEPT !.name = cookie[p], !.among = {cookie[p]}]
  <2>1. g \in Pages /\ g[1] = p /\ UNCHANGED <<entry, cookie>>
    BY <1>6 DEF Clocking!OpenPage, Pages
  <2>2. CASE Clocking!Authentic(p, cookie[p]) /\ page' = [page EXCEPT ![g] = named]
    <3>1. named \in PageRecord /\ Speaks(named, cookie[p])
      <4>1. cookie[p] \in Employee
        BY <2>2 DEF Clocking!Authentic, EntryInv
      <4> QED BY <4>1 DEF PageRecord, Speaks, Clocking!Closed, Clocking!Someone
    <3> HIDE DEF named, g
    <3> QED BY <1>2, <1>3, <2>1, <2>2, <3>1 DEF EntryInv
  <2>3. CASE page' = [page EXCEPT ![g] = Clocking!Closed]
    <3> HIDE DEF g
    <3> QED BY <1>2, <1>3, <2>1, <2>3, ClosedSpeaks DEF EntryInv
  <2> QED BY <1>6, <2>2, <2>3 DEF Clocking!OpenPage
<1>7. ASSUME NEW p \in Phone, NEW t \in Page, NEW e \in Employee, Clocking!Login(p, t, e)
      PROVE  EntryInv'
  <2>1. CASE UNCHANGED <<cookie, page>>
    BY <1>1, <1>7, <2>1 DEF Clocking!Login
  <2>2. CASE /\ cookie' = [cookie EXCEPT ![p] = e]
             /\ page' = [g \in Pages |-> IF g[1] = p THEN Clocking!SeesLogin(g, t, e) ELSE page[g]]
    <3>1. /\ cookie' \in [Phone -> Clocking!Someone] /\ cookie'[p] = e
          /\ \A q \in Phone : q # p => cookie'[q] = cookie[q]
      BY <2>2 DEF EntryInv, Clocking!Someone
    <3>2. ASSUME NEW g \in Pages
          PROVE  Clocking!SeesLogin(g, t, e) \in PageRecord /\ Speaks(Clocking!SeesLogin(g, t, e), e)
      <4> DEFINE mine == IF page[g].pressed THEN page[g].among \cup {e} ELSE {e}
                 own == [page[g] EXCEPT !.name = e, !.among = mine]
                 other == [page[g] EXCEPT !.among = @ \cup {e}]
      <4>1. page[g] \in PageRecord /\ Speaks(page[g], cookie[g[1]])
        BY DEF EntryInv
      <4>2. own \in PageRecord /\ Speaks(own, e)
        <5>1. /\ mine \in SUBSET Employee /\ e \in mine
              /\ page[g].sent \in mine \/ page[g].sent = "nobody"
          BY <4>1 DEF PageRecord, Speaks
        <5>2. own \in PageRecord /\ e \in own.among /\ own.among = mine
              /\ own.sent = page[g].sent /\ own.pressed = page[g].pressed
          BY <4>1, <5>1 DEF PageRecord, Clocking!Someone
        <5> HIDE DEF own, mine
        <5> QED BY <4>1, <5>1, <5>2 DEF Speaks
      <4>3. other \in PageRecord /\ Speaks(other, e)
        BY <4>1 DEF PageRecord, Speaks
      <4>4. Clocking!SeesLogin(g, t, e) = Clocking!Tidy(IF g[2] = t THEN own ELSE other)
        BY DEF Clocking!SeesLogin
      <4> HIDE DEF own, other
      <4> QED BY <4>2, <4>3, <4>4, TidySpeaks
    <3>3. page' \in [Pages -> PageRecord]
      BY <2>2, <3>2 DEF EntryInv
    <3>4. \A g \in Pages : Speaks(page'[g], cookie'[g[1]])
      <4> SUFFICES ASSUME NEW g \in Pages PROVE Speaks(page'[g], cookie'[g[1]])
        OBVIOUS
      <4>1. g[1] \in Phone
        BY DEF Pages
      <4>2. CASE g[1] = p
        BY <2>2, <3>1, <3>2, <4>2
      <4>3. CASE g[1] # p
        BY <2>2, <3>1, <4>1, <4>3 DEF EntryInv
      <4> QED BY <4>2, <4>3
    <3> QED BY <1>2, <1>7, <3>1, <3>3, <3>4 DEF Clocking!Login
  <2> QED BY <1>7, <2>1, <2>2 DEF Clocking!Login, Clocking!NewCookie, Pages
<1>8. ASSUME NEW g \in Pages, Clocking!Press(g) PROVE EntryInv'
  <2> DEFINE new == [page[g] EXCEPT !.pressed = TRUE]
  <2>1. page[g] \in PageRecord /\ Speaks(page[g], cookie[g[1]]) /\ page[g].name # "nobody"
    BY <1>8 DEF EntryInv, Clocking!Press
  <2>2. new \in PageRecord /\ Speaks(new, cookie[g[1]])
    BY <2>1 DEF PageRecord, Speaks
  <2>3. page' = [page EXCEPT ![g] = new] /\ UNCHANGED <<entry, cookie>>
    BY <1>8 DEF Clocking!Press
  <2> HIDE DEF new
  <2> QED BY <1>2, <1>3, <2>2, <2>3 DEF EntryInv
<1>9. ASSUME NEW g \in Pages, Clocking!Send(g) PROVE EntryInv'
  <2> DEFINE new == [page[g] EXCEPT !.sent = cookie[g[1]]]
  <2>1. /\ page[g] \in PageRecord /\ Speaks(page[g], cookie[g[1]]) /\ page[g].pressed
        /\ cookie[g[1]] # "nobody" /\ cookie[g[1]] \in Clocking!Someone
    BY <1>9 DEF EntryInv, Clocking!Send, Pages
  <2>2. new \in PageRecord /\ Speaks(new, cookie[g[1]])
    BY <2>1 DEF PageRecord, Speaks
  <2>3. page' = [page EXCEPT ![g] = new] /\ UNCHANGED <<entry, cookie>>
    BY <1>9 DEF Clocking!Send
  <2> HIDE DEF new
  <2> QED BY <1>2, <1>3, <2>2, <2>3 DEF EntryInv
<1>10. ASSUME NEW g \in Pages, Clocking!Released(g)
       PROVE  /\ page' \in [Pages -> PageRecord]
              /\ \A h \in Pages : Speaks(page'[h], cookie[h[1]])
  <2> DEFINE new == [page[g] EXCEPT !.pressed = FALSE, !.sent = "nobody"]
  <2>1. page[g] \in PageRecord /\ Speaks(page[g], cookie[g[1]])
    BY DEF EntryInv
  <2>2. new \in PageRecord /\ Speaks(new, cookie[g[1]])
    BY <2>1 DEF PageRecord, Speaks, Clocking!Someone
  <2>3. Clocking!Becomes(g, new)
    BY <1>10 DEF Clocking!Released
  <2> HIDE DEF new
  <2> QED BY <1>4, <2>2, <2>3
<1>11. ASSUME NEW g \in Pages, Clocking!ClockIn(g) PROVE EntryInv'
  <2> DEFINE new == [who |-> page[g].sent, among |-> page[g].among]
  <2>1. /\ Clocking!Released(g) /\ entry' = Append(entry, new) /\ UNCHANGED cookie
        /\ page[g].sent # "nobody"
    BY <1>11 DEF Clocking!ClockIn
  <2>2. new \in Entry /\ new.who \in new.among
    <3>1. page[g] \in PageRecord /\ Speaks(page[g], cookie[g[1]])
      BY DEF EntryInv
    <3> QED BY <2>1, <3>1 DEF PageRecord, Speaks, Entry, Clocking!Someone
  <2> HIDE DEF new
  <2>3. entry' \in Seq(Entry) /\ EntryIsOfItsPresser'
    BY <2>1, <2>2, RowAppended
  <2> QED BY <1>0, <1>10, <2>1, <2>3 DEF EntryInv
<1>12. ASSUME NEW g \in Pages, Clocking!ClockInFails(g) PROVE EntryInv'
  BY <1>2, <1>10, <1>12 DEF Clocking!ClockInFails, EntryInv
<1>13. ASSUME NEW p \in Phone, NEW e \in Employee, Clocking!SessionExpires(p, e) PROVE EntryInv'
  BY <1>1, <1>13 DEF Clocking!SessionExpires
<1>14. ASSUME NEW e \in Employee, Clocking!SetActive(e) PROVE EntryInv'
  BY <1>1, <1>14 DEF Clocking!SetActive
<1>15. ASSUME NEW n \in 1..(MaxEntries + 1), Clocking!Correct(n) PROVE EntryInv'
  <2>1. /\ n \in DOMAIN entry /\ entry' = Append(entry, entry[n])
        /\ UNCHANGED <<page, cookie>>
    BY <1>15 DEF Clocking!Correct
  <2>2. entry[n] \in Entry /\ entry[n].who \in entry[n].among
    BY <2>1, ElementOfSeq, LenProperties
    DEF EntryInv, EntryIsOfItsPresser, Clocking!EntryIsOfItsPresser
  <2>3. entry' \in Seq(Entry) /\ EntryIsOfItsPresser'
    BY <2>1, <2>2, RowAppended
  <2> QED BY <1>0, <2>1, <2>3 DEF EntryInv
<1>16. CASE UNCHANGED entryVars
  BY <1>1, <1>16 DEF entryVars
<1> QED
  BY <1>5, <1>6, <1>7, <1>8, <1>9, <1>11, <1>12, <1>13, <1>14, <1>15, <1>16
  DEF Clocking!Next, Pages

(* Whoever uses a phone, with any number of pages open, and whatever is lost or *)
(* late: an entry is of the person the page showed or of one who came after.   *)
THEOREM EntriesAreOfTheirPressers == Office => []EntryIsOfItsPresser
<1>1. Begins => Clocking!Init
  BY DEF Begins
<1>2. EntryInv => EntryIsOfItsPresser
  BY DEF EntryInv
<1> QED
  BY <1>1, <1>2, EntryStarts, EntryMoves, EntryStep, PTL DEF Office
=============================================================================
