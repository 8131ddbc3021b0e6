---------------------------- MODULE OrderVerdict ----------------------------
(***************************************************************************)
(* What the NCR order monitor promises to the office: an order that was     *)
(* taken up gets at most one verdict, which stays; an order of a store that *)
(* is not known gets no other than that; an order is given up only after a   *)
(* search that began when its lead time was over; and the office is told of *)
(* a verdict of the store at most once.  Nothing is promised about an order  *)
(* that a fault has hit: it may stay without a verdict, or be decided and   *)
(* never told of.                                                          *)
(***************************************************************************)
EXTENDS Naturals

CONSTANTS Order, Known

VARIABLES
  taken,     \* orders the monitor has taken up
  over,      \* orders whose lead time is over
  searched,  \* orders that a search was begun for after that
  verdict,   \* [Order -> {"null", "found", "missing", "unmapped"}]
  told       \* [Order -> Nat]: result mails

vars == <<taken, over, searched, verdict, told>>

Init ==
  /\ taken = {} /\ over = {} /\ searched = {}
  /\ verdict = [o \in Order |-> "null"]
  /\ told = [o \in Order |-> 0]

LeadEnds(o) ==
  /\ over' = over \cup {o}
  /\ UNCHANGED <<taken, searched, verdict, told>>

\* With a first search or without one.
TakeUp(o) ==
  /\ o \notin taken
  /\ taken' = taken \cup {o}
  /\ searched' \in {searched, searched \cup ({o} \cap Known \cap over)}
  /\ UNCHANGED <<over, verdict, told>>

\* Only for orders that are open.
Search(S) ==
  /\ S \subseteq taken \cap Known \cap over
  /\ \A o \in S : verdict[o] = "null"
  /\ searched' = searched \cup S
  /\ UNCHANGED <<taken, over, verdict, told>>

Decide(o, v) ==
  /\ o \in taken /\ verdict[o] = "null"
  /\ v \in IF o \in Known THEN {"found", "missing"} ELSE {"unmapped"}
  /\ v = "missing" => o \in searched
  /\ verdict' = [verdict EXCEPT ![o] = v]
  /\ UNCHANGED <<taken, over, searched, told>>

Tell(o) ==
  /\ verdict[o] \in {"found", "missing"} /\ told[o] = 0
  /\ told' = [told EXCEPT ![o] = 1]
  /\ UNCHANGED <<taken, over, searched, verdict>>

Next ==
  \/ \E o \in Order : LeadEnds(o) \/ TakeUp(o) \/ Tell(o)
  \/ \E S \in SUBSET Order : Search(S)
  \/ \E o \in Order, v \in {"found", "missing", "unmapped"} : Decide(o, v)

Spec == Init /\ [][Next]_vars
=============================================================================
