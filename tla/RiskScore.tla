------------------------------ MODULE RiskScore ------------------------------
(***************************************************************************)
(* The risk score of a store (parseClaudeScore and its helpers in services/   *)
(* reportEngine.js): the six numbers that Claude gives are clamped, then each *)
(* measured trouble adds to some of them, never beyond 100, and the total is  *)
(* their weighted mean.  100 is the worst.                                   *)
(*                                                                         *)
(* A measurement is its class in the code's comparisons (0 is harmless), so   *)
(* that every branch is taken.  Sums of cents stand for floating point.       *)
(***************************************************************************)
EXTENDS Integers

CONSTANT Answers  \* what Claude may give: numbers, or Missing

Missing == -1000

Trouble == {"win10", "cpu", "ram", "disk", "temp", "offline", "silent"}

VARIABLES
  state,    \* class of each trouble this month
  readings, \* weightedMetrics.total_readings > 0
  ai        \* what Claude gives: the same number for each dimension

vars == <<state, readings, ai>>

(* win10: none, only common machines, a TERM or BOH.  cpu, ram, disk: over 60, *)
(* over 80.  temp: from 50, over 60, over 70.  offline: 1, over 5, over 15.   *)
(* silent: machines without a reading, from 1, 3, 6.                          *)
Classes == [t \in Trouble |-> IF t \in {"temp", "offline", "silent"} THEN 0..3 ELSE 0..2]

TypeOK ==
  /\ \A t \in Trouble : state[t] \in Classes[t]
  /\ readings \in BOOLEAN /\ ai \in Answers

Init ==
  /\ state = [t \in Trouble |-> 0]
  /\ readings \in BOOLEAN /\ ai \in Answers

-----------------------------------------------------------------------------
Clamp(v) == IF v = Missing THEN 30 ELSE IF v < 0 THEN 0 ELSE IF v > 100 THEN 100 ELSE v

At(table, class) == IF class = 0 THEN 0 ELSE table[class]

Win10Penalty(d) ==
  At(IF d = "software" THEN <<25, 40>> ELSE IF d = "security" THEN <<20, 35>> ELSE <<0, 0>>,
     state["win10"])

(* Bug: the two thresholds are tested in the wrong order.                     *)
MutLoadPenalty(d, t) ==
  At(IF d = "hardware" THEN <<18, 10>> ELSE IF d = "operational" THEN <<8, 15>> ELSE <<0, 0>>,
     state[t])

(* applyCpuPenalty and applyRamPenalty.                                       *)
LoadPenalty(d, t) ==
  At(IF d = "hardware" THEN <<10, 18>> ELSE IF d = "operational" THEN <<8, 15>> ELSE <<0, 0>>,
     state[t])

DiskPenalty(d) ==
  At(IF d = "hardware" THEN <<6, 12>> ELSE IF d = "operational" THEN <<4, 8>> ELSE <<0, 0>>,
     state["disk"])

TempPenalty(d) ==
  At(IF d = "hardware" THEN <<4, 8, 15>> ELSE IF d = "operational" THEN <<2, 5, 10>>
     ELSE <<0, 0, 0>>, state["temp"])

(* applyHardwarePenalties: nothing without readings.                          *)
HardwarePenalty(d) ==
  IF ~readings THEN 0
  ELSE LoadPenalty(d, "cpu") + LoadPenalty(d, "ram") + DiskPenalty(d) + TempPenalty(d)

OfflinePenalty(d) ==
  At(IF d = "operational" THEN <<10, 18, 28>> ELSE IF d = "security" THEN <<6, 12, 20>>
     ELSE <<0, 0, 0>>, state["offline"])

NoMetricsPenalty(d) ==
  At(IF d = "hardware" THEN <<10, 18, 25>> ELSE IF d = "software" THEN <<12, 22, 30>>
     ELSE <<0, 0, 0>>, state["silent"])

(* What saturates at each addition saturates at their sum.                    *)
Capped(n) == IF n > 100 THEN 100 ELSE n

Score(d) ==
  Capped(Clamp(ai) + Win10Penalty(d) + HardwarePenalty(d) + OfflinePenalty(d)
           + NoMetricsPenalty(d))

(* WEIGHTS, in hundredths, and Math.round.                                    *)
Total ==
  (20 * Score("hardware") + 15 * Score("software") + 15 * Score("connectivity")
     + 20 * Score("security") + 20 * Score("incidents") + 10 * Score("operational") + 50)
  \div 100

-----------------------------------------------------------------------------
(* The next month is worse in one respect.                                    *)
Worsen(t) ==
  /\ state[t] + 1 \in Classes[t]
  /\ state' = [state EXCEPT ![t] = @ + 1]
  /\ UNCHANGED <<readings, ai>>

Next == \E t \in Trouble : Worsen(t)

Spec == Init /\ [][Next]_vars

-----------------------------------------------------------------------------
(* Whatever Claude answers, the total stays within 0..100 and, with the same   *)
(* answer, a store with more trouble never gets a lower score.               *)
TroubleNeverLowersTheScore ==
  [][state' # state => 0 <= Total /\ Total <= Total' /\ Total' <= 100]_vars
=============================================================================
