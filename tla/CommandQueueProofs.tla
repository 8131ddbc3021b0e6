-------------------------- MODULE CommandQueueProofs --------------------------
(***************************************************************************)
(* Theorems about CommandQueue, for every set of machines and commands and *)
(* every number of faults.                                                 *)
(***************************************************************************)
EXTENDS CommandQueue, TLAPS

(* Every variable keeps its type.                                          *)
THEOREM TypeCorrect == Spec => []TypeOK
<1>1. Init => TypeOK
  BY QueueAssumption DEF Init, TypeOK, Status, WaiterState, Phase, Routine, Outcome, Ack
<1>2. TypeOK /\ [Next]_vars => TypeOK'
  <2> SUFFICES ASSUME TypeOK, [Next]_vars PROVE TypeOK'
    OBVIOUS
  <2> USE QueueAssumption DEF TypeOK, Status, WaiterState, Phase, Routine, Outcome, Ack,
        serverVars, agentVars, drVars, netVars, histVars
  <2>1. CASE Tick
    BY <2>1 DEF Tick
  <2>2. ASSUME NEW c \in Cmd, CreateCommand(c) PROVE TypeOK'
    BY <2>2 DEF CreateCommand
  <2>3. ASSUME NEW c \in Cmd, WaiterSeesVerdict(c) PROVE TypeOK'
    BY <2>3 DEF WaiterSeesVerdict
  <2>4. ASSUME NEW c \in Cmd, WaiterTimesOut(c) PROVE TypeOK'
    BY <2>4 DEF WaiterTimesOut
  <2>5. ASSUME NEW m \in Machine, ServePoll(m) PROVE TypeOK'
    BY <2>5 DEF ServePoll, MarkSent, Pending
  <2>6. ASSUME NEW m \in Machine, ServeAbandonedPoll(m) PROVE TypeOK'
    BY <2>6 DEF ServeAbandonedPoll, MarkSent
  <2>7. ASSUME NEW a \in acks, ServeAck(a) PROVE TypeOK'
    BY <2>7 DEF ServeAck, Verdict
  <2>8. ASSUME NEW m \in Machine, SendPoll(m) PROVE TypeOK'
    BY <2>8 DEF SendPoll
  <2>9. ASSUME NEW m \in Machine, ReceiveBatch(m) PROVE TypeOK'
    <3>1. reply[m] \in SUBSET Cmd
      BY DEF TypeOK
    <3> QED BY <2>9, <3>1 DEF ReceiveBatch
  <2>10. ASSUME NEW m \in Machine, StartCommand(m) PROVE TypeOK'
    <3>1. PICK c \in Oldest(batch[m]) :
             /\ batch'   = [batch EXCEPT ![m] = @ \ {c}]
             /\ current' = [current EXCEPT ![m] = c]
             /\ routine' = [routine EXCEPT ![c] = "running"]
             /\ runs'    = [runs EXCEPT ![c] = @ + 1]
             /\ installing' = IF EntersDrSetup(c) THEN installing \cup {c}
                                                  ELSE installing
             /\ drSetupInProgress' =
                  [drSetupInProgress EXCEPT ![m] = @ \/ EntersDrSetup(c)]
      BY <2>10 DEF StartCommand
    <3>2. c \in Cmd
      BY <3>1 DEF Oldest
    <3>3. UNCHANGED <<serverVars, phase, netVars, outcome, faults>>
      BY <2>10 DEF StartCommand
    <3>4. batch' \in [Machine -> SUBSET Cmd] /\ current' \in [Machine -> Cmd \cup {NoCmd}]
      BY <3>1, <3>2
    <3>5. routine' \in [Cmd -> Routine] /\ runs' \in [Cmd -> Nat]
      BY <3>1, <3>2
    <3>6. installing' \subseteq Cmd /\ drSetupInProgress' \in [Machine -> BOOLEAN]
      BY <3>1, <3>2 DEF EntersDrSetup
    <3> QED BY <3>3, <3>4, <3>5, <3>6
  <2>11. ASSUME NEW m \in Machine, AbandonCommand(m) PROVE TypeOK'
    <3>1. [cmd |-> current[m], success |-> FALSE] \in Ack
      BY <2>11 DEF AbandonCommand
    <3> QED BY <2>11, <3>1 DEF AbandonCommand
  <2>12. ASSUME NEW m \in Machine, EndBatch(m) PROVE TypeOK'
    BY <2>12 DEF EndBatch
  <2>13. ASSUME NEW m \in Machine, AgentRestart(m) PROVE TypeOK'
    BY <2>13 DEF AgentRestart
  <2>14. ASSUME NEW c \in Cmd, NEW ok \in BOOLEAN, FinishCommand(c, ok) PROVE TypeOK'
    BY <2>14 DEF FinishCommand, Returns
  <2>15. ASSUME NEW c \in Cmd, NEW ok \in BOOLEAN, FinishOrphan(c, ok) PROVE TypeOK'
    BY <2>15 DEF FinishOrphan, Returns
  <2>16. ASSUME NEW m \in Machine, PollFails(m) PROVE TypeOK'
    BY <2>16 DEF PollFails, Fault
  <2>17. ASSUME NEW m \in Machine, AgentCrash(m) PROVE TypeOK'
    BY <2>17 DEF AgentCrash, Fault, Running
  <2>18. ASSUME NEW a \in acks, LoseAck(a) PROVE TypeOK'
    BY <2>18 DEF LoseAck, Fault
  <2>19. CASE ServerRestart
    BY <2>19 DEF ServerRestart, Fault
  <2>20. CASE UNCHANGED vars
    BY <2>20 DEF vars
  <2> QED
    BY <2>1, <2>2, <2>3, <2>4, <2>5, <2>6, <2>7, <2>8, <2>9, <2>10, <2>11, <2>12, <2>13,
       <2>14, <2>15, <2>16, <2>17, <2>18, <2>19, <2>20
       DEF Next, ServerStep, AgentStep, FaultStep
<1> QED
  BY <1>1, <1>2, PTL DEF Spec

-----------------------------------------------------------------------------
(* Where a command can be, by what has happened to it: the reason why it     *)
(* starts at most once.  A command that has not started is pending, or on    *)
(* its way to its agent, or in the agent's batch, and is then 'sent'; an ack *)
(* or a running handler stand for a command that has started.                *)
Located ==
    /\ \A c \in Cmd : status[c] \in {"none", "pending"} => runs[c] = 0
    /\ \A m \in Machine : \A c \in reply[m] \cup batch[m] :
         Dest[c] = m /\ runs[c] = 0 /\ status[c] = "sent"
    /\ \A m \in Machine : reply[m] # {} => phase[m] = "answered"
    /\ \A m \in Machine : batch[m] # {} \/ current[m] # NoCmd => phase[m] = "busy"
    /\ \A m \in Machine : current[m] # NoCmd =>
         Dest[current[m]] = m /\ runs[current[m]] = 1
    /\ \A a \in acks : runs[a.cmd] = 1

LEMMA LocatedInductive ==
    ASSUME TypeOK, TypeOK', Located, AtMostOnce, [Next]_vars
    PROVE  Located' /\ AtMostOnce'
  <1> USE QueueAssumption DEF TypeOK, Located, AtMostOnce,
        serverVars, agentVars, drVars, netVars, histVars
  <1>1. CASE Tick
    BY <1>1 DEF Tick
  <1>2. ASSUME NEW c \in Cmd, CreateCommand(c) PROVE Located' /\ AtMostOnce'
    BY <1>2 DEF CreateCommand
  <1>3. ASSUME NEW c \in Cmd, WaiterSeesVerdict(c) PROVE Located' /\ AtMostOnce'
    BY <1>3 DEF WaiterSeesVerdict
  <1>4. ASSUME NEW c \in Cmd, WaiterTimesOut(c) PROVE Located' /\ AtMostOnce'
    BY <1>4 DEF WaiterTimesOut
  <1>5. ASSUME NEW m \in Machine, ServePoll(m) PROVE Located' /\ AtMostOnce'
    BY <1>5 DEF ServePoll, MarkSent, Pending
  <1>6. ASSUME NEW m \in Machine, ServeAbandonedPoll(m) PROVE Located' /\ AtMostOnce'
    BY <1>6 DEF ServeAbandonedPoll, MarkSent, Pending
  <1>7. ASSUME NEW a \in acks, ServeAck(a) PROVE Located' /\ AtMostOnce'
    BY <1>7 DEF ServeAck, Verdict, Ack
  <1>8. ASSUME NEW m \in Machine, SendPoll(m) PROVE Located' /\ AtMostOnce'
    BY <1>8 DEF SendPoll
  <1>9. ASSUME NEW m \in Machine, ReceiveBatch(m) PROVE Located' /\ AtMostOnce'
    BY <1>9 DEF ReceiveBatch
  <1>10. ASSUME NEW m \in Machine, StartCommand(m) PROVE Located' /\ AtMostOnce'
    BY <1>10 DEF StartCommand, Oldest
  <1>11. ASSUME NEW m \in Machine, AbandonCommand(m) PROVE Located' /\ AtMostOnce'
    BY <1>11 DEF AbandonCommand, Ack
  <1>12. ASSUME NEW m \in Machine, EndBatch(m) PROVE Located' /\ AtMostOnce'
    BY <1>12 DEF EndBatch
  <1>13. ASSUME NEW m \in Machine, AgentRestart(m) PROVE Located' /\ AtMostOnce'
    BY <1>13 DEF AgentRestart
  <1>14. ASSUME NEW c \in Cmd, NEW ok \in BOOLEAN, FinishCommand(c, ok)
         PROVE  Located' /\ AtMostOnce'
    BY <1>14 DEF FinishCommand, Returns, Ack
  <1>15. ASSUME NEW c \in Cmd, NEW ok \in BOOLEAN, FinishOrphan(c, ok)
         PROVE  Located' /\ AtMostOnce'
    BY <1>15 DEF FinishOrphan, Returns
  <1>16. ASSUME NEW m \in Machine, PollFails(m) PROVE Located' /\ AtMostOnce'
    BY <1>16 DEF PollFails, Fault
  <1>17. ASSUME NEW m \in Machine, AgentCrash(m) PROVE Located' /\ AtMostOnce'
    BY <1>17 DEF AgentCrash, Fault
  <1>18. ASSUME NEW a \in acks, LoseAck(a) PROVE Located' /\ AtMostOnce'
    BY <1>18 DEF LoseAck, Fault
  <1>19. CASE ServerRestart
    BY <1>19 DEF ServerRestart, Fault
  <1>20. CASE UNCHANGED vars
    BY <1>20 DEF vars
  <1> QED
    BY <1>1, <1>2, <1>3, <1>4, <1>5, <1>6, <1>7, <1>8, <1>9, <1>10, <1>11, <1>12, <1>13,
       <1>14, <1>15, <1>16, <1>17, <1>18, <1>19, <1>20
       DEF Next, ServerStep, AgentStep, FaultStep

(* A command is executed at most once, under any number of lost messages,    *)
(* agent crashes and server restarts.                                        *)
THEOREM AtMostOnceAlways == Spec => [](AtMostOnce /\ Located)
<1>1. Init => Located /\ AtMostOnce
  BY DEF Init, Located, AtMostOnce
<1> QED
  BY <1>1, TypeCorrect, LocatedInductive, PTL DEF Spec

-----------------------------------------------------------------------------
(* A handler returns once: its outcome is fixed from then on, and every ack  *)
(* of success on its way is for a handler that returned ok.                  *)
Truthful ==
    /\ AnswersAreTrue
    /\ \A c \in Cmd : outcome[c] # "none" => routine[c] = "returned"
    /\ \A c \in Cmd : runs[c] = 0 => routine[c] = "none"
    /\ \A a \in acks : a.success => outcome[a.cmd] = "ok"

(* The goroutines past the guard of dr-setup are running, and the flag of    *)
(* their agent is set.                                                       *)
Guarded ==
    /\ DrSetupExclusive
    /\ \A c \in installing : routine[c] = "running" /\ drSetupInProgress[Dest[c]]

LEMMA TruthfulInductive ==
    ASSUME TypeOK, TypeOK', Located, Truthful, Guarded, [Next]_vars
    PROVE  Truthful' /\ Guarded'
  <1> USE QueueAssumption DEF TypeOK, Located, Truthful, AnswersAreTrue,
        Guarded, DrSetupExclusive, serverVars, agentVars, drVars, netVars, histVars
  <1>1. CASE Tick
    BY <1>1 DEF Tick
  <1>2. ASSUME NEW c \in Cmd, CreateCommand(c) PROVE Truthful' /\ Guarded'
    BY <1>2 DEF CreateCommand
  <1>3. ASSUME NEW c \in Cmd, WaiterSeesVerdict(c) PROVE Truthful' /\ Guarded'
    BY <1>3 DEF WaiterSeesVerdict
  <1>4. ASSUME NEW c \in Cmd, WaiterTimesOut(c) PROVE Truthful' /\ Guarded'
    BY <1>4 DEF WaiterTimesOut
  <1>5. ASSUME NEW m \in Machine, ServePoll(m) PROVE Truthful' /\ Guarded'
    BY <1>5 DEF ServePoll, MarkSent, Pending
  <1>6. ASSUME NEW m \in Machine, ServeAbandonedPoll(m) PROVE Truthful' /\ Guarded'
    BY <1>6 DEF ServeAbandonedPoll, MarkSent, Pending
  <1>7. ASSUME NEW a \in acks, ServeAck(a) PROVE Truthful' /\ Guarded'
    BY <1>7 DEF ServeAck, Verdict, Ack
  <1>8. ASSUME NEW m \in Machine, SendPoll(m) PROVE Truthful' /\ Guarded'
    BY <1>8 DEF SendPoll
  <1>9. ASSUME NEW m \in Machine, ReceiveBatch(m) PROVE Truthful' /\ Guarded'
    BY <1>9 DEF ReceiveBatch
  <1>10. ASSUME NEW m \in Machine, StartCommand(m) PROVE Truthful' /\ Guarded'
    <2>1. PICK c \in Oldest(batch[m]) :
             /\ routine' = [routine EXCEPT ![c] = "running"]
             /\ runs'    = [runs EXCEPT ![c] = @ + 1]
             /\ installing' = IF EntersDrSetup(c) THEN installing \cup {c}
                                                  ELSE installing
             /\ drSetupInProgress' =
                  [drSetupInProgress EXCEPT ![m] = @ \/ EntersDrSetup(c)]
      BY <1>10 DEF StartCommand
    <2>2. c \in Cmd /\ Dest[c] = m /\ runs[c] = 0 /\ status[c] = "sent"
      BY <2>1 DEF Oldest
    <2>3. UNCHANGED <<serverVars, netVars, outcome>>
      BY <1>10 DEF StartCommand
    <2>4. Truthful'
      BY <2>1, <2>2, <2>3
    <2>5. Guarded'
      <3>1. CASE EntersDrSetup(c)
        <4>1. \A d \in installing : Dest[d] # m
          BY <2>2, <3>1 DEF EntersDrSetup
        <4>2. installing' = installing \cup {c}
          BY <2>1, <3>1
        <4>3. drSetupInProgress' = [drSetupInProgress EXCEPT ![m] = TRUE]
          BY <2>1, <3>1
        <4>4. DrSetupExclusive'
          BY <2>2, <4>1, <4>2
        <4>5. \A d \in installing' : routine'[d] = "running" /\ drSetupInProgress'[Dest[d]]
          BY <2>1, <2>2, <4>2, <4>3
        <4> QED BY <4>4, <4>5
      <3>2. CASE ~EntersDrSetup(c)
        BY <2>1, <2>2, <3>2
      <3> QED BY <3>1, <3>2
    <2> QED BY <2>4, <2>5
  <1>11. ASSUME NEW m \in Machine, AbandonCommand(m) PROVE Truthful' /\ Guarded'
    BY <1>11 DEF AbandonCommand, Ack
  <1>12. ASSUME NEW m \in Machine, EndBatch(m) PROVE Truthful' /\ Guarded'
    BY <1>12 DEF EndBatch
  <1>13. ASSUME NEW m \in Machine, AgentRestart(m) PROVE Truthful' /\ Guarded'
    BY <1>13 DEF AgentRestart
  <1>14. ASSUME NEW c \in Cmd, NEW ok \in BOOLEAN, FinishCommand(c, ok)
         PROVE  Truthful' /\ Guarded'
    <2>1. UNCHANGED <<serverVars, runs>>
      BY <1>14 DEF FinishCommand
    <2>2. Truthful'
      <3>1. /\ routine[c] = "running" /\ outcome[c] = "none"
            /\ routine' = [routine EXCEPT ![c] = "returned"]
            /\ outcome' = [outcome EXCEPT ![c] = IF ok THEN "ok" ELSE "error"]
        BY <1>14 DEF FinishCommand, Returns
      <3>2. acks' = acks \cup {[cmd |-> c, success |-> ok]}
        BY <1>14 DEF FinishCommand
      <3>3. \A d \in Cmd : outcome[d] = "ok" => outcome'[d] = "ok"
        BY <3>1
      <3>4. \A d \in Cmd : outcome'[d] # "none" => routine'[d] = "returned"
        BY <3>1
      <3>5. \A d \in Cmd : runs'[d] = 0 => routine'[d] = "none"
        BY <2>1, <3>1
      <3>6. \A a \in acks' : a.success => outcome'[a.cmd] = "ok"
        BY <3>1, <3>2, <3>3 DEF Ack
      <3>7. AnswersAreTrue'
        BY <2>1, <3>3
      <3> QED BY <3>4, <3>5, <3>6, <3>7
    <2>3. Guarded'
      <3>1. /\ installing' = installing \ {c}
            /\ routine' = [routine EXCEPT ![c] = "returned"]
            /\ drSetupInProgress' =
                 [drSetupInProgress EXCEPT ![Dest[c]] = @ /\ c \notin installing]
        BY <1>14 DEF FinishCommand, Returns
      <3>2. CASE c \in installing
        <4>1. \A d \in installing' : d # c /\ Dest[d] # Dest[c]
          BY <3>1, <3>2
        <4>2. \A d \in installing' : drSetupInProgress'[Dest[d]] = drSetupInProgress[Dest[d]]
          BY <3>1, <4>1
        <4> QED BY <3>1, <4>1, <4>2
      <3>3. CASE c \notin installing
        BY <3>1, <3>3
      <3> QED BY <3>2, <3>3
    <2> QED BY <2>2, <2>3
  <1>15. ASSUME NEW c \in Cmd, NEW ok \in BOOLEAN, FinishOrphan(c, ok)
         PROVE  Truthful' /\ Guarded'
    <2>1. UNCHANGED <<serverVars, acks, runs>>
      BY <1>15 DEF FinishOrphan
    <2>2. Truthful'
      <3>1. /\ routine[c] = "running" /\ outcome[c] = "none"
            /\ routine' = [routine EXCEPT ![c] = "returned"]
            /\ outcome' = [outcome EXCEPT ![c] = IF ok THEN "ok" ELSE "error"]
        BY <1>15 DEF FinishOrphan, Returns
      <3>2. \A d \in Cmd : outcome[d] = "ok" => outcome'[d] = "ok"
        BY <3>1
      <3>3. \A d \in Cmd : outcome'[d] # "none" => routine'[d] = "returned"
        BY <3>1
      <3>4. \A d \in Cmd : runs'[d] = 0 => routine'[d] = "none"
        BY <2>1, <3>1
      <3>5. \A a \in acks' : a.success => outcome'[a.cmd] = "ok"
        BY <2>1, <3>2 DEF Ack
      <3>6. AnswersAreTrue'
        BY <2>1, <3>2
      <3> QED BY <3>3, <3>4, <3>5, <3>6
    <2>3. Guarded'
      <3>1. /\ installing' = installing \ {c}
            /\ routine' = [routine EXCEPT ![c] = "returned"]
            /\ drSetupInProgress' =
                 [drSetupInProgress EXCEPT ![Dest[c]] = @ /\ c \notin installing]
        BY <1>15 DEF FinishOrphan, Returns
      <3>2. CASE c \in installing
        <4>1. \A d \in installing' : d # c /\ Dest[d] # Dest[c]
          BY <3>1, <3>2
        <4>2. \A d \in installing' : drSetupInProgress'[Dest[d]] = drSetupInProgress[Dest[d]]
          BY <3>1, <4>1
        <4> QED BY <3>1, <4>1, <4>2
      <3>3. CASE c \notin installing
        BY <3>1, <3>3
      <3> QED BY <3>2, <3>3
    <2> QED BY <2>2, <2>3
  <1>16. ASSUME NEW m \in Machine, PollFails(m) PROVE Truthful' /\ Guarded'
    BY <1>16 DEF PollFails, Fault
  <1>17. ASSUME NEW m \in Machine, AgentCrash(m) PROVE Truthful' /\ Guarded'
    BY <1>17 DEF AgentCrash, Fault, Running
  <1>18. ASSUME NEW a \in acks, LoseAck(a) PROVE Truthful' /\ Guarded'
    BY <1>18 DEF LoseAck, Fault
  <1>19. CASE ServerRestart
    BY <1>19 DEF ServerRestart, Fault
  <1>20. CASE UNCHANGED vars
    BY <1>20 DEF vars
  <1> QED
    BY <1>1, <1>2, <1>3, <1>4, <1>5, <1>6, <1>7, <1>8, <1>9, <1>10, <1>11, <1>12, <1>13,
       <1>14, <1>15, <1>16, <1>17, <1>18, <1>19, <1>20
       DEF Next, ServerStep, AgentStep, FaultStep

(* 'acked' and a 200 from POST /run only for commands that succeeded; at     *)
(* most one dr-setup past its guard on each machine, orphans included.       *)
THEOREM AnswersAreTrueAlways == Spec => [](AnswersAreTrue /\ DrSetupExclusive)
<1>1. Init => Truthful /\ Guarded
  BY DEF Init, Truthful, AnswersAreTrue, Guarded, DrSetupExclusive
<1>2. Truthful /\ Guarded => AnswersAreTrue /\ DrSetupExclusive
  BY DEF Truthful, Guarded
<1> QED
  BY <1>1, <1>2, TypeCorrect, AtMostOnceAlways, TruthfulInductive, PTL DEF Spec

(* At most one dr-setup of a machine is past its compare-and-swap, even    *)
(* when the first was abandoned and goes on as an orphan (handleDRSetup).  *)
THEOREM DrSetupIsExclusive == Spec => []DrSetupExclusive
  BY AnswersAreTrueAlways, PTL

-----------------------------------------------------------------------------
(* Everything an agent has started or fetched is older than what is still    *)
(* pending for it, and everything it started is older than what it fetched.  *)
Ordered ==
    /\ clock > 0
    /\ \A c \in Cmd : created[c] <= clock
    /\ \A c \in Cmd : created[c] = 0 <=> status[c] = "none"
    /\ \A c, d \in Cmd : Dest[c] = Dest[d] /\ runs[d] > 0 /\ status[c] = "pending"
                           => created[d] <= created[c]
    /\ \A c, d \in Cmd : /\ Dest[c] = Dest[d]
                          /\ d \in reply[Dest[c]] \cup batch[Dest[c]]
                          /\ status[c] = "pending"
                          => created[d] <= created[c]
    /\ \A c, d \in Cmd : /\ Dest[c] = Dest[d] /\ runs[d] > 0
                          /\ c \in reply[Dest[c]] \cup batch[Dest[c]]
                          => created[d] <= created[c]

LEMMA OrderedInductive ==
    ASSUME TypeOK, TypeOK', Located, Ordered, [Next]_vars
    PROVE  Ordered'
  <1> USE QueueAssumption DEF TypeOK, Located, Ordered,
        serverVars, agentVars, drVars, netVars, histVars
  <1>1. CASE Tick
    BY <1>1 DEF Tick
  <1>2. ASSUME NEW c \in Cmd, CreateCommand(c) PROVE Ordered'
    BY <1>2 DEF CreateCommand
  <1>3. ASSUME NEW c \in Cmd, WaiterSeesVerdict(c) PROVE Ordered'
    BY <1>3 DEF WaiterSeesVerdict
  <1>4. ASSUME NEW c \in Cmd, WaiterTimesOut(c) PROVE Ordered'
    BY <1>4 DEF WaiterTimesOut
  <1>5. ASSUME NEW m \in Machine, ServePoll(m) PROVE Ordered'
    BY <1>5 DEF ServePoll, MarkSent, Pending
  <1>6. ASSUME NEW m \in Machine, ServeAbandonedPoll(m) PROVE Ordered'
    BY <1>6 DEF ServeAbandonedPoll, MarkSent, Pending
  <1>7. ASSUME NEW a \in acks, ServeAck(a) PROVE Ordered'
    BY <1>7 DEF ServeAck, Verdict, Ack
  <1>8. ASSUME NEW m \in Machine, SendPoll(m) PROVE Ordered'
    BY <1>8 DEF SendPoll
  <1>9. ASSUME NEW m \in Machine, ReceiveBatch(m) PROVE Ordered'
    BY <1>9 DEF ReceiveBatch
  <1>10. ASSUME NEW m \in Machine, StartCommand(m) PROVE Ordered'
    BY <1>10 DEF StartCommand, Oldest, EntersDrSetup
  <1>11. ASSUME NEW m \in Machine, AbandonCommand(m) PROVE Ordered'
    BY <1>11 DEF AbandonCommand, Ack
  <1>12. ASSUME NEW m \in Machine, EndBatch(m) PROVE Ordered'
    BY <1>12 DEF EndBatch
  <1>13. ASSUME NEW m \in Machine, AgentRestart(m) PROVE Ordered'
    BY <1>13 DEF AgentRestart
  <1>14. ASSUME NEW c \in Cmd, NEW ok \in BOOLEAN, FinishCommand(c, ok) PROVE Ordered'
    BY <1>14 DEF FinishCommand, Returns, Ack
  <1>15. ASSUME NEW c \in Cmd, NEW ok \in BOOLEAN, FinishOrphan(c, ok) PROVE Ordered'
    BY <1>15 DEF FinishOrphan, Returns
  <1>16. ASSUME NEW m \in Machine, PollFails(m) PROVE Ordered'
    BY <1>16 DEF PollFails, Fault
  <1>17. ASSUME NEW m \in Machine, AgentCrash(m) PROVE Ordered'
    BY <1>17 DEF AgentCrash, Fault, Running
  <1>18. ASSUME NEW a \in acks, LoseAck(a) PROVE Ordered'
    BY <1>18 DEF LoseAck, Fault
  <1>19. CASE ServerRestart
    BY <1>19 DEF ServerRestart, Fault
  <1>20. CASE UNCHANGED vars
    BY <1>20 DEF vars
  <1> QED
    BY <1>1, <1>2, <1>3, <1>4, <1>5, <1>6, <1>7, <1>8, <1>9, <1>10, <1>11, <1>12, <1>13,
       <1>14, <1>15, <1>16, <1>17, <1>18, <1>19, <1>20
       DEF Next, ServerStep, AgentStep, FaultStep

LEMMA OrderedInit == Init => Ordered
  BY QueueAssumption DEF Init, Ordered

(* A command never starts after a younger command of the same machine.       *)
THEOREM StartsInOrderAlways == Spec => StartsInOrder
<1>1. TypeOK /\ Located /\ Ordered /\ [Next]_vars => StartIsInOrder
  <2> SUFFICES ASSUME TypeOK, Located, Ordered, [Next]_vars,
                      NEW c \in Cmd, NEW d \in Cmd,
                      Dest[c] = Dest[d], runs[d] > 0, runs'[c] > runs[c]
               PROVE  created[d] <= created[c]
    BY DEF StartIsInOrder
  <2>1. PICK m \in Machine : StartCommand(m)
    <3> SUFFICES ASSUME \A m \in Machine : ~StartCommand(m) PROVE runs' = runs
      BY DEF TypeOK
    <3> QED
      BY DEF Next, vars, ServerStep, AgentStep, FaultStep, Tick, CreateCommand,
         WaiterSeesVerdict, WaiterTimesOut, ServePoll, ServeAbandonedPoll, ServeAck,
         SendPoll, ReceiveBatch, AbandonCommand, EndBatch, AgentRestart, FinishCommand,
         FinishOrphan, PollFails, AgentCrash, LoseAck, ServerRestart, histVars
  <2>2. c \in batch[m] /\ Dest[c] = m
    BY <2>1, QueueAssumption DEF StartCommand, Oldest, TypeOK, Located
  <2> QED
    BY <2>2 DEF Ordered
<1> QED
  BY <1>1, TypeCorrect, AtMostOnceAlways, OrderedInit, OrderedInductive, PTL
     DEF Spec, StartsInOrder

-----------------------------------------------------------------------------
(* A command is acked once: its ack, if on its way, is the only one, the     *)
(* command is still 'sent', and commandLoop is no longer waiting for it.     *)
AckedOnce ==
    /\ \A a \in acks : status[a.cmd] = "sent"
    /\ \A a, b \in acks : a.cmd = b.cmd => a = b
    /\ \A m \in Machine : current[m] # NoCmd =>
         status[current[m]] = "sent" /\ \A a \in acks : a.cmd # current[m]

LEMMA AckedOnceInductive ==
    ASSUME TypeOK, TypeOK', Located, AckedOnce, [Next]_vars
    PROVE  AckedOnce'
  <1> USE QueueAssumption DEF TypeOK, Located, AckedOnce,
        serverVars, agentVars, drVars, netVars, histVars
  <1>1. CASE Tick
    BY <1>1 DEF Tick
  <1>2. ASSUME NEW c \in Cmd, CreateCommand(c) PROVE AckedOnce'
    BY <1>2 DEF CreateCommand
  <1>3. ASSUME NEW c \in Cmd, WaiterSeesVerdict(c) PROVE AckedOnce'
    BY <1>3 DEF WaiterSeesVerdict
  <1>4. ASSUME NEW c \in Cmd, WaiterTimesOut(c) PROVE AckedOnce'
    BY <1>4 DEF WaiterTimesOut
  <1>5. ASSUME NEW m \in Machine, ServePoll(m) PROVE AckedOnce'
    <2>1. status' = MarkSent(m) /\ UNCHANGED <<acks, current>>
      BY <1>5 DEF ServePoll
    <2>2. \A c \in Cmd : status[c] = "sent" => status'[c] = "sent"
      BY <2>1 DEF MarkSent, Pending
    <2> QED BY <2>1, <2>2 DEF Ack
  <1>6. ASSUME NEW m \in Machine, ServeAbandonedPoll(m) PROVE AckedOnce'
    <2>1. status' = MarkSent(m) /\ UNCHANGED <<acks, current>>
      BY <1>6 DEF ServeAbandonedPoll
    <2>2. \A c \in Cmd : status[c] = "sent" => status'[c] = "sent"
      BY <2>1 DEF MarkSent, Pending
    <2> QED BY <2>1, <2>2 DEF Ack
  <1>7. ASSUME NEW a \in acks, ServeAck(a) PROVE AckedOnce'
    BY <1>7 DEF ServeAck, Verdict, Ack
  <1>8. ASSUME NEW m \in Machine, SendPoll(m) PROVE AckedOnce'
    BY <1>8 DEF SendPoll
  <1>9. ASSUME NEW m \in Machine, ReceiveBatch(m) PROVE AckedOnce'
    BY <1>9 DEF ReceiveBatch
  <1>10. ASSUME NEW m \in Machine, StartCommand(m) PROVE AckedOnce'
    BY <1>10 DEF StartCommand, Oldest, EntersDrSetup
  <1>11. ASSUME NEW m \in Machine, AbandonCommand(m) PROVE AckedOnce'
    BY <1>11 DEF AbandonCommand, Ack
  <1>12. ASSUME NEW m \in Machine, EndBatch(m) PROVE AckedOnce'
    BY <1>12 DEF EndBatch
  <1>13. ASSUME NEW m \in Machine, AgentRestart(m) PROVE AckedOnce'
    BY <1>13 DEF AgentRestart
  <1>14. ASSUME NEW c \in Cmd, NEW ok \in BOOLEAN, FinishCommand(c, ok)
         PROVE  AckedOnce'
    BY <1>14 DEF FinishCommand, Returns, Ack
  <1>15. ASSUME NEW c \in Cmd, NEW ok \in BOOLEAN, FinishOrphan(c, ok)
         PROVE  AckedOnce'
    BY <1>15 DEF FinishOrphan, Returns
  <1>16. ASSUME NEW m \in Machine, PollFails(m) PROVE AckedOnce'
    BY <1>16 DEF PollFails, Fault
  <1>17. ASSUME NEW m \in Machine, AgentCrash(m) PROVE AckedOnce'
    BY <1>17 DEF AgentCrash, Fault, Running
  <1>18. ASSUME NEW a \in acks, LoseAck(a) PROVE AckedOnce'
    BY <1>18 DEF LoseAck, Fault
  <1>19. CASE ServerRestart
    BY <1>19 DEF ServerRestart, Fault
  <1>20. CASE UNCHANGED vars
    BY <1>20 DEF vars
  <1> QED
    BY <1>1, <1>2, <1>3, <1>4, <1>5, <1>6, <1>7, <1>8, <1>9, <1>10, <1>11, <1>12, <1>13,
       <1>14, <1>15, <1>16, <1>17, <1>18, <1>19, <1>20
       DEF Next, ServerStep, AgentStep, FaultStep

-----------------------------------------------------------------------------
(* The queue implements CommandDelivery.                                     *)

LEMMA RefinesInit == Init => Delivery!Init
  BY QueueAssumption DEF Init, Delivery!Init

\* Tick, the HTTP callers, the network and the agent's bookkeeping stutter.
LEMMA RefinesStutter ==
    ASSUME UNCHANGED <<created, runs, outcome, status>>
    PROVE  UNCHANGED Delivery!vars
  BY DEF Delivery!vars

\* Marking 'sent' changes no verdict.
LEMMA RefinesMark ==
    ASSUME TypeOK, NEW m \in Machine, status' = MarkSent(m), UNCHANGED <<created, runs, outcome>>
    PROVE  UNCHANGED Delivery!vars
  <1>1. \A c \in Cmd : IF status'[c] \in {"acked", "failed"} THEN status'[c] = status[c]
                      ELSE status[c] \notin {"acked", "failed"}
    BY DEF MarkSent, Pending, TypeOK
  <1> QED BY <1>1 DEF Delivery!vars

LEMMA RefinesReturn ==
    ASSUME TypeOK, Located, Truthful, AtMostOnce,
           NEW c \in Cmd, NEW ok \in BOOLEAN, Returns(c, ok),
           UNCHANGED <<created, runs, status>>
    PROVE  Delivery!Succeed(c) \/ UNCHANGED Delivery!vars
  <1>1. /\ routine[c] = "running" /\ outcome[c] = "none"
        /\ outcome' = [outcome EXCEPT ![c] = IF ok THEN "ok" ELSE "error"]
    BY DEF Returns, Truthful
  <1>2. runs[c] = 1
    BY <1>1 DEF Truthful, AtMostOnce, TypeOK
  <1>3. CASE ok
    <2>1. {d \in Cmd : outcome'[d] = "ok"} = {d \in Cmd : outcome[d] = "ok"} \cup {c}
      BY <1>1, <1>3 DEF TypeOK
    <2> QED BY <1>1, <1>2, <2>1 DEF Delivery!Succeed
  <1>4. CASE ~ok
    <2>1. {d \in Cmd : outcome'[d] = "ok"} = {d \in Cmd : outcome[d] = "ok"}
      BY <1>1, <1>4 DEF TypeOK
    <2> QED BY <2>1 DEF Delivery!vars
  <1> QED BY <1>3, <1>4

\* The ack of a command without verdict gives it one.
LEMMA RefinesAck ==
    ASSUME TypeOK, Located, Truthful, AckedOnce, NEW a \in acks, ServeAck(a)
    PROVE  Delivery!Answer(a.cmd)
  <1>1. /\ a.cmd \in Cmd /\ runs[a.cmd] = 1 /\ status[a.cmd] = "sent"
        /\ a.success => outcome[a.cmd] = "ok"
    BY DEF TypeOK, Ack, Located, Truthful, AckedOnce
  <1>2. /\ status' = [status EXCEPT ![a.cmd] = Verdict(a.success)]
        /\ UNCHANGED <<created, runs, outcome>>
    BY DEF ServeAck, histVars
  <1>3. CASE a.success
    BY <1>1, <1>2, <1>3 DEF Delivery!Answer, Verdict, TypeOK
  <1>4. CASE ~a.success
    BY <1>1, <1>2, <1>4 DEF Delivery!Answer, Verdict, TypeOK
  <1> QED BY <1>3, <1>4

LEMMA RefinesIssue ==
    ASSUME TypeOK, Ordered, NEW c \in Cmd, CreateCommand(c)
    PROVE  Delivery!Issue(c)
  <1>1. /\ status[c] = "none" /\ created[c] = 0
        /\ status' = [status EXCEPT ![c] = "pending"]
        /\ created' = [created EXCEPT ![c] = clock]
        /\ UNCHANGED <<runs, outcome>>
    BY DEF CreateCommand, Ordered, histVars
  <1>2. created'[c] = clock /\ clock \in Nat \ {0} /\ \A d \in Cmd : created[d] <= clock
    BY <1>1 DEF TypeOK, Ordered
  <1>3. \A d \in Cmd : status'[d] \in {"acked", "failed"} <=> status[d] \in {"acked", "failed"}
    BY <1>1 DEF TypeOK
  <1>4. \A d \in Cmd : status'[d] \in {"acked", "failed"} => status'[d] = status[d]
    BY <1>1 DEF TypeOK
  <1> QED
    BY <1>1, <1>2, <1>3, <1>4 DEF Delivery!Issue

LEMMA RefinesStart ==
    ASSUME TypeOK, Located, Ordered, NEW m \in Machine, StartCommand(m)
    PROVE  \E c \in Cmd : Delivery!Start(c)
  <1>1. PICK c \in Oldest(batch[m]) :
           runs' = [runs EXCEPT ![c] = @ + 1] /\ UNCHANGED <<serverVars, outcome>>
    BY DEF StartCommand
  <1>2. c \in Cmd /\ c \in batch[m] /\ Dest[c] = m /\ runs[c] = 0 /\ status[c] = "sent"
    BY <1>1 DEF Oldest, TypeOK, Located
  <1>3. created[c] > 0
    BY <1>2 DEF Ordered, TypeOK
  <1>4. \A d \in Cmd : Dest[d] = Dest[c] /\ runs[d] > 0 => created[d] <= created[c]
    BY <1>2 DEF Ordered
  <1> QED
    <2>1. runs' = [runs EXCEPT ![c] = 1]
      BY <1>1, <1>2
    <2>2. UNCHANGED <<created, status, outcome>>
      BY <1>1 DEF serverVars
    <2> QED BY <1>2, <1>3, <1>4, <2>1, <2>2 DEF Delivery!Start

(* Every behaviour of the queue is one that CommandDelivery allows: at most  *)
(* once, in order per machine, one true verdict per command.                 *)
THEOREM QueueImplementsDelivery == Spec => ImplementsDelivery
<1>1. TypeOK /\ Located /\ AtMostOnce /\ Truthful /\ Ordered /\ AckedOnce /\ [Next]_vars
        => [Delivery!Next]_(Delivery!vars)
  <2> SUFFICES ASSUME TypeOK, Located, AtMostOnce, Truthful, Ordered, AckedOnce, [Next]_vars
               PROVE  Delivery!Next \/ UNCHANGED Delivery!vars
    OBVIOUS
  <2>1. ASSUME NEW c \in Cmd, CreateCommand(c) PROVE Delivery!Next
    BY <2>1, RefinesIssue DEF Delivery!Next
  <2>2. ASSUME NEW m \in Machine, StartCommand(m) PROVE Delivery!Next
    BY <2>2, RefinesStart DEF Delivery!Next
  <2>3. ASSUME NEW c \in Cmd, NEW ok \in BOOLEAN, FinishCommand(c, ok) \/ FinishOrphan(c, ok)
        PROVE  Delivery!Next \/ UNCHANGED Delivery!vars
    <3>1. Returns(c, ok) /\ UNCHANGED <<created, runs, status>>
      BY <2>3 DEF FinishCommand, FinishOrphan, serverVars
    <3> QED BY <3>1, RefinesReturn DEF Delivery!Next
  <2>4. ASSUME NEW a \in acks, ServeAck(a) PROVE Delivery!Next
    <3>1. a.cmd \in Cmd
      BY DEF TypeOK, Ack
    <3> QED BY <2>4, <3>1, RefinesAck DEF Delivery!Next
  <2>5. ASSUME NEW m \in Machine, ServePoll(m) \/ ServeAbandonedPoll(m)
        PROVE  UNCHANGED Delivery!vars
    <3>1. status' = MarkSent(m) /\ UNCHANGED <<created, runs, outcome>>
      BY <2>5 DEF ServePoll, ServeAbandonedPoll, histVars
    <3> QED BY <3>1, RefinesMark
  <2>6. ASSUME Tick \/ ServerRestart PROVE UNCHANGED <<created, runs, outcome, status>>
    BY <2>6 DEF Tick, ServerRestart, histVars
  <2>7. ASSUME NEW c \in Cmd, WaiterSeesVerdict(c) \/ WaiterTimesOut(c)
        PROVE  UNCHANGED <<created, runs, outcome, status>>
    BY <2>7 DEF WaiterSeesVerdict, WaiterTimesOut, histVars
  <2>8. ASSUME NEW m \in Machine,
               \/ SendPoll(m) \/ ReceiveBatch(m) \/ AbandonCommand(m) \/ EndBatch(m)
               \/ AgentRestart(m) \/ PollFails(m) \/ AgentCrash(m)
        PROVE  UNCHANGED <<created, runs, outcome, status>>
    BY <2>8 DEF SendPoll, ReceiveBatch, AbandonCommand, EndBatch, AgentRestart, PollFails,
                AgentCrash, serverVars, histVars
  <2>9. ASSUME NEW a \in acks, LoseAck(a) PROVE UNCHANGED <<created, runs, outcome, status>>
    BY <2>9 DEF LoseAck, serverVars, histVars
  <2>10. ASSUME UNCHANGED vars PROVE UNCHANGED <<created, runs, outcome, status>>
    BY <2>10 DEF vars
  <2> QED
    BY <2>1, <2>2, <2>3, <2>4, <2>5, <2>6, <2>7, <2>8, <2>9, <2>10, RefinesStutter
       DEF Next, ServerStep, AgentStep, FaultStep
<1>2. Init => Truthful /\ Guarded /\ AckedOnce
  BY DEF Init, Truthful, AnswersAreTrue, Guarded, DrSetupExclusive, AckedOnce
<1> QED
  BY <1>1, <1>2, TypeCorrect, AtMostOnceAlways, OrderedInit, OrderedInductive,
     TruthfulInductive, AckedOnceInductive, RefinesInit, PTL
     DEF Spec, ImplementsDelivery, Delivery!Spec
=============================================================================
