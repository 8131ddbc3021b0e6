--------------------------- MODULE CommandDelivery ---------------------------
(***************************************************************************)
(* What the command queue promises to the operator who issues commands:    *)
(* every command starts at most once, the commands of one machine start in *)
(* the order they were issued, a command gets at most one verdict, only    *)
(* after it started, and the verdict 'acked' only after it succeeded.  It  *)
(* does not promise that a command starts, nor that 'failed' means that it *)
(* had or will have no effect: an abandoned handler may still succeed.     *)
(***************************************************************************)
EXTENDS Naturals

CONSTANTS Machine, Cmd, Dest

VARIABLES
    createdAt,   \* [Cmd -> Nat]: 0 for a command that was not issued
    starts,      \* [Cmd -> Nat]: times the command was started
    succeeded,   \* SUBSET Cmd: the commands whose effect is complete
    verdict      \* [Cmd -> {"open", "acked", "failed"}]

vars == <<createdAt, starts, succeeded, verdict>>

Init ==
    /\ createdAt = [c \in Cmd |-> 0]
    /\ starts    = [c \in Cmd |-> 0]
    /\ succeeded = {}
    /\ verdict   = [c \in Cmd |-> "open"]

\* Time does not go back between two commands.
Issue(c) ==
    /\ createdAt[c] = 0
    /\ createdAt'[c] \in Nat \ {0}
    /\ \A d \in Cmd : createdAt[d] <= createdAt'[c]
    /\ createdAt' = [createdAt EXCEPT ![c] = createdAt'[c]]
    /\ UNCHANGED <<starts, succeeded, verdict>>

Start(c) ==
    /\ createdAt[c] > 0 /\ starts[c] = 0
    /\ \A d \in Cmd : Dest[d] = Dest[c] /\ starts[d] > 0
                        => createdAt[d] <= createdAt[c]
    /\ starts' = [starts EXCEPT ![c] = 1]
    /\ UNCHANGED <<createdAt, succeeded, verdict>>

\* Before its verdict or after it: that is an orphan.
Succeed(c) ==
    /\ starts[c] = 1 /\ c \notin succeeded
    /\ succeeded' = succeeded \cup {c}
    /\ UNCHANGED <<createdAt, starts, verdict>>

Answer(c) ==
    /\ starts[c] = 1 /\ verdict[c] = "open"
    /\ \/ c \in succeeded /\ verdict' = [verdict EXCEPT ![c] = "acked"]
       \/ verdict' = [verdict EXCEPT ![c] = "failed"]
    /\ UNCHANGED <<createdAt, starts, succeeded>>

Next == \E c \in Cmd : Issue(c) \/ Start(c) \/ Succeed(c) \/ Answer(c)

Spec == Init /\ [][Next]_vars
=============================================================================
