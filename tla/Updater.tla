-------------------------------- MODULE Updater --------------------------------
(***************************************************************************)
(* How an agent replaces its own executable (agent/updater.go): the server     *)
(* publishes a binary and version.json, heartbeats and the command "update"    *)
(* start checkAndUpdate, and the service control manager starts the service    *)
(* again from whatever lies at the path of the executable.                    *)
(*                                                                         *)
(* A binary is the number of its version.  A download that runs while the      *)
(* server overwrites the file may get parts of both ("Torn").  Windows lets a  *)
(* running image be renamed, but neither removed nor replaced.                *)
(***************************************************************************)
EXTENDS Integers

CONSTANTS MaxVersion,  \* bound: versions published after the first
          MaxCommands, \* bound: commands "update"
          MaxCuts,     \* bound: power cuts, stops of the service
          MaxRefusals  \* bound: renames that Windows refuses (a scanner holds the file)

ASSUME UpdaterAssumption == MaxVersion \in Nat

None == -1
Torn == -2
Binary == 0..MaxVersion

By == {"heartbeat", "command"}  \* who started checkAndUpdate

VARIABLES
  served,    \* downloads/delirio-agent.exe
  info,      \* version.json
  exe, new, old,  \* the files of the agent: its path, .new and .old
  running,   \* version of the process, None while it is down
  image,     \* the file the process runs from: "exe" or "old"
  updating,  \* Agent.updating
  pc, target, got,  \* of every checkAndUpdate: where it stands, UpdateInfo,
             \* and the download
  crossed,   \* of every checkAndUpdate: .new was replaced after it validated it
  unrestored,  \* a rollback failed, so that the path stayed empty
  commands, cuts, refusals

server == <<served, info>>
files  == <<exe, new, old>>
update == <<updating, pc, target, got>>
swaps  == <<crossed, unrestored, refusals>>
vars   == <<server, files, running, image, update, swaps, commands, cuts>>

TypeOK ==
  /\ served \in Binary /\ info \in Binary
  /\ {exe, new, old} \subseteq Binary \cup {None, Torn}
  /\ running \in Binary \cup {None} /\ image \in {"exe", "old"}
  /\ updating \in BOOLEAN
  /\ pc \in [By -> {"idle", "download", "validate", "swap", "place", "exit"}]
  /\ target \in [By -> Binary] /\ got \in [By -> Binary]
  /\ crossed \in [By -> BOOLEAN] /\ unrestored \in BOOLEAN

Init ==
  /\ served = 0 /\ info = 0
  /\ exe = 0 /\ new = None /\ old = None
  /\ running = 0 /\ image = "exe"
  /\ updating = FALSE /\ pc = [b \in By |-> "idle"]
  /\ target = [b \in By |-> 0] /\ got = [b \in By |-> 0]
  /\ crossed = [b \in By |-> FALSE] /\ unrestored = FALSE
  /\ commands = 0 /\ cuts = 0 /\ refusals = 0

Up == running # None

(* POST /api/update/publish writes both files in one turn of the event loop.  *)
Publish ==
  /\ served < MaxVersion
  /\ served' = served + 1 /\ info' = served'
  /\ UNCHANGED <<files, running, image, update, swaps, commands, cuts>>

(* checkAndUpdate begins, unless the version is the own one.                  *)
Start(b, v) ==
  /\ pc[b] = "idle" /\ v # running
  /\ pc' = [pc EXCEPT ![b] = "download"]
  /\ target' = [target EXCEPT ![b] = v] /\ got' = [got EXCEPT ![b] = served]
  /\ UNCHANGED <<server, files, running, image, swaps, cuts>>

(* A heartbeat is answered with the published version: maybeStartUpdate.      *)
Heartbeat ==
  /\ Up /\ ~updating /\ updating' = TRUE
  /\ Start("heartbeat", info)
  /\ UNCHANGED commands

(* The command "update", for a version that was published: handleUpdate does   *)
(* not look at updating.                                                      *)
UpdateCommand ==
  /\ Up /\ commands < MaxCommands /\ commands' = commands + 1
  /\ \E v \in 0..info : Start("command", v)
  /\ UNCHANGED updating

MutKeepsFlag(b) ==  \* mutation: no deferred reset of updating
  /\ pc' = [pc EXCEPT ![b] = "idle"]
  /\ UNCHANGED <<updating, target, got>>

Done(b) ==
  /\ pc' = [pc EXCEPT ![b] = "idle"]
  /\ updating' = IF b = "heartbeat" THEN FALSE ELSE updating
  /\ UNCHANGED <<target, got>>

GoOn(b, next) ==
  /\ pc' = [pc EXCEPT ![b] = next]
  /\ UNCHANGED <<updating, target, got>>

(* downloadBinary: the whole body, renamed to .new, whoever validated the one   *)
(* that was there.                                                           *)
Downloaded(b) ==
  /\ Up /\ pc[b] = "download"
  /\ new' \in IF served = got[b] THEN {served} ELSE {got[b], Torn}
  /\ crossed' = [c \in By |-> crossed[c] \/ (c # b /\ pc[c] \in {"swap", "place"})]
  /\ GoOn(b, "validate")
  /\ UNCHANGED <<server, exe, old, running, image, unrestored, refusals, commands, cuts>>

(* downloadBinary fails: checkAndUpdate removes .new, whoever made it.        *)
DownloadFails(b) ==
  /\ Up /\ pc[b] = "download"
  /\ new' = None
  /\ Done(b)
  /\ UNCHANGED <<server, exe, old, running, image, swaps, commands, cuts>>

(* validateUpdate, of whatever is called .new by now.                         *)
Validate(b) ==
  /\ Up /\ pc[b] = "validate"
  /\ \/ /\ new = target[b]
        /\ crossed' = [crossed EXCEPT ![b] = FALSE]
        /\ GoOn(b, "swap")
        /\ UNCHANGED new
     \/ /\ new # target[b] /\ new' = None
        /\ Done(b)
        /\ UNCHANGED crossed
  /\ UNCHANGED <<server, exe, old, running, image, unrestored, refusals, commands, cuts>>

Refused(n) == refusals + n <= MaxRefusals /\ refusals' = refusals + n

(* os.Remove(oldExe) and the first rename of swapBinaries: the running image   *)
(* is not replaced.                                                          *)
CanMove == exe # None /\ (image = "exe" \/ old = None)

MoveAway(b) ==
  /\ Up /\ pc[b] = "swap"
  /\ \/ /\ CanMove
        /\ old' = exe /\ exe' = None
        /\ image' = "old"
        /\ GoOn(b, "place")
        /\ UNCHANGED <<new, refusals>>
     \/ /\ IF CanMove THEN Refused(1) ELSE UNCHANGED refusals
        /\ new' = None
        /\ old' = IF image = "old" THEN old ELSE None
        /\ Done(b)
        /\ UNCHANGED <<exe, image>>
  /\ UNCHANGED <<server, running, crossed, unrestored, commands, cuts>>

Placed(b) ==
  /\ new # None
  /\ exe' = new /\ new' = None
  /\ GoOn(b, "exit")
  /\ UNCHANGED <<old, image, unrestored, refusals>>

(* The second rename failed, because .new is gone or it is refused as well:    *)
(* os.Rename(oldExe, exe), whose own failure nobody looks at.                  *)
MutNoRollback(b) ==  \* mutation: the failed second rename is only reported
  /\ IF new = None THEN UNCHANGED refusals ELSE Refused(1)
  /\ Done(b)
  /\ UNCHANGED <<files, image, unrestored>>

RollsBack(b) ==
  /\ Done(b) /\ UNCHANGED new
  /\ \/ /\ IF new = None THEN UNCHANGED refusals ELSE Refused(1)
        /\ exe' = old /\ old' = None /\ image' = "exe"
        /\ UNCHANGED unrestored
     \/ /\ Refused(IF new = None THEN 1 ELSE 2)
        /\ unrestored' = TRUE
        /\ UNCHANGED <<exe, old, image>>

(* The second rename of swapBinaries.                                        *)
Place(b) ==
  /\ Up /\ pc[b] = "place"
  /\ Placed(b) \/ RollsBack(b)
  /\ UNCHANGED <<server, running, crossed, commands, cuts>>

(* The process is gone, with every goroutine in it.                           *)
Down ==
  /\ running' = None
  /\ updating' = FALSE /\ pc' = [b \in By |-> "idle"]
  /\ UNCHANGED <<server, files, image, target, got, swaps, commands>>

(* os.Exit(1), after the companion.                                           *)
Exit(b) == pc[b] = "exit" /\ Down /\ UNCHANGED cuts

PowerCut == Up /\ cuts < MaxCuts /\ cuts' = cuts + 1 /\ Down

(* The service control manager, or the boot: cleanOldExe.                     *)
ServiceStarts ==
  /\ ~Up /\ exe \in Binary
  /\ running' = exe /\ image' = "exe" /\ old' = None
  /\ UNCHANGED <<server, exe, new, update, swaps, commands, cuts>>

UpdateStep(b) ==
  \/ Downloaded(b) \/ DownloadFails(b) \/ Validate(b)
  \/ MoveAway(b) \/ Place(b) \/ Exit(b)

Next ==
  \/ Publish \/ Heartbeat \/ UpdateCommand \/ PowerCut \/ ServiceStarts
  \/ \E b \in By : UpdateStep(b)

Spec == Init /\ [][Next]_vars

(* Heartbeats go on, the steps of an update end, downloads do not fail for     *)
(* ever, and the recovery actions of the service are set (installService).     *)
Fairness ==
  /\ WF_vars(Heartbeat) /\ WF_vars(ServiceStarts)
  /\ \A b \in By : WF_vars(UpdateStep(b)) /\ SF_vars(Downloaded(b))

FairSpec == Spec /\ Fairness

-----------------------------------------------------------------------------
(* Whatever two updates at the same time do to .new and .old: the path of the   *)
(* service is empty only between the two renames of one of them, unless        *)
(* somebody stopped the process just there or the rollback was refused too;     *)
(* what an update exits for is what it validated, and what cannot be started    *)
(* is never put there, unless a second download replaced .new in between.      *)
ServiceHasExe ==
  /\ exe = None => cuts > 0 \/ unrestored \/ (Up /\ \E b \in By : pc[b] = "place")
  /\ exe = Torn => \E b \in By : crossed[b]
  /\ \A b \in By : pc[b] = "exit" => exe = target[b] \/ crossed[b]

(* Nothing lies at the path that could be started, and nobody is about to put   *)
(* something there.                                                          *)
Stranded == exe \notin Binary /\ \A b \in By : pc[b] \notin {"place", "exit"}

(* The published version is run in the end by every agent that is not          *)
(* stranded, however many updates were refused, raced, rolled back or          *)
(* interrupted before.                                                       *)
UpdateArrives ==
  \A v \in Binary : info = v ~> (running = v \/ info # v \/ Stranded)

=============================================================================
