----------------------------- MODULE ServicesProofs -----------------------------
(***************************************************************************)
(* Proofs about the parts of ServiceParts: an agent that ends or fails an      *)
(* update keeps an executable to be started (Updater), for any number of       *)
(* versions, commands and power cuts and two updates at the same time; no      *)
(* recording goes with its window (SessionWindow).                           *)
(***************************************************************************)
EXTENDS ServiceParts, SequenceTheorems, TLAPS

-----------------------------------------------------------------------------
(* Updater.  By itself ServiceHasExe is not inductive: the second update could  *)
(* move the new executable away while the first one stands before its exit.    *)
(* What keeps it from that is Windows, as long as .old is the image of the     *)
(* process: RunsFromOld.                                                     *)

Typed ==
  /\ pc \in [By -> {"idle", "download", "validate", "swap", "place", "exit"}]
  /\ crossed \in [By -> BOOLEAN]
  /\ target \in [By -> Binary] /\ got \in [By -> Binary] /\ served \in Binary
  /\ info \in Binary
  /\ running \in Binary \cup {None} /\ cuts \in Nat

(* A process that is down updates nothing.                                    *)
DownIsIdle == ~Up => \A b \in By : pc[b] = "idle"

(* The file of the running image is there, and it can be started.              *)
ImageExists ==
  /\ image \in {"exe", "old"}
  /\ Up => (IF image = "old" THEN old ELSE exe) \in Binary

(* The path is empty between the renames, where only one update stands, and    *)
(* not after them.                                                           *)
RunsFromOld ==
  /\ unrestored => exe = None
  /\ \A b \in By :
       /\ pc[b] = "place" => image = "old" /\ exe = None /\ ~unrestored
       /\ pc[b] = "exit"  => image = "old" /\ exe # None
       /\ \A c \in By : pc[b] = "place" /\ pc[c] = "place" => b = c

(* What was validated lies at .new until it is placed, unless it was replaced   *)
(* or removed.                                                               *)
Validated == \A b \in By :
  pc[b] \in {"swap", "place"} => new = None \/ new = target[b] \/ crossed[b]

(* What cannot be started was put there by an update that is about to exit.     *)
TornIsPlaced ==
  exe = Torn => \E c \in By : crossed[c] /\ (Up => pc[c] = "exit")

IInv ==
  /\ Typed /\ DownIsIdle /\ ImageExists /\ RunsFromOld
  /\ Validated /\ TornIsPlaced /\ ServiceHasExe

LEMMA InvInit == Init => IInv
  BY UpdaterAssumption DEF Init, IInv, Typed, DownIsIdle, ImageExists, RunsFromOld, Validated, TornIsPlaced, ServiceHasExe,
     Up, None, Torn, Binary

(* No step of an update, of the server or of Windows breaks the invariant.      *)
LEMMA InvStep == IInv /\ [Next]_vars => IInv'
<1> SUFFICES ASSUME IInv, [Next]_vars PROVE IInv'
  OBVIOUS
<1> USE UpdaterAssumption
    DEF IInv, Typed, DownIsIdle, ImageExists, RunsFromOld, Validated, TornIsPlaced, ServiceHasExe, Up,
        None, Torn, Binary, By
<1>1. CASE Publish
  BY <1>1 DEF Publish, files, update, swaps
<1>2. CASE Heartbeat
  BY <1>2 DEF Heartbeat, Start, files, server, swaps
<1>3. CASE UpdateCommand
  BY <1>3 DEF UpdateCommand, Start, files, server, swaps
<1>4. CASE PowerCut
  BY <1>4 DEF PowerCut, Down, files, server, swaps
<1>5. CASE ServiceStarts
  BY <1>5 DEF ServiceStarts, update, server, swaps
<1>6. ASSUME NEW b \in By, Downloaded(b) PROVE IInv'
  BY <1>6 DEF Downloaded, GoOn, server
<1>7. ASSUME NEW b \in By, DownloadFails(b) PROVE IInv'
  BY <1>7 DEF DownloadFails, Done, server, swaps
<1>8. ASSUME NEW b \in By, Validate(b) PROVE IInv'
  <2>1. CASE new = target[b]
    <3>1. /\ Up /\ pc[b] = "validate" /\ pc' = [pc EXCEPT ![b] = "swap"]
          /\ crossed' = [crossed EXCEPT ![b] = FALSE]
          /\ UNCHANGED <<served, info, exe, new, old, running, image, target, got,
                         unrestored, cuts>>
      BY <1>8, <2>1 DEF Validate, GoOn, server
    <3>2. Typed'
      BY <2>1, <3>1
    <3>3. DownIsIdle'
      BY <2>1, <3>1
    <3>4. ImageExists'
      BY <2>1, <3>1
    <3>5. RunsFromOld'
      BY <2>1, <3>1
    <3>6. Validated'
      BY <2>1, <3>1
    <3>7. TornIsPlaced'
      BY <2>1, <3>1
    <3>8. ServiceHasExe'
      BY <2>1, <3>1
    <3> QED BY <3>2, <3>3, <3>4, <3>5, <3>6, <3>7, <3>8
  <2>2. CASE new # target[b]
    <3>1. /\ Up /\ pc[b] = "validate" /\ pc' = [pc EXCEPT ![b] = "idle"] /\ new' = None
          /\ UNCHANGED <<served, info, exe, old, running, image, target, got, crossed,
                         unrestored, cuts>>
      BY <1>8, <2>2 DEF Validate, Done, server
    <3>2. Typed'
      BY <3>1
    <3>3. DownIsIdle'
      BY <3>1
    <3>4. ImageExists'
      BY <3>1
    <3>5. RunsFromOld'
      BY <3>1
    <3>6. Validated'
      BY <3>1
    <3>7. TornIsPlaced'
      BY <3>1
    <3>8. ServiceHasExe'
      BY <3>1
    <3> QED BY <3>2, <3>3, <3>4, <3>5, <3>6, <3>7, <3>8
  <2> QED BY <2>1, <2>2
<1>9. ASSUME NEW b \in By, MoveAway(b) PROVE IInv'
  <2>1. CASE CanMove /\ old' = exe /\ exe' = None /\ image' = "old" /\ GoOn(b, "place") /\ UNCHANGED new
    <3>1. /\ Up /\ pc[b] = "swap" /\ pc' = [pc EXCEPT ![b] = "place"]
          /\ exe # None /\ (image = "exe" \/ old = None)
          /\ old' = exe /\ exe' = None /\ image' = "old"
          /\ UNCHANGED <<served, info, new, running, target, got, crossed, unrestored, cuts>>
      BY <1>9, <2>1 DEF MoveAway, CanMove, GoOn, server
    <3>2. Typed'
      BY <3>1
    <3>3. DownIsIdle'
      BY <3>1
    <3>4. ImageExists'
      BY <3>1
    <3>5. RunsFromOld'
      BY <3>1
    <3>6. Validated'
      BY <3>1
    <3>7. TornIsPlaced'
      BY <3>1
    <3>8. ServiceHasExe'
      BY <3>1
    <3> QED BY <3>2, <3>3, <3>4, <3>5, <3>6, <3>7, <3>8
  <2>2. CASE new' = None /\ Done(b) /\ UNCHANGED <<exe, image>>
             /\ old' = IF image = "old" THEN old ELSE None
    <3>1. /\ Up /\ pc[b] = "swap" /\ pc' = [pc EXCEPT ![b] = "idle"] /\ new' = None
          /\ old' = IF image = "old" THEN old ELSE None
          /\ UNCHANGED <<served, info, exe, running, image, target, got, crossed,
                         unrestored, cuts>>
      BY <1>9, <2>2 DEF MoveAway, Done, server
    <3>2. Typed'
      BY <3>1
    <3>3. DownIsIdle'
      BY <3>1
    <3>4. ImageExists'
      BY <3>1
    <3>5. RunsFromOld'
      BY <3>1
    <3>6. Validated'
      BY <3>1
    <3>7. TornIsPlaced'
      BY <3>1
    <3>8. ServiceHasExe'
      BY <3>1
    <3> QED BY <3>2, <3>3, <3>4, <3>5, <3>6, <3>7, <3>8
  <2> QED BY <1>9, <2>1, <2>2 DEF MoveAway
<1>10. ASSUME NEW b \in By, Place(b) PROVE IInv'
  <2>1. CASE Placed(b)
    BY <1>10, <2>1 DEF Place, Placed, GoOn, server
  <2>2. CASE RollsBack(b)
    BY <1>10, <2>2 DEF Place, RollsBack, Done, server
  <2> QED BY <1>10, <2>1, <2>2 DEF Place
<1>11. ASSUME NEW b \in By, Exit(b) PROVE IInv'
  BY <1>11 DEF Exit, Down, files, server, swaps
<1>12. CASE UNCHANGED vars
  BY <1>12 DEF vars, files, update, server, swaps
<1> QED
  BY <1>1, <1>2, <1>3, <1>4, <1>5, <1>6, <1>7, <1>8, <1>9, <1>10, <1>11, <1>12
  DEF Next, UpdateStep

(* Whatever two updates do to the files at the same time, only a stop from     *)
(* outside between the renames of swapBinaries leaves the service without an   *)
(* executable.                                                               *)
THEOREM ServiceStaysStartable == Spec => []ServiceHasExe
<1>1. IInv => ServiceHasExe
  BY DEF IInv
<1> QED BY <1>1, InvInit, InvStep, PTL DEF Spec

LEMMA UpdateMoves == [Moves]_all => [Next]_vars
<1>1. Moves => [Next]_vars
  BY DEF Moves, Only
<1>2. UNCHANGED all => UNCHANGED vars
  BY DEF all
<1> QED BY <1>1, <1>2

(* The same among the other services.                                        *)
THEOREM AgentStaysStartable == FairServices => []ServiceHasExe
<1>1. Begins => Init
  BY DEF Begins
<1>2. IInv => ServiceHasExe
  BY DEF IInv
<1> QED BY <1>1, <1>2, InvInit, InvStep, UpdateMoves, PTL DEF FairServices
-----------------------------------------------------------------------------
(* SessionWindow: every recording is saved, runs, or is in line to be          *)
(* converted, and the end of the session waits for those in line.              *)

InLine == {line[i] : i \in 1..Len(line)}

Accounted ==
  /\ made \in Nat /\ recorder \in 0..made /\ line \in Seq(Nat)
  /\ \A i \in 1..Len(line) :
       /\ line[i] \in 1..made /\ line[i] # recorder
       /\ \A j \in 1..Len(line) : line[i] = line[j] => i = j
  /\ \A n \in 1..made : n \in kept \/ n = recorder \/ n \in InLine
  /\ kept \subseteq 1..made
  /\ asking => line # <<>>

EndWaits ==
  /\ ending \in {"no", "saving", "stopping", "ended"}
  /\ ending # "no" => recorder = 0 /\ InLine \subseteq awaited
  /\ ending \in {"stopping", "ended"} => InLine = {}

(* What a close has set going, as long as nothing failed.                      *)
CloseIsHeard ==
  windowOpen =>
    /\ "done" \in outbox <=> ending = "ended"
    /\ "failed" \in outbox => failed
    /\ armed => started \/ failed
    /\ started => mounted \/ early
    /\ started /\ ~failed /\ ~early => "cleanup" \in inbox \/ ending # "no"

WindowInv == Accounted /\ EndWaits /\ CloseIsHeard /\ NoRecordingIsLost

LEMMA WindowMoves == [Moves]_all => [Window!Next]_windowVars
<1>1. Moves => [Window!Next]_windowVars
  BY DEF Moves, Only
<1>2. UNCHANGED all => UNCHANGED windowVars
  BY DEF all
<1> QED BY <1>1, <1>2

LEMMA WindowStarts == Window!Init => WindowInv
  BY DEF Window!Init, WindowInv, Accounted, EndWaits, CloseIsHeard, NoRecordingIsLost,
         Window!NoRecordingIsLost, InLine

(* A recording that is stopped goes to the end of the line.                    *)
LEMMA RecorderStops ==
  ASSUME Accounted, Window!StopRecordingIfActive, UNCHANGED <<made, kept, asking>>
  PROVE  Accounted' /\ recorder' = 0
<1> USE DEF Accounted
<1>1. recorder' = 0 /\ line \in Seq(Nat) /\ Len(line) \in Nat
  BY LenProperties DEF Window!StopRecordingIfActive
<1>2. CASE recorder = 0
  <2>1. line' = line
    BY <1>2 DEF Window!StopRecordingIfActive, Window!LineAfterStop
  <2> QED BY <1>1, <1>2, <2>1 DEF InLine
<1>3. CASE recorder # 0
  <2> DEFINE top == Len(line) + 1
  <2>1. line' = Append(line, recorder) /\ recorder \in 1..made /\ recorder \in Nat
    BY <1>3 DEF Window!StopRecordingIfActive, Window!LineAfterStop
  <2>2. /\ line' \in Seq(Nat) /\ Len(line') = top /\ line'[top] = recorder /\ line' # <<>>
        /\ \A i \in 1..Len(line) : line'[i] = line[i]
    BY <1>1, <2>1, AppendProperties
  <2>3. /\ 1..Len(line') = 1..Len(line) \cup {top} /\ top \notin 1..Len(line)
    BY <1>1, <2>2
  <2>4. \A i \in 1..Len(line') :
          /\ line'[i] \in 1..made /\ line'[i] # 0
          /\ \A j \in 1..Len(line') : line'[i] = line'[j] => i = j
    BY <2>1, <2>2, <2>3
  <2>5. InLine \subseteq InLine' /\ recorder \in InLine'
    BY <2>2, <2>3 DEF InLine
  <2>6. \A n \in 1..made : n \in kept' \/ n = recorder' \/ n \in InLine'
    BY <2>5
  <2> QED BY <1>1, <2>2, <2>4, <2>6
<1> QED BY <1>2, <1>3

(* A conversion that ends takes the first from the line, and its recording is   *)
(* kept.                                                                     *)
LEMMA FirstIsKept ==
  ASSUME Accounted, EndWaits, line # <<>>, Window!ConversionEnds,
         UNCHANGED <<made, recorder, ending>>
  PROVE  Accounted' /\ EndWaits'
<1> USE DEF Accounted
<1>1. /\ kept' = kept \cup {Head(line)} /\ line' = Tail(line)
      /\ awaited' = awaited \ {Head(line)} /\ asking' = FALSE
  BY DEF Window!ConversionEnds
<1>2. /\ line \in Seq(Nat) /\ Len(line) \in Nat /\ Len(line) # 0 /\ Head(line) = line[1]
      /\ line' \in Seq(Nat) /\ Len(line') = Len(line) - 1
      /\ \A i \in 1..Len(line') : line'[i] = line[i + 1]
  BY <1>1, LenProperties, EmptySeq, HeadTailProperties
<1>3. \A i \in 1..Len(line') : i + 1 \in 1..Len(line) /\ line'[i] = line[i + 1] /\ i + 1 # 1
  BY <1>2
<1>4. 1 \in 1..Len(line)
  BY <1>2
<1>5. /\ \A i \in 1..Len(line') :
           /\ line'[i] \in 1..made /\ line'[i] # recorder
           /\ line'[i] # Head(line)
      /\ Head(line) \in 1..made
  BY <1>2, <1>3, <1>4
<1>6. ASSUME NEW i \in 1..Len(line'), NEW j \in 1..Len(line'), line'[i] = line'[j]
      PROVE  i = j
  <2>1. i + 1 = j + 1
    BY <1>3, <1>6
  <2> QED BY <1>2, <2>1
<1>7. ASSUME NEW n \in InLine PROVE n = Head(line) \/ n \in InLine'
  <2>1. PICK i \in 1..Len(line) : n = line[i]
    BY DEF InLine
  <2>2. CASE i = 1
    BY <1>2, <2>1, <2>2
  <2>3. CASE i # 1
    <3>1. i - 1 \in 1..Len(line') /\ (i - 1) + 1 = i
      BY <1>2, <2>3
    <3>2. line'[i - 1] = n
      BY <1>2, <2>1, <3>1
    <3> QED BY <3>1, <3>2 DEF InLine
  <2> QED BY <2>2, <2>3
<1>8. InLine' \subseteq InLine /\ Head(line) \notin InLine'
  <2>1. \A i \in 1..Len(line') : line'[i] \in InLine
    BY <1>3 DEF InLine
  <2>2. \A i \in 1..Len(line') : line'[i] # Head(line)
    BY <1>5
  <2> QED BY <2>1, <2>2, Zenon DEF InLine
<1>9. Accounted'
  <2>1. \A n \in 1..made : n \in kept' \/ n = recorder' \/ n \in InLine'
    BY <1>1, <1>7
  <2>2. kept' \subseteq 1..made
    BY <1>1, <1>5
  <2> QED BY <1>1, <1>2, <1>5, <1>6, <2>1, <2>2
<1>10. EndWaits'
  BY <1>1, <1>8 DEF EndWaits
<1> QED BY <1>9, <1>10

LEMMA WindowStep ==
  ASSUME WindowInv, [Window!Next]_windowVars
  PROVE  WindowInv'
<1> USE DEF WindowInv, Window!main, Window!channels, Window!renderer, Window!recording,
            Window!end, Window!server, Window!bounds
<1>0. asking => line # <<>>
  BY DEF Accounted
<1>1. ASSUME UNCHANGED <<made, recorder, line, kept>>, asking' => line # <<>>
      PROVE  Accounted' /\ InLine' = InLine
  BY <1>1 DEF Accounted, InLine
<1>2. ASSUME UNCHANGED <<made, recorder, line, kept, ending, awaited>>, asking' => line # <<>>
      PROVE  Accounted' /\ EndWaits'
  BY <1>1, <1>2 DEF EndWaits
<1>3. ASSUME windowOpen, UNCHANGED windowOpen PROVE NoRecordingIsLost'
  BY <1>3 DEF NoRecordingIsLost, Window!NoRecordingIsLost
<1>4. ASSUME windowOpen, UNCHANGED <<windowOpen, started, armed, inbox, outbox, mounted, ending,
                                     failed, early>>
      PROVE  CloseIsHeard'
  BY <1>4 DEF CloseIsHeard
<1>5. CASE Window!Mount
  <2>1. CloseIsHeard'
    BY <1>5 DEF Window!Mount, CloseIsHeard
  <2> QED BY <1>0, <1>2, <1>3, <1>5, <2>1 DEF Window!Mount
<1>6. CASE Window!Hang
  BY <1>0, <1>2, <1>3, <1>4, <1>6 DEF Window!Hang
<1>7. CASE Window!InitArrives
  <2>1. CloseIsHeard'
    BY <1>7 DEF Window!InitArrives, CloseIsHeard
  <2> QED BY <1>0, <1>2, <1>3, <1>7, <2>1 DEF Window!InitArrives
<1>8. CASE Window!StartRecording
  <2>1. /\ windowOpen /\ ending = "no" /\ recorder = 0 /\ made' = made + 1 /\ recorder' = made + 1
        /\ UNCHANGED <<line, kept, asking, ending, awaited, windowOpen, started, armed, inbox, outbox,
                       mounted, failed, early>>
    BY <1>8 DEF Window!StartRecording, Window!Alive
  <2>2. Accounted' /\ InLine' = InLine
    BY <2>1 DEF Accounted, InLine
  <2>3. EndWaits'
    BY <2>1, <2>2 DEF EndWaits
  <2> QED BY <1>3, <1>4, <2>1, <2>2, <2>3
<1>9. CASE Window!StopRecording
  <2>1. /\ windowOpen /\ ending = "no" /\ Window!StopRecordingIfActive
        /\ UNCHANGED <<made, kept, asking, ending, awaited, windowOpen, started, armed, inbox, outbox,
                       mounted, failed, early>>
    BY <1>9 DEF Window!StopRecording, Window!Alive
  <2>2. Accounted'
    BY <2>1, RecorderStops
  <2>3. EndWaits'
    BY <2>1 DEF EndWaits
  <2> QED BY <1>3, <1>4, <2>1, <2>2, <2>3
<1>10. CASE Window!Converted
  BY <1>2, <1>3, <1>4, <1>10 DEF Window!Converted, Window!Alive
<1>11. CASE Window!SaveDialog \/ Window!ConvertFails
  <2>1. /\ windowOpen /\ Window!ConversionEnds /\ (asking \/ line # <<>>)
        /\ UNCHANGED <<made, recorder, ending, windowOpen, started, armed, inbox, outbox,
                       mounted, failed, early>>
    BY <1>11 DEF Window!SaveDialog, Window!ConvertFails, Window!Alive
  <2>2. Accounted' /\ EndWaits'
    BY <1>0, <2>1, FirstIsKept
  <2> QED BY <1>3, <1>4, <2>1, <2>2
<1>12. CASE Window!Close
  <2>1. CloseIsHeard'
    BY <1>12 DEF Window!Close, Window!Arms, CloseIsHeard
  <2> QED BY <1>0, <1>2, <1>3, <1>12, <2>1 DEF Window!Close
<1>13. CASE Window!CleanupArrives
  <2>1. /\ windowOpen /\ inbox' = inbox \ {"cleanup"}
        /\ UNCHANGED <<made, kept, asking, windowOpen, started, armed, outbox, mounted, failed, early>>
    BY <1>13 DEF Window!CleanupArrives
  <2>2. CASE /\ mounted /\ ending = "no" /\ ending' = "saving"
             /\ Window!StopRecordingIfActive /\ awaited' = Window!ToSet(line')
    <3>1. Accounted' /\ recorder' = 0
      BY <2>1, <2>2, RecorderStops
    <3>2. InLine' = awaited'
      <4>1. line' \in Seq(Nat)
        BY <3>1 DEF Accounted
      <4> QED BY <2>2, <4>1, LenProperties DEF Window!ToSet, InLine
    <3>3. EndWaits'
      BY <2>2, <3>1, <3>2 DEF EndWaits
    <3>4. CloseIsHeard'
      BY <2>1, <2>2 DEF CloseIsHeard
    <3> QED BY <1>3, <2>1, <3>1, <3>3, <3>4
  <2>3. CASE (~mounted \/ ending # "no") /\ UNCHANGED <<ending, awaited, line, recorder>>
    <3>1. CloseIsHeard'
      BY <2>1, <2>3 DEF CloseIsHeard
    <3> QED BY <1>0, <1>2, <1>3, <2>1, <2>3, <3>1
  <2> QED BY <1>13, <2>2, <2>3 DEF Window!CleanupArrives
<1>14. CASE Window!AllSaved
  <2>1. /\ windowOpen /\ ending = "saving" /\ awaited = {} /\ ending' \in {"stopping", "ended"}
        /\ UNCHANGED <<made, recorder, line, kept, awaited, asking, windowOpen>>
    BY <1>14 DEF Window!AllSaved, Window!Alive
  <2>2. EndWaits'
    BY <1>0, <1>1, <2>1 DEF EndWaits
  <2>3. CloseIsHeard'
    BY <1>14 DEF Window!AllSaved, CloseIsHeard
  <2> QED BY <1>0, <1>1, <1>3, <2>1, <2>2, <2>3
<1>15. CASE Window!StopDone
  <2>1. /\ windowOpen /\ ending = "stopping" /\ ending' = "ended"
        /\ UNCHANGED <<made, recorder, line, kept, awaited, asking, windowOpen>>
    BY <1>15 DEF Window!StopDone, Window!Alive
  <2>2. EndWaits'
    BY <1>0, <1>1, <2>1 DEF EndWaits
  <2>3. CloseIsHeard'
    BY <1>15 DEF Window!StopDone, CloseIsHeard
  <2> QED BY <1>0, <1>1, <1>3, <2>1, <2>2, <2>3
<1>16. CASE Window!StopFails
  <2>1. /\ windowOpen /\ ending = "stopping" /\ ending' = "no" /\ failed'
        /\ UNCHANGED <<made, recorder, line, kept, awaited, asking, windowOpen>>
    BY <1>16 DEF Window!StopFails, Window!Alive
  <2>2. EndWaits'
    BY <1>0, <1>1, <2>1 DEF EndWaits
  <2>3. CloseIsHeard'
    BY <1>16 DEF Window!StopFails, CloseIsHeard
  <2> QED BY <1>0, <1>1, <1>3, <2>1, <2>2, <2>3
<1>17. ASSUME windowOpen, ending = "ended", UNCHANGED <<made, kept>> PROVE NoRecordingIsLost'
  <2>1. made \in Nat /\ recorder = 0 /\ InLine = {} /\ kept \subseteq 1..made
    BY <1>17 DEF Accounted, EndWaits
  <2>2. \A n \in 1..made : n \in kept
    BY <2>1 DEF Accounted
  <2>3. kept = 1..made
    BY <2>1, <2>2
  <2> QED BY <1>17, <2>3 DEF NoRecordingIsLost, Window!NoRecordingIsLost
<1>18. CASE Window!CleanupDone
  <2>1. /\ windowOpen /\ "done" \in outbox /\ ~windowOpen'
        /\ UNCHANGED <<made, recorder, line, kept, ending, awaited, asking>>
    BY <1>18 DEF Window!CleanupDone
  <2>2. ending = "ended"
    BY <2>1 DEF CloseIsHeard
  <2> QED BY <1>0, <1>2, <1>17, <2>1, <2>2 DEF CloseIsHeard
<1>19. CASE Window!CleanupFailed
  <2>1. CloseIsHeard'
    BY <1>19 DEF Window!CleanupFailed, CloseIsHeard
  <2> QED BY <1>0, <1>2, <1>3, <1>19, <2>1 DEF Window!CleanupFailed
<1>20. CASE Window!TimerFires
  <2>1. /\ windowOpen /\ armed /\ ~Window!Working /\ "done" \notin outbox /\ ~windowOpen'
        /\ UNCHANGED <<made, recorder, line, kept, ending, awaited, asking, dead, failed, early>>
    BY <1>20 DEF Window!TimerFires
  <2>2. dead \/ failed \/ early
    BY <2>1 DEF CloseIsHeard, EndWaits, Window!Working, Window!Alive
  <2>3. NoRecordingIsLost'
    BY <2>1, <2>2 DEF NoRecordingIsLost, Window!NoRecordingIsLost
  <2> QED BY <1>0, <1>2, <2>1, <2>3 DEF CloseIsHeard
<1>21. CASE UNCHANGED windowVars
  <2>1. CloseIsHeard' /\ NoRecordingIsLost'
    BY <1>21 DEF windowVars, CloseIsHeard, NoRecordingIsLost, Window!NoRecordingIsLost
  <2> QED BY <1>0, <1>2, <1>21, <2>1 DEF windowVars
<1> QED
  BY <1>5, <1>6, <1>7, <1>8, <1>9, <1>10, <1>11, <1>12, <1>13, <1>14, <1>15, <1>16, <1>18,
     <1>19, <1>20, <1>21
  DEF Window!Next

(* No recording is lost with its window, for any number of recordings, closes   *)
(* and failures (LiveSessionWindow.jsx, electron/main.js).                     *)
THEOREM RecordingsAreKept == FairServices => []NoRecordingIsLost
<1>1. Begins => Window!Init
  BY DEF Begins
<1>2. WindowInv => NoRecordingIsLost
  BY DEF WindowInv
<1> QED BY <1>1, <1>2, WindowStarts, WindowMoves, WindowStep, PTL DEF FairServices
=============================================================================
