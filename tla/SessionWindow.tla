---------------------------- MODULE SessionWindow ----------------------------
(***************************************************************************)
(* The window of a live session (electron/main.js, LiveSessionWindow.jsx):     *)
(* its close button is a request.  The renderer first saves what was recorded   *)
(* and tells the server to stop, and says so to the main process, which        *)
(* destroys the window, or does so by itself when it hears nothing for 15 s.   *)
(***************************************************************************)
EXTENDS Naturals, Sequences, SequencesExt

CONSTANTS MaxRecordings, MaxCloses, MaxFailures  \* bounds

VARIABLES
  open,      \* the window exists
  started,   \* liveWin.__cleanupStarted
  armed,     \* liveWin.__cleanupSafetyTimer runs
  inbox,     \* what main has sent that the renderer has not handled
  outbox,    \* what the renderer has answered that main has not handled
  mounted,   \* the renderer listens
  session,   \* it knows its session
  dead,      \* it hangs
  made,      \* recordings begun; wasRecordingRef is made > 0
  recorder,  \* mediaRecorderRef: the recording that runs, or 0
  line,      \* stoppingRef: the recordings to convert, the first being converted
  asking,    \* the dialog of the first is open
  ending,    \* endSessionPromiseRef: "no", "saving", "stopping", "ended"
  awaited,   \* the recordings whose conversion "saving" waits for
  stopped,   \* the server has ended the session
  marked,    \* and has it as recorded
  kept,      \* history: recordings saved, given up in the dialog, or shown to fail
  forced,    \* history: the timer has closed the window
  failed,    \* history: a stop failed
  early,     \* history: a close came before the renderer listened
  closes, failures

vars == <<open, started, armed, inbox, outbox, mounted, session, dead, made,
          recorder, line, asking, ending, awaited, stopped, marked, kept, forced,
          failed, early, closes, failures>>

Recordings == 1..MaxRecordings

TypeOK ==
  /\ {open, started, armed, mounted, session, dead, asking, stopped, marked,
      forced, failed, early} \subseteq BOOLEAN
  /\ inbox \subseteq {"init", "cleanup"} /\ outbox \subseteq {"done", "failed"}
  /\ made \in 0..MaxRecordings /\ recorder \in Recordings \cup {0}
  /\ line \in SeqOf(Recordings, MaxRecordings)
  /\ ending \in {"no", "saving", "stopping", "ended"}
  /\ awaited \subseteq Recordings /\ kept \subseteq Recordings

(* createLiveSessionWindow: the session is sent once the page has loaded.      *)
Init ==
  /\ open = TRUE /\ started = FALSE /\ armed = FALSE
  /\ inbox = {"init"} /\ outbox = {}
  /\ mounted = FALSE /\ session = FALSE /\ dead = FALSE
  /\ made = 0 /\ recorder = 0 /\ line = <<>> /\ asking = FALSE
  /\ ending = "no" /\ awaited = {}
  /\ stopped = FALSE /\ marked = FALSE
  /\ kept = {} /\ forced = FALSE /\ failed = FALSE /\ early = FALSE
  /\ closes = 0 /\ failures = 0

main      == <<open, started, armed, forced>>
channels  == <<inbox, outbox>>
renderer  == <<mounted, session, dead>>
recording == <<made, recorder, line, asking, kept>>
end       == <<ending, awaited>>
server    == <<stopped, marked>>
bounds    == <<failed, early, closes, failures>>

Alive == open /\ mounted /\ ~dead

-----------------------------------------------------------------------------
(* React mounts and its effects subscribe.                                    *)
Mount ==
  /\ open /\ ~mounted /\ ~dead /\ mounted' = TRUE
  /\ UNCHANGED <<main, channels, session, dead, recording, end, server, bounds>>

Hang ==
  /\ open /\ ~dead /\ failures < MaxFailures
  /\ dead' = TRUE /\ failures' = failures + 1
  /\ UNCHANGED <<main, channels, mounted, session, recording, end, server,
                 failed, early, closes>>

(* live-session-init: nobody hears it before the effects have subscribed.      *)
InitArrives ==
  /\ open /\ ~dead /\ "init" \in inbox
  /\ inbox' = inbox \ {"init"} /\ session' = mounted
  /\ UNCHANGED <<main, outbox, mounted, dead, recording, end, server, bounds>>

(* The button; while the session ends it is disabled.                         *)
StartRecording ==
  /\ Alive /\ session /\ ending = "no" /\ recorder = 0 /\ made < MaxRecordings
  /\ made' = made + 1 /\ recorder' = made'
  /\ UNCHANGED <<main, channels, renderer, line, asking, kept, end, server, bounds>>

\* stopRecordingIfActive: the recording that runs is stopped at once, and its
\* conversion comes after those that wait.  (main converts; what it still has to
\* do when a renderer hangs is not followed.)
MutStopsWhenIdle == IF recorder = 0 \/ line # <<>> THEN line ELSE <<recorder>>
  \* mutation: "stoppingRef is checked first"
LineAfterStop == IF recorder = 0 THEN line ELSE Append(line, recorder)

StopRecordingIfActive ==
  /\ line' = LineAfterStop
  /\ recorder' = 0

StopRecording ==
  /\ Alive /\ ending = "no" /\ recorder # 0
  /\ StopRecordingIfActive
  /\ UNCHANGED <<main, channels, renderer, made, asking, kept, end, server, bounds>>

(* ffmpeg has converted the first: where shall it be saved?                    *)
Converted ==
  /\ Alive /\ line # <<>> /\ ~asking /\ asking' = TRUE
  /\ UNCHANGED <<main, channels, renderer, made, recorder, line, kept, end,
                 server, bounds>>

\* convertThisRecording never rejects: the next is converted whatever became of
\* this one.  It is saved, given up by the operator, or its failure is shown.
ConversionEnds ==
  /\ kept' = kept \cup {Head(line)} /\ line' = Tail(line) /\ asking' = FALSE
  /\ awaited' = awaited \ {Head(line)}

SaveDialog ==
  /\ Alive /\ asking /\ ConversionEnds
  /\ UNCHANGED <<main, channels, renderer, made, recorder, ending, server, bounds>>

ConvertFails ==
  /\ Alive /\ line # <<>> /\ ~asking /\ failures < MaxFailures
  /\ failures' = failures + 1
  /\ ConversionEnds
  /\ UNCHANGED <<main, channels, renderer, made, recorder, ending, server,
                 failed, early, closes>>

-----------------------------------------------------------------------------
(* The operator closes the window, or the application quits: main asks the     *)
(* renderer once, and winds up the timer each time.                           *)
MutArms == ~started      \* mutation: only the first request winds it up
Arms == TRUE

Close ==
  /\ open /\ closes < MaxCloses /\ closes' = closes + 1
  /\ started' = TRUE
  /\ inbox' = IF started THEN inbox ELSE inbox \cup {"cleanup"}
  /\ armed' = Arms
  /\ early' = (early \/ ~mounted)
  /\ UNCHANGED <<open, forced, outbox, renderer, recording, end, server,
                 failed, failures>>

(* live-session-cleanup-and-close: endSession, unless one is on its way (main    *)
(* asks again only after a failure).                                          *)
CleanupArrives ==
  /\ open /\ ~dead /\ "cleanup" \in inbox
  /\ inbox' = inbox \ {"cleanup"}
  /\ \/ /\ mounted /\ ending = "no"
        /\ ending' = "saving"
        /\ StopRecordingIfActive
        /\ awaited' = ToSet(line')
     \/ /\ ~mounted \/ ending # "no"
        /\ UNCHANGED <<end, line, recorder>>
  /\ UNCHANGED <<main, outbox, renderer, made, asking, kept, server, bounds>>

(* All is saved: the server is told, if the window knows its session.          *)
AllSaved ==
  /\ Alive /\ ending = "saving" /\ awaited = {}
  /\ \/ session /\ ending' = "stopping" /\ UNCHANGED outbox
     \/ ~session /\ ending' = "ended" /\ outbox' = outbox \cup {"done"}
  /\ UNCHANGED <<main, inbox, renderer, recording, awaited, server, bounds>>

ServeStop ==
  /\ stopped' = TRUE /\ marked' = (marked \/ made > 0)

StopDone ==
  /\ Alive /\ ending = "stopping" /\ ServeStop
  /\ ending' = "ended" /\ outbox' = outbox \cup {"done"}
  /\ UNCHANGED <<main, inbox, renderer, recording, awaited, bounds>>

(* The request or its answer is lost: the buttons work again, and the next      *)
(* close shall try once more.                                                 *)
StopFails ==
  /\ Alive /\ ending = "stopping" /\ failures < MaxFailures
  /\ failures' = failures + 1 /\ failed' = TRUE
  /\ ServeStop \/ UNCHANGED server
  /\ ending' = "no" /\ outbox' = outbox \cup {"failed"}
  /\ UNCHANGED <<main, inbox, renderer, recording, awaited, early, closes>>

(* live-session-cleanup-done.                                                 *)
CleanupDone ==
  /\ open /\ "done" \in outbox
  /\ open' = FALSE /\ outbox' = {} /\ inbox' = {} /\ armed' = FALSE
  /\ UNCHANGED <<started, forced, renderer, recording, end, server, bounds>>

(* live-session-cleanup-failed leaves the timer as it is.                      *)
CleanupFailed ==
  /\ open /\ "failed" \in outbox
  /\ outbox' = outbox \ {"failed"} /\ started' = FALSE
  /\ UNCHANGED <<open, armed, forced, inbox, renderer, recording, end, server, bounds>>

\* The renderer works on it and says so every 4 s, or is about to.
Working == Alive /\ (ending \in {"saving", "stopping"} \/ "cleanup" \in inbox)

(* 15 s without a progress report.                                            *)
TimerFires ==
  /\ open /\ armed /\ ~Working /\ "done" \notin outbox
  /\ open' = FALSE /\ armed' = FALSE /\ forced' = TRUE
  /\ inbox' = {} /\ outbox' = {}
  /\ UNCHANGED <<started, renderer, recording, end, server, bounds>>

Next ==
  \/ Mount \/ Hang \/ InitArrives
  \/ StartRecording \/ StopRecording \/ Converted \/ SaveDialog \/ ConvertFails
  \/ Close \/ CleanupArrives \/ AllSaved \/ StopDone \/ StopFails
  \/ CleanupDone \/ CleanupFailed \/ TimerFires

Spec == Init /\ [][Next]_vars

(* The processes go on, requests are answered and the operator says where a     *)
(* recording shall be saved.                                                  *)
FairSpec ==
  /\ Spec
  /\ WF_vars(InitArrives) /\ WF_vars(CleanupArrives) /\ WF_vars(AllSaved)
  /\ WF_vars(Converted) /\ WF_vars(SaveDialog)
  /\ WF_vars(StopDone \/ StopFails)
  /\ WF_vars(CleanupDone) /\ WF_vars(CleanupFailed) /\ WF_vars(TimerFires)

-----------------------------------------------------------------------------
(* No recording goes with its window: once the window is closed everything that *)
(* was recorded has been saved, given up in the dialog, or its failure shown -  *)
(* whatever recordings were still being converted, begun or stopped when the    *)
(* operator closed it - unless the renderer hung, a stop failed (the timer goes *)
(* on) or the window was closed before it listened.                           *)
NoRecordingIsLost == ~open /\ ~dead /\ ~failed /\ ~early => kept = 1..made

(* A window that was closed goes away in the end, even if its renderer hangs,   *)
(* never listened, or could not reach the server.                             *)
WindowCloses == (open /\ closes > 0) ~> ~open

(* "só expira de verdade se o renderer parar de responder por completo          *)
(* (travado/morto)": a window is forced to close only if its renderer hangs, or *)
(* could not hear that it shall close.                                        *)
ForcedOnlyIfDead == forced => dead \/ early
==============================================================================
