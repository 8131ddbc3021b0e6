------------------------------- MODULE ClockScan -------------------------------
(***************************************************************************)
(* How clock-proxy/server.js reads the employees of all clocks and caches     *)
(* them: runEmployeesInBackground, the requests that start it, the refreshes  *)
(* it keeps for later, the guard against truncated lists, the flag "relógio   *)
(* novo" that lifts the guard, and the copy on disk.                         *)
(*                                                                         *)
(* Of a list only its length matters here.  A session with a clock is one     *)
(* step (ClockQueue).  A batch of SCAN_BATCH clocks is all of them here.  That  *)
(* a stop may tear new-clock-flags.json, and with it the flags, is left out.    *)
(***************************************************************************)
EXTENDS Integers, FiniteSets

CONSTANTS Clock,       \* CLOCK_IPS
          Job,         \* runs of runEmployeesInBackground, used again
          MaxSize,     \* bound: employees on a clock
          MaxChanges,  \* bound: enrolments, removals and swaps of clocks
          MaxMarks,    \* bound: clocks marked as new
          MaxRestarts  \* bound: restarts of the proxy

None == -2  \* no entry in _clockResults
Bad  == -1  \* an entry { success: false, employees: [] }
Free == {"no job"}

VARIABLES
  size,    \* employees on the device
  cached,  \* _clockResults: None, Bad or the length of the list
  disk,    \* employee-cache.json
  armed,   \* _newClockFlags, in memory and on disk
  running, \* _empJobState
  fresh,   \* _empCache is there, without an error and younger than EMP_CACHE_TTL
  queued,  \* _pendingRefreshIps
  timers,  \* what the setTimeout(0)s of finished jobs will refresh
  todo,    \* clocks a job has not read yet, or Free
  retry,   \* prevCount of a clock that a job will read again in 30 s, or None
  lifted,  \* history: clocks without a good list since the flag let one pass
  torn,    \* history: stops in the middle of writing employee-cache.json
  changes, marks, restarts

store  == <<cached, disk, fresh>>
work   == <<running, queued, timers, todo, retry>>
past   == <<lifted, torn>>
bounds == <<changes, marks, restarts>>
vars   == <<size, store, armed, work, past, bounds>>

TypeOK ==
  /\ size \in [Clock -> 0..MaxSize]
  /\ cached \in [Clock -> None..MaxSize] /\ disk \in [Clock -> None..MaxSize]
  /\ armed \subseteq Clock /\ running \in BOOLEAN /\ fresh \in BOOLEAN
  /\ queued \subseteq Clock /\ timers \in SUBSET (SUBSET Clock)
  /\ todo \in [Job -> SUBSET Clock \cup {Free}]
  /\ retry \in [Job -> [Clock -> None..MaxSize]]
  /\ lifted \subseteq Clock /\ torn \in 0..MaxRestarts

Init ==
  /\ size \in [Clock -> 1..MaxSize]
  /\ cached = [c \in Clock |-> None] /\ disk = cached
  /\ armed = {} /\ running = FALSE /\ fresh = FALSE
  /\ queued = {} /\ timers = {}
  /\ todo = [j \in Job |-> Free]
  /\ retry = [j \in Job |-> [c \in Clock |-> None]]
  /\ lifted = {} /\ torn = 0
  /\ changes = 0 /\ marks = 0 /\ restarts = 0

(* The head of runEmployeesInBackground: a full scan is one of all clocks, a  *)
(* partial one takes the clocks along that were never read.                   *)
RunInBackground(j, targets) ==
  /\ todo[j] = Free
  /\ running' = TRUE
  /\ todo' = [todo EXCEPT ![j] = targets \cup {c \in Clock : cached[c] = None}]

(* GET /rh/employees: nothing to do while a job runs or the cache is good.    *)
GetEmployees(j) ==
  /\ ~running /\ ~fresh
  /\ RunInBackground(j, Clock)
  /\ UNCHANGED <<size, store, armed, queued, timers, retry, past, bounds>>

(* EMP_CACHE_TTL passes.                                                      *)
CacheExpires ==
  /\ fresh /\ fresh' = FALSE
  /\ UNCHANGED <<size, cached, disk, armed, work, past, bounds>>

(* POST /rh/employees/refresh: at once, or after the job that runs.           *)
Refresh(j, c) ==
  /\ \/ /\ running
        /\ queued' = queued \cup {c}
        /\ UNCHANGED <<running, todo>>
     \/ /\ ~running
        /\ RunInBackground(j, {c})
        /\ UNCHANGED queued
  /\ UNCHANGED <<size, store, armed, timers, retry, past, bounds>>

(* What listEmployees may return: the list, a truncated one, or a failure.  An *)
(* empty first page is a failure, but a page whose rows have no name and no    *)
(* number is a list of no employees.                                         *)
Readings(c) == 0..size[c]

Half(n) == (n + 1) \div 2

(* isSuspiciousReading: less than half of a good list, unless the clock is    *)
(* marked.                                                                    *)
Suspicious(c, n) == c \notin armed /\ cached[c] > 0 /\ n < Half(cached[c])

Reads(j, c) == todo[j] # Free /\ c \in todo[j] /\ retry[j][c] = None

Reads2(j, c) == todo[j] # Free /\ retry[j][c] # None

Leaves(j, c) ==
  /\ todo' = [todo EXCEPT ![j] = @ \ {c}]
  /\ retry' = [retry EXCEPT ![j][c] = None]

MutOverwrites(entry) == Bad  \* mutation: the failure replaces whatever is cached

(* What a clock out of reach leaves in _clockResults: its entry, if it has one.*)
OfflineEntry(entry) == IF entry = None THEN Bad ELSE entry

(* checkReachable fails: only a clock without entry gets one.                 *)
ClockOffline(j, c) ==
  /\ Reads(j, c)
  /\ cached' = [cached EXCEPT ![c] = OfflineEntry(@)]
  /\ Leaves(j, c)
  /\ UNCHANGED <<size, disk, fresh, armed, running, queued, timers, past, bounds>>

(* listEmployees reports a failure: the old entry, or none, stays.            *)
ReadFails(j, c) ==
  /\ Reads(j, c)
  /\ Leaves(j, c)
  /\ UNCHANGED <<size, store, armed, running, queued, timers, past, bounds>>

(* A list that the guard lets pass, with or without the flag; the flag is     *)
(* used up.                                                                   *)
ReadAccepted(j, c) ==
  /\ Reads(j, c)
  /\ \E n \in Readings(c) :
       /\ ~Suspicious(c, n)
       /\ cached' = [cached EXCEPT ![c] = n]
       /\ lifted' = IF n > 0 THEN lifted \ {c} ELSE lifted \cup (armed \cap {c})
  /\ armed' = armed \ {c}
  /\ Leaves(j, c)
  /\ UNCHANGED <<size, disk, fresh, running, queued, timers, torn, bounds>>

(* A list that is too short: the job sleeps 30 s with prevCount in hand.      *)
ReadSuspicious(j, c) ==
  /\ Reads(j, c)
  /\ \E n \in Readings(c) : Suspicious(c, n)
  /\ retry' = [retry EXCEPT ![j][c] = cached[c]]
  /\ UNCHANGED <<size, store, armed, running, queued, timers, todo, past, bounds>>

(* The second list counts if it is at least half of prevCount.                *)
RetryAccepted(j, c) ==
  /\ Reads2(j, c)
  /\ \E n \in Readings(c) : n >= Half(retry[j][c]) /\ cached' = [cached EXCEPT ![c] = n]
  /\ lifted' = lifted \ {c}
  /\ Leaves(j, c)
  /\ UNCHANGED <<size, disk, fresh, armed, running, queued, timers, torn, bounds>>

RetryRejected(j, c) ==
  /\ Reads2(j, c)
  /\ Leaves(j, c)
  /\ UNCHANGED <<size, store, armed, running, queued, timers, past, bounds>>

(* The end of a job: cache and disk, and a timer for what was asked for in    *)
(* the meantime.  From here to the timer the proxy says it is idle.           *)
Finish(j) ==
  /\ todo[j] = {}
  /\ todo' = [todo EXCEPT ![j] = Free]
  /\ fresh' = TRUE /\ disk' = cached
  /\ running' = FALSE
  /\ timers' = IF queued = {} THEN timers ELSE timers \cup {queued}
  /\ queued' = {}
  /\ UNCHANGED <<size, cached, armed, retry, past, bounds>>

(* The timer asks nobody whether another job has started.                     *)
TimerFires(j, targets) ==
  /\ targets \in timers
  /\ timers' = timers \ {targets}
  /\ RunInBackground(j, targets)
  /\ UNCHANGED <<size, store, armed, queued, retry, past, bounds>>

(* POST /clock/:ip/mark-new, after the clock was exchanged.                   *)
MarkNew(c) ==
  /\ marks < MaxMarks /\ marks' = marks + 1
  /\ armed' = armed \cup {c}
  /\ UNCHANGED <<size, store, work, past, changes, restarts>>

(* People come and go, and a clock is exchanged for an empty one.             *)
Roster(c) ==
  /\ changes < MaxChanges /\ changes' = changes + 1
  /\ \E n \in {size[c] - 1, size[c] + 1, 0} \cap (0..MaxSize) : size' = [size EXCEPT ![c] = n]
  /\ UNCHANGED <<store, armed, work, past, marks, restarts>>

(* The process starts again with what employee-cache.json holds.               *)
Starts(lists) ==
  /\ restarts < MaxRestarts /\ restarts' = restarts + 1
  /\ disk' = lists /\ cached' = lists
  /\ fresh' = FALSE /\ running' = FALSE
  /\ queued' = {} /\ timers' = {}
  /\ todo' = [j \in Job |-> Free]
  /\ retry' = [j \in Job |-> [c \in Clock |-> None]]
  /\ UNCHANGED <<size, armed, lifted, changes, marks>>

(* PM2, POST /deploy.                                                         *)
Restart == Starts(disk) /\ UNCHANGED torn

(* The process stops while a job writes the file, which is not written aside    *)
(* and renamed: a file that is not JSON counts as one without a list.          *)
RestartInFinish(j) ==
  /\ todo[j] = {}
  /\ Starts([c \in Clock |-> None])
  /\ torn' = torn + 1

Reading(j, c) ==
  \/ ClockOffline(j, c) \/ ReadFails(j, c) \/ ReadAccepted(j, c) \/ ReadSuspicious(j, c)
  \/ RetryAccepted(j, c) \/ RetryRejected(j, c)

Next ==
  \/ \E j \in Job : GetEmployees(j) \/ Finish(j) \/ RestartInFinish(j) \/ \E t \in timers : TimerFires(j, t)
  \/ \E j \in Job, c \in Clock : Refresh(j, c) \/ Reading(j, c)
  \/ \E c \in Clock : MarkNew(c) \/ Roster(c)
  \/ CacheExpires \/ Restart

Spec == Init /\ [][Next]_vars

-----------------------------------------------------------------------------
(* A list on disk is not lost to failures: offline clocks, failed, truncated    *)
(* and empty readings, overlapping scans and restarts leave the clock with a    *)
(* list (server.js, "mantém os dados bons"; "garante que guard tem dados mesmo  *)
(* após restart/deploy").  There are two ways to lose it: the flag, which lets  *)
(* one empty reading pass, and a stop while the file is written.               *)
GoodListKept ==
  [][\A c \in Clock : disk[c] > 0 => disk'[c] > 0 \/ c \in lifted \/ torn' > torn]_vars

=============================================================================
