# Delirio Manager: specifications, model checking and proofs

Delirio Manager looks after some two hundred Windows machines of a chain of
stores. A Go agent runs on each machine as a Windows service; a Node server with
a SQLite database keeps the fleet's state, queues the operator's commands and
carries the office's modules (time clocks, remote clock-in, invoices, reports);
an Electron dashboard shows it all and opens remote sessions; a proxy in the
shops' network drives the web pages of the time clocks. This directory holds TLA+
modules of the parts in which actors share state, the TLC configurations that
check them, and proofs that TLAPS checks. `PROJECT.json` lists components, runs,
findings, hazards and theorems, the source lines behind every definition, and
for every checked property a plausible bug ("mutant") that breaks it.

## 1. Inventory of the system

| Part | State | Operations | What it talks to |
|---|---|---|---|
| Command queue (`server/db.js`, `routes/machines.js`, `routes/agent.js`, `agent/agent.go`, `agent/commands.go`) | table `commands`, the agent's batch, handler goroutines, `drSetupInProgress` | create, poll every 30 s, run with a deadline, ack, `POST /:id/run` and its wait | everything that acts on a machine goes through it |
| Remote access (`liveSessionRelay.js`, `routes/live.js`, `livesession_windows.go`, `useLiveSession.js`, `LiveSessionWindow.jsx`) | `sessions` Map and grace timers, the companion's loop and reader, the dashboard's socket | start, stop, connect, replace a socket, route, stream, disconnect, reconnect once | commands by the queue, web sockets in both directions |
| Window of a session (`electron/main.js`, `LiveSessionWindow.jsx`) | the window, its safety timer, the recordings being converted | open, record, save, ask to close, clean up, force | IPC of two processes, the stop request |
| Input lock (`agent/input_windows.go`) | owner, failsafe timer, what Windows blocks | lock, unlock, release, timer | session readers, session ends, timers |
| Companion watch (`agent.go`, `session_windows.go`, `companion.go`, `pipe_windows.go`) | handle, job, session and birth of the companion, back-off | tick every 15 s, launch, terminate, stop, self-update | Windows sessions, processes, job objects, one pipe |
| Presence and Wake-on-LAN (`alertEngine.js`, `db.js`, `routes/agent.js`, `agent/wol.go`) | table `machines`, mail cooldown Map | heartbeat, register, `checkAll` every 30 s, WoL tests, auto-wake, removal | queue (packets go through a relay of the same site), mail |
| Threshold and DR alerts (`alertEngine.js`, `routes/alerts.js`) | the rules, `cpuAlertStart`, the DR cooldown, what was told | `checkAll`, notices, create and delete a rule, the bell | mail, Teams, web socket |
| Registration (`db.js` `registerMachine`, `deleteMachine`, `middleware/auth.js`) | rows of all tables by machine id, tombs, tokens, the rate window | new, known, re-key by host name, remove | the agent after a 401 |
| Updater (`agent/updater.go`, `agent/commands.go`, `routes/update.js`) | `updating`, the executable, `.new` and `.old`, `version.json` | publish, download, validate, two renames, exit, start | heartbeats, the command `update`, the service manager |
| NCR order monitor (`ncrMonitor.js`, `routes/agent.js`, `db.js`) | table `ncr_monitor_emails` | tick every 2 min, search command, answer, retry, result mail, ACK time-out alert | mailbox, queue, mail |
| Clock proxy and HR (`clock-proxy/server.js`, `henry-hexa.js`, `routes/rh.js`, `rhHealthMonitor.js`, `EmployeeTable.jsx`) | browser slots and their line, cached employee lists and their file, enrolment jobs, audit rows | scan, refresh, enrol, remove from all clocks, "sincronizar todos", health check | web pages of the clocks, mail |
| Remote clock-in (`routes/pontoRemoto.js`, `employeeAuth.js`, `ponto-remoto-web/index.html`) | employees, sessions, entries | log in, clock in, correct, switch an employee off | phones, HR |
| NFC-e (`routes/aloha.js`, `AlohaDANFESearch.jsx`) | the index of invoices by day, the dashboard's poll | index, status, search, DANFE | queue |
| Reports (`routes/relatorio.js`, `reportEngine.js`, `freshdesk.js`, `zamak.js`, `TopicForm.jsx`) | topics and their photos, runs, documents, the Freshdesk and Zamak caches | write, copy and resolve topics, generate, sync | Freshdesk, Zamak, Claude, soffice |
| Events, insights, hourly readings (`insightEngine.js`, `server.js`, `agent.go`, `db.js`) | events, cursors, insights, last readings, misses | report, analyse every six hours and on demand, check every hour, mail | Claude, mail |
| Server configuration (`routes/settings.js` and every mailer) | `config.json`, the cached token | settings, rotation of the refresh token, the switch of mails | Microsoft Graph |
| Dashboard list (`useMachines.js`, `useWebSocket.js`) | the list that is shown, requests under way | list every 30 s, messages, edits | server |
| Service monitor, disaster recovery, watchlist, screen capture, DNS, scripts | small or external | see section 7 | |

Where it is hard:

* **Concurrency.** The server is one Node process; handlers interleave at every
  `await`, and many await Microsoft, Claude, Freshdesk or a time clock for minutes
  between reading and writing. The agent's loops, abandoned handlers, timers, the
  service manager and the updater are goroutines that share the input lock, the
  dr-setup flag, the companion's handle and the files of an update. The dashboard
  has polls that outlive their components.
* **Failure and ordering.** `sent` is written before the answer to a poll travels,
  acks are not repeated, a stop may be lost. Sockets close after they have been
  replaced; timers fire after they have been stopped; lists arrive after the
  messages that corrected them.
* **Restarts.** Cooldowns, sessions and grace timers live in the server's memory,
  handles and back-off in the service's, lists in the proxy's and on its disk.
* **Time.** Nearly every decision compares an age with a limit, and some actions
  move the time stamp they will be judged by (`setMachineStatus`).

What makes each part correct is stated in section 3, next to the runs.

## 2. Modules

| Module | Models | Interaction |
|---|---|---|
| `CommandDelivery` | abstract: a command starts at most once and in order, gets one verdict, after it started, and 'acked' only after it succeeded | refined by `CommandQueue` |
| `CommandQueue` | server table, poll, batch, deadline, orphans, acks, `POST /run` | part of `MCServices` for its liveness |
| `InputLock` | owner, failsafe, callbacks of replaced timers, `BlockInput` | part of `LiveSession` |
| `LiveSession` | relay, routes, companion loop and reader, hook and window | composes `InputLock`; takes from the queue that commands come in order, at most once |
| `SessionWindow` | the window's two processes, recordings, clean-up, safety timer | its stop request is `LiveSession`'s `StopSession` |
| `FleetStatus` | heartbeat, registration, removal, `checkAll`, WoL tests, auto-wake | WoL commands are the set `packets`: each is spent at most once |
| `Alarms` | CPU rules with one start time, temperature, disk, DR and BIOS notices, the bell | `FleetStatus` decides when machines go offline or wake |
| `Registration` | rows, history, tombs, tokens, rate limit, computers that lose their `config.json` or change their name | `FleetStatus` has the known machine's view of it |
| `Updater` | publication, two callers of `checkAndUpdate`, files, power cuts, the service manager | — |
| `CompanionWatch` | `sessionWatchTick`, launches, job objects, pipe, stop, update, crash | what the companion does once it serves its pipe is `LiveSession` |
| `OrderVerdict` | abstract: an order gets one verdict, is given up only after a search that began when its lead time was over, and is told of at most once | refined by `NcrOrders` |
| `NcrOrders` | order rows, requests, answers, retries, verdicts, mails | requests are answered at most once, in any order |
| `ClockQueue` | the browsers and the line for them | says in which order operations on a clock come |
| `ClockScan` | cached lists, their file, scans, refreshes, the guard against short lists | one session with a clock is one step |
| `ClockRoster` | who is on which clock: enrolment jobs, removals, audit rows, receipts | one session with a clock is one step |
| `EmployeeTable` | the table's poll and "sincronizar todos" | jobs are those of `ClockRoster` |
| `RhHealth` | the five-minute check and its mails | — |
| `RemoteClockIn` | the pages of a phone and their cookie, sessions, the press and the entry it sends, corrections | — |
| `Invoices` | the days of a store's index, its triggers, the poll of the dashboard | commands are those of the queue |
| `Reports`, `RiskScore`, `TopicForm`, `ZamakSync` | topics and generation; the score; the photos of a topic; the syncs of the inventory cache | each its own tables |
| `Insights`, `HourlyReadings` | cursors over events and overlapping analyses; readings, their check and their mail | — |
| `ServerConfig` | the writers of `config.json` | — |
| `FleetView` | the list in a dashboard, its requests, messages and edits | shows the rows that `FleetStatus` changes |
| `OfficeParts`, `ServiceParts` | unions of thirteen and nine components, see below | instances of their components |
| `MC*` | instances for TLC | of the components or of the unions |
| `*Proofs` | theorems, see section 5 | `OfficeProofs` and `ClockProofs` over `OfficeParts`, `ServicesProofs` over `ServiceParts`, the others over the component they are named after |

**Unions.** `ServiceParts` (nine components), `OfficeParts` (thirteen) and `MCReturns`
(two) put components that share no state into one model, each on a small
instance: `MCServices` and `MCOffice` only give the constants of the
first two their values.
`part` is chosen at the start and says which of them moves; the
others stay in their first state, and fairness is asked only of the one that
moves. No interaction is claimed there: a union answers the questions of its
components one after the other. Where components interact by shared state they
are composed (`LiveSession` with `InputLock`) or refined (`CommandQueue` to
`CommandDelivery`, `NcrOrders` to `OrderVerdict`).

State names are the code's wherever it has one: `drSetupInProgress`
(CommandQueue), `pendingUnlock`, `dashboardWs`, `lockedBy`, `stopCh` (LiveSession),
`seen` = last_seen, `wol` = wol_status, `cooling` = offlineAlertCooldown
(FleetStatus), `handle`, `failures` = consecutiveLaunchFailures (CompanionWatch),
`slots`, `waiters` (ClockQueue), `armed` = the clocks marked as new (ClockScan),
`started` = cpuAlertStart (Alarms). Variables called history or observers
(`runs`, `outcome`, `mails`, `silence`, `heard`, `deaths`, `kept`, `calm`,
`among`, `crossed`, `lifted`, `sound`) are read by no action; properties need them.

**CommandQueue.** One action per step between two points where another actor may
move: `ServePoll` is the whole of `getPendingCommands` (select and mark),
`StartCommand` / `FinishCommand` / `AbandonCommand` the three outcomes of
`runCommandWithDeadline`, `FinishOrphan` what an abandoned goroutine still does.
A GET the agent gave up may be served later (`ServeAbandonedPoll`) and loses its
commands. `AgentCrash` kills all goroutines of a machine; `ServerRestart` ends
the waiters of `POST /run`, the table stays.

**LiveSession.** A session is registered, given a socket on each side and closed in
any order. Each dashboard reconnects once. The companion's loop (`Dial`,
`SeeStop`, `WriteFails`, `EndLoop`) and its reader (`HandleInput`, `ReaderEnds`)
are separate goroutines, and `EndLoop` runs the deferred calls in the code's order:
close the connection, wait for the reader, release the lock. `WriteFails` stands
for a frame that cannot be sent. Frames, cursor and monitor messages and the switch
to the MJPEG fallback are left out, recordings are `SessionWindow`; mouse and keyboard take the
path of the lock messages.

**InputLock.** Under `localInputLockMu`, so each call is one step. A timer that has
fired has a callback waiting for the mutex (`expired`), which `Stop` cannot recall.

**FleetStatus.** All handlers of this part run without an `await` between first
read and last write, so each is one action, the four checks of `checkAll`
together as well. Ages count ticks and saturate above the longest limit; 0, 1, 2 keep the order of
90 s, 3 min, 10 min. The cooldown is a flag that may expire at any
moment. A lost heartbeat, a 429 and an agent whose network is down are the same:
no action. A packet that is lost and one that is spent on a running machine are
both `PacketSpent`. `AlertSwitch` and `AutoWakeSwitch` give the settings of
`config.json` that each pass may find. Re-keying by host name is
`Registration`, metric thresholds are `Alarms`; the location of new rows and toasts are
left out. The table `deleted_machines` is left out too: `deleteMachine` writes it, but
`isDeletedMachine` has no caller, so the agent of a removed machine registers
again at once, in the model as in the code and against the comments at
`server/db.js:653` and `:660`.

**NcrOrders.** Ticks may overlap, since each waits for mails, so the parts of a tick
are actions. Time is three facts: the pause of a row is over, the lead time of an order
is over, a request is late. A handler that fails counts as "not found", as in the
code. Left out: mails that cannot be parsed, the limit of 50 mails per search,
`ncrSince`, alerts about Graph failures and a silent loop, and the cooldown of
alerts. A request created by a tick that crashed before it wrote the row's
command id is ignored.

**CompanionWatch.** A tick is one action up to `launchCompanion`; the launch, its
failure and the record of it are separate, because `stop` and `checkAndUpdate`
call `terminateCompanion` on other goroutines meanwhile. A killed process
(`dying`) still holds the pipe. The end of the service, in whatever way, closes
the job handles. A process that could not be assigned to its job (`bare`) stays.
Time is counted in ticks; a tick may be late, so an age of two ticks may be
more or less than 30 s, and a back-off may take one tick more. PID, session, handle and job are written
one after the other; the model writes them in one step, and what a stop does in
between only matters to a process that is ending.

**Registration.** Three cases of `registerMachine`: a known id, a new id whose host
name has a row already (the tables of the list are re-keyed with foreign keys
off), and a new one. A computer may lose its `config.json`, be renamed, be removed
by the operator; an answer may be lost after its row is written. Of a history is kept
whether there is any: `history` in the tables that cascade with the machine, `serviceRows`
in `service_status`, which has no foreign key and which `deleteMachine` forgets.

**Updater.** A binary is its version; a download that overlaps a publication may be
"Torn". `Heartbeat` respects `updating`, `UpdateCommand` does not, as in the code, so
two updates share `.new` and `.old`. `MoveAway` and `Place` are the two renames; Windows
may refuse each, a refused second one rolls back, and the rollback may be refused as well,
which the code does not look at. `PowerCut` may come anywhere.

**Clocks.** `ClockQueue` has the chain of operations of a clock and the slots; a release
hands its slot to the first waiter in the same step, as the microtask does.
`ClockScan` keeps lengths of lists; reading (also an empty list that counts as a success),
retrying, refusing a list that shrank, the flag that lifts the guard, timers and the file,
which a stop may leave torn, are there. `ClockRoster` has removals and
enrolments that overlap, misread pages, callers that gave up and restarts of both
processes. `EmployeeTable` polls jobs by their position in a list the next sync
replaces. `RhHealth` counts failures and mutes mails as the monitor does, with or without a key for
the mail service.

**Office.** `RemoteClockIn` has the phone that passes from hand to hand, its open pages with
their one cookie, sessions that expire, and the seconds between a press and what it sends.
`Reports` waits for Freshdesk and Claude between the look for a recent run and the run;
its file is written before the row of the run, whose saving may fail, and two stores may
have the same file name (`FileOf`, for `safeName`);
`RiskScore` is the arithmetic of the score over classes of measurements, one for each
branch; `TopicForm` has uploads that answer in any order; `ZamakSync` lets full and
nightly syncs overlap; each table is a write of its own, so that a stop or an error may
break a sync off between them. `Insights` lets runs overlap and events arrive while Claude
answers. `HourlyReadings` counts ticks of five minutes; a reading
bears the time of its PC, which `Skew` sets off from the server's. `ServerConfig` has every
writer of the file. `Alarms` has passes, rules and what resets their common clock.

**Dashboard.** `FleetView` has the three writers of the list, whose answers come out of
order. `Invoices` has the one poll that all mounts share. `SessionWindow` has main
process and renderer as two actors joined by messages.

## 3. Runs

| Run | Bounds | Question | Properties |
|---|---|---|---|
| `queue_faults` | 1 machine, 3 commands (2 dr-setup, 1 `POST /run`), 1 fault | does a lost message, crash or restart break delivery? | `AtMostOnce`, `DrSetupExclusive`, `ImplementsDelivery` |
| `live_faults` | a normal and a shadow session, 1 fault, `BlockInput` may fail, commands may be lost | do relay, companion and lock keep their promises? | `LockOwnerIsRunning`, `OwnerMeansBlocked` |
| `live_takeover` | two normal sessions taking the lock from each other, only the failsafe is fair | does every lock end? | `LockIsBounded` |
| `returns` | one session, 3 clicks, 2 faults; a machine and its relay, 1 request, 2 faults | does what must come back come back: input, sessions, 'offline', verdicts of tests? are mails, verdicts and packets earned? | `BlockedMeansOwner`, `OperatorGoneUnlocks`, `StopEndsSession`, `SilentGoesOffline`, `TestsConclude`, `OneMailPerOutage`, `ConfirmedMeansHeard`, `WakesOnlyTheSilent` |
| `watch_faults` | 2 users, 2 processes, 2 session changes, 2 faults | one companion, no churn, and is the user served? | `OneCompanion`, `LaunchesAreApart`, `UserIsServed` |
| `services` | see below | what is owed in the end, and is nothing lost on the way? | see below |
| `office` | see below | what may no step do to rows, lists, files, mails? | see below |
| `fleet_autotest` | 1 request, 1 fault | disagreement, see section 6 | `AutoTestReturns` |
| `index_two` | 2 machines, 2 triggers, 3 looks, no failure | disagreement | `PollIsEnsured` |
| `ncr_late` | one order, no fault | disagreement | `LateIsReported` |
| `form_shown` | 3 photos, 3 uploads | disagreement | `ShownIsSaved` |
| `window_forced` | 1 recording, 1 close, 1 failed call | disagreement | `ForcedOnlyIfDead` |

The parts of `services`:

| Part | Bounds | Property |
|---|---|---|
| commands | 1 machine, a dr-setup and a `POST /run`, handlers may hang, no fault | `EveryCommandAnswered`: every command gets a verdict |
| queue | 3 clocks, 2 slots, 2 operations each | `QueueMoves`: who waits for a browser gets one |
| table | 3 jobs, panels of 2 | `SyncEnds`: no entry of the panel runs for ever |
| update | versions 0 to 2, 2 update commands, 1 power cut, 2 refused renames | `ServiceHasExe`, `UpdateArrives` |
| health | cooldown of 2 checks, 2 refused mails, 1 restart, with and without a key | `OutageIsMailed` |
| agents | 2 computers, 3 ids, 3 names, 1 registration per window, 1 lost answer, 1 removal | `AgentReturns`: a refused agent has a row again |
| bills | 1 machine, 2 days, 2 triggers, 2 looks, 1 failed request | `BarComesToAnEnd` |
| window | 2 recordings, 3 clicks on X, 2 failed calls | `NoRecordingIsLost`, `WindowCloses` |
| view | 1 dashboard, 2 machines, 2 changes, 2 lists under way | `ViewCatchesUp`: the list becomes what the database holds |

The parts of `office`:

| Part | Bounds | Property |
|---|---|---|
| orders | an order of a known and one of an unknown store, 5 requests, 2 faults | `ImplementsVerdict` |
| roster | 2 clocks, 1 person, 1 removal, 1 enrolment, 1 misread page, 1 restart of each process | `SuccessMeansGone` |
| scan | 1 clock with up to 3 people, 2 jobs, 1 change, 1 mark, 1 restart | `GoodListKept` |
| agents | 2 computers, 3 ids, 3 names, 2 renamings, 1 removal | `NoOrphans` |
| report | 2 stores with one file name, 2 topics, 2 overlapping requests, none begun after a run is saved, 1 stop, saves may fail | `AnswerLeadsToItsFile` |
| risk | three answers of Claude, one outside each bound | `TroubleNeverLowersTheScore` |
| zamak | 1 device, 2 jobs, 3 syncs, 1 change | `TablesAgree` |
| entry | 2 employees, 1 phone with 2 pages, 1 entry and 1 correction | `EntryIsOfItsPresser` |
| form | 2 photos, 3 uploads | (fires the actions that `form_shown` is about) |
| insight | 1 machine, 2 overlapping runs, 3 events, prompts of 1 | `OnlySeenIsPassed` |
| reading | hours of 3 ticks, days of 2 hours, 6 ticks, clocks from 10 min behind to 5 ahead, 2 stops | `NoFalseMiss` |
| config | 1 dashboard, 2 tokens, 2 switches, 3 mails, 1 kill | `NothingUndone` |
| alarms | rules of 60% and 90% over 2 passes, 3 passes, 1 notice, one kind of each other limit | `AlarmIsSustained` |

Why these bounds are enough to be of use: every next-state disjunct fires in some
passing run, and every property has a mutant that breaks it within the run's own
bounds. Three commands are what order, an orphan and its successor need; two
sessions are what a takeover needs; two machines are a sleeper and its relay; five
requests allow four retries and one that overlaps. Two levels of load are two rules that share a start time;
two pages are one that is left open. Two companion processes are one
that is dying and one that is new. Two overlapping jobs, requests or runs are what
a lost update, a swapped order or a cursor set back need; three clocks are one more
than there are slots. The theorems of section 5 remove the bounds for the properties
they state.

Distinct states: `queue_faults` 670 thousand, `live_faults` 1,409, `live_takeover` 520, `returns` 248,
`watch_faults` 565, `services` 116, `office` 1,357 (all in thousands). With two workers each run takes less than
four minutes.

Deadlock is checked in `queue_faults`, which runs for ever. In the
others it is off: once windows are closed, orders are decided, a service has been
stopped or the bounds of a part are reached, there is nothing left to do.

## 4. Fairness

* `CommandQueue`: weak fairness of the agent's and the server's own steps
  (tickers and request handlers). Not of handlers: they may hang, and the
  deadline (`AbandonCommand`, a timer) is fair instead.
* `LiveSession`, in `returns`: the goroutines, sockets and timers that the program
  drives itself, and `WriteFails`, because a companion that captures frames
  writes to a dead connection some day. The operator, clicks, disconnections and
  the failsafe are not fair. `FailsafeSpec` (`live_takeover`) has the failsafe timer
  and its callback only: nothing else is needed to bound a lock.
* `FleetStatus`: time passes and `setInterval` runs `checkAll`. No machine has to answer.
* `CompanionWatch`: the ticker, a launch that has begun, the exit of a service that
  is stopping or updating, the service manager's recovery action (`agent/main.go:121`), a
  companion that opens its pipe or gives up, and Windows finishing off a killed process.
* `Updater`: heartbeats, the steps of an update, the service manager. Strong fairness
  of `Downloaded`: a download that is tried again and again does not fail for ever.
* `ClockQueue`: the event loop; a browser closes because every wait of a session has a
  time limit. `EmployeeTable`: the loops of a page that stays open. `RhHealth`: its timer.
* `Registration`: an agent that is refused goes on registering and its answer arrives
  in the end; a rate window ends. `FleetView`: timers, lists, messages and edits that
  are under way arrive; losing one is a bounded change, not a step that is owed.
* `Invoices`: agents work, the interval fires, requests are answered or fail.
* `SessionWindow`: both processes go on, requests are answered or fail, the operator
  answers the dialog, and the safety timer fires. A renderer that hangs owes nothing.

No fault is fair in any run, nor a user, nor an operator apart from that dialog.

## 5. Proofs

Every safety property and every action property that a passing run checks is also proved,
for all values of the constants that satisfy the named assumptions: `QueueAssumption`,
`LockAssumption`, `LiveAssumption`, `FleetAssumption`, `NcrAssumption`, `WatchAssumption`
(what the code's numbers satisfy: limits in their order, bounds that are naturals),
`OfficeAssumption` (the same for the office: somebody is employed, loads, minutes and
answers are integers, an hour has a tick, every computer can have an id and a name of its
own, clocks differ by whole ticks) and `UpdaterAssumption` (versions are naturals). `SessionWindow` needs none.

The proofs of a component of a union go the same way each time: `...Moves` says that a step
of the union is a step of the component or leaves its variables alone, `...Starts`
and `...Step` that its invariant holds at the start and is kept, and the theorem is about the
union, `Office` or `FairServices`, so that it states the property of the run.

* **`CommandQueueProofs`** (632 obligations). Type correctness; then
  `Located`: what is pending, in an answer or in a batch has not run, and what is
  in an answer or a batch is 'sent', so no later poll selects it again; this gives
  `AtMostOnce`. `Truthful` (a handler with an outcome has returned, and an ack of
  success is for an outcome "ok") gives `AnswersAreTrue`; `Guarded` (goroutines past
  the guard of dr-setup are running, and the flag of their agent is set) gives
  `DrSetupExclusive` (`DrSetupIsExclusive`). `Ordered` (what was started or fetched is older than what is
  still pending) gives `StartsInOrder`; `AckedOnce` (one ack, and only while the row
  is 'sent') gives, with the above, the refinement `QueueImplementsDelivery`.
* **`LiveSessionProofs`** (826). First the lock by itself (`LockIsSafe`): a lock has its owner's
  timer armed or the owner's callback waiting, and Windows really blocks. Then every
  step of the composition is a step of
  the lock or leaves it alone (`LockSteps`), so the lock's invariant carries over and
  gives `OwnersBlock` (an owner really blocks), `BlocksHaveOwner` (nobody is locked out by
  a lock without owner, when `BlockInput` works) and `OwnersHaveFailsafe`.
  `LoopInv` (one start command per session, delivered once, and a reader that runs
  has a loop that has not ended) is what makes `LockOwnerIsRunning` inductive: the release happens after the reader is gone.
  `RelayIsSafe` proves `ShadowIsOneWay` and `GraceOnlyWithoutDashboard`.
* **`FleetStatusProofs`** (342). `IInv` ties what the server believes to the observers:
  a row that is 'online' has had no mail since its last contact (`MailInv`);
  last_seen is never older than the last contact, and what is 'offline' has been
  silent for the limit (`SilenceInv`); an 'online' machine not heard since its test began was
  last seen before it (`HeardInv`). `OfflineAfter < TestLimit < WakeAfter` is used, and
  needed: `ConfirmedMeansHeard` fails when a test is closed before silence is noticed.
* **`NcrOrdersProofs`** (412). `IInv`: open requests belong to rows with a known
  store (`OpenInv`), a verdict of the store came with the answer to the request the row remembers
  (`DecidedInv`), result mails start with the verdict, once (`MailInv`), and a row that was put
  off is asked for only when its lead time is over (`LeadInv`). With it each action is mapped to a
  step of `OrderVerdict` or to none (`OrdersImplementVerdict`): a tick that asks again for several orders is one
  `Search` of those whose lead time is over, an answer that is the last one is `Decide`.
* **`CompanionWatchProofs`** (589). `Known`: a running companion that is in a job is the
  one of the handle or the one just launched, and there is no handle during a launch; it
  survives stop and update because `terminateCompanion` never touches a launch in progress.
  `ApartInv` gives `LaunchesStayApart`: every early death is among the failures the watch has
  counted, or its companion is still the one of the handle and the next tick will count it
  (`DeathsCounted`); and while there is no companion, the ticks since the last launch and those
  still to wait are together more than the back-off of the deaths (`RestsFirst`). The back-off is
  monotone (`BackoffGrows`), so counting one failure too many only waits longer.
* **`ServicesProofs`** (523). By itself `ServiceHasExe` is not inductive: a second update could move
  the new executable away while the first one stands before its exit. `RunsFromOld` says
  that from the first rename to the exit the process runs from `.old`, whose removal
  Windows refuses, so that the second update cannot rename anything onto it; `ImageExists`
  that the file of the running image is there, `DownIsIdle` that a process that is down
  updates nothing. The exceptions are in the property: a stop between the renames, a rollback that
  is refused, and a `.new` that a second download replaced after it was validated, which is the only
  way for a torn file to the path (`Validated`, `TornIsPlaced`). For the window, `Accounted` follows each recording from the recorder
  through the line of conversions to the disk, `EndWaits` says that the session's end stands behind all
  of them in that line, `CloseIsHeard` that a clean-up that was asked for is on its way or done; `RecordingsAreKept` follows.
* **`ClockProofs`** (715). `SuccessIsTrue`: a clock is visited once per removal
  (`VisitedOnce`), who was found gone from it stays gone unless the removal is marked as doubtful
  (`GoneIsGone`), and 'ok' is only written by a loop that is over and found the person gone everywhere
  (`OkIsOver`). `GoodListStays`: the list in memory is good whenever the one on disk is, for whoever
  writes the disk writes what is in memory, unless the flag of a new clock let an empty reading
  pass (`lifted`); a stop inside the write of the file is the other exception.
  `EntriesAreOfTheirPressers`: whoever a phone's cookie names is among those that each of its open
  pages may speak for, and so is the cookie a clock-in was sent with (`Speaks`); a login adds its
  employee to all pages of the phone, and only that makes an entry another's.
* **`OfficeProofs`** (2,032), one component after the other:
  * `NothingIsUndone`: `NothingUndone` is inductive here, because every writer reads the file again
    in the step that writes it.
  * `TablesAlwaysAgree`: what a sync has collected are rows of the list it began with (`Collected`), its number is
    its own and older than the count (`Numbered`); so rows of two syncs are never taken for one another.
    What a broken-off write may leave behind is still of known devices.
  * `HistoryHasItsMachine`: rows, tombs and history are typed and `NoRow` differs from every row. That
    `service_status` is in order until the first removal rests on the re-keying alone.
  * `NothingIsPassedOver`: a run writes a cursor that it computed from a copy of the old one. `CursorIsRight`
    and `PassedAtStart` say that cursors and copies pass only what was read, `ReadIsAll` that a run
    has read all between its copy and the newest event it read. So a run that overlaps may move a
    cursor back, never past something unread.
  * `ScoreFollowsTrouble`: the penalties are tables monotone in the class of their trouble (`TwoClasses`,
    `ThreeClasses`), so where no class falls (`ClassesGrow`) the capped sum of them does not fall
    (`PenaltiesGrow`), and the floors keep the order.
  * `AnswerFindsItsFile`: the file of a run's store shows that run, or a later one with the same file name,
    or a text whose run was not saved (`NewestIsOnFile`, over stops as well); and of a store's runs the newest is
    the last to stop being recent, so what the deduplication finds is what was on file.
  * `AlarmsAreTrue`: the start time of a machine is never older than the last low load that a rule saw since it
    was created (`KeyIsYoung`). Within a pass the keys go
    from rule to rule by the recursive function `KeyAfter`: `KeysFollow` shows that it exists, `KeysOfAPass` that
    after a rule that saw a low load the key is none or of this pass. Both are inductions over the
    naturals, done with sets (`NumbersFollow`, from the well-foundedness of `<`), since the library's
    induction theorems take operators.
  * `NoMissIsFalse`: a machine that lost no reading has one that is dated at most 65 minutes before the next one
    is due, and the next one is not past (`SoundIsNew`).

Type correctness is proved (`TypeCorrect`) for `CommandQueue`, `LiveSession`, `FleetStatus`,
`NcrOrders` and `CompanionWatch`. Elsewhere the inductive invariants hold the types they use,
and TLC's `TypeOK` documents the rest.

Only model-checked: everything that is owed in the end (the leads-to properties of `live_takeover`,
`returns`, `watch_faults` and `services`), since TLAPS has no rule here for ENABLED and fairness.

## 6. Where code and text disagree

With a run:

* `index_two`: the dashboard has one poll for the index of invoices of all machines. A late answer for
  the machine chosen before takes it over (`AlohaDANFESearch.jsx:345-352`) or ends it (line 20),
  and the bar of the machine on the screen stands still, against the comment at line 339.
* `fleet_autotest`: the plan for auto-wake says that an attempt goes back to
  'wol_confirmed'; `WOL_PROTECTED` (`server/routes/agent.js:184`) leaves out
  'wol_auto_testing', so the heartbeat of the very machine that woke up replaces it.
* `ncr_late`: a due order is asked for again at every tick and the row remembers only
  the newest request, so the alert of `ncrMonitor.js:15` ("30 min") cannot fire.
* `form_shown`: `forEach(uploadFile)` (`TopicForm.jsx:52`) passes the position of a file
  as the id of its entry. The first photo of every choice has the id 0, so that after two choices of
  one photo each the answer for one is written to both entries, and one photo is saved twice
  and the other not at all; of two photos chosen together the second is taken for a retry and not added.
* `window_forced`: a clean-up that fails (`electron/main.js:353`) leaves the safety timer
  running, and 15 s later the window of a renderer that lives is destroyed, against the
  comment at `main.js:180`.

Seen while modelling, without a run of its own:

* A machine that returns through `/register` is 'online' before its first heartbeat;
  `onMachineOnline` is not called, and its next drop within 30 min is not mailed, against
  `alertEngine.js:167`.
* `checkCpuAlerts` keeps one start time per machine: with two CPU rules and a load between
  their thresholds the higher one resets it at every pass and the lower one never fires
  (`AlarmIsSustained` only says that what fires is true). A rule that is new fires at once
  on the start time the others have kept (`alertEngine.js:173-179`), which survives a gap in
  which the machine was offline (`:213`). The cooldown of DR alerts is set
  even when the bell is off.
* Overlapping runs of the analysis move a cursor back and pay for the same events
  twice; of more than 150 events only the newest are shown to Claude, and all are passed.
* A double click on "gerar" pays for a report twice: two runs, one file. The file is overwritten by
  every later run of the store and month, and also by one whose row cannot be saved (`relatorio.js:302`);
  two stores whose names `safeName` makes equal (`reportEngine.js:920-922`) share it. An answer given before
  then leads to that text.
* The answer to a clock-in that is lost looks like a failure; the next press makes a second
  entry. The entry is written for whoever is logged in when it is sent, up to 8 s after the press
  (`getPosition`), and all pages of a phone share one cookie: after a login on another page the name on the
  first one is not the one its entries are written for.
* A server that is killed while it writes `config.json` starts with no settings; a missing refresh
  token silences the order monitor without a warning.
* The hourly check can skip its minute 5, and its mail covers the hours 00 to 02 UTC only.
* The Ref1 number of an enrolment is registered only if the dashboard's poll sees the job
  done (`rh.js:244`), so a closed window leaves it free to be given again.
* The mail about metrics reads snake_case keys of a JSON text and prints "N/D";
  `validateHeartbeat` looks for `cpu_pct` while the agent sends `cpuPct`.
* A wake-up that fails is tried again at every pass without a limit.
* The stop command of a session may be lost (`liveSessionRelay.js:85`), and after a restart
  of the server the row in `live_sessions` stays open (`live.js:20`).
* A stop between the insert of an order and its command id (`ncrMonitor.js:577`) leaves
  a row that no query finds again.
* A power cut between the renames of an update leaves a service without executable, and so does
  a rollback that Windows refuses (`updater.go:97-98`). The command `update` ignores `updating`
  (`commands.go:111`): its download can replace `.new` after the other update has validated it, and
  what is then placed and started may be torn. `ServiceHasExe` and its theorem state these three
  exceptions, `UpdateArrives` excepts an agent that is stranded by one of them.
* `deleteMachine` leaves the rows of `service_status` (`db.js:467-475`, `645-655`), although the table is in
  `_MACHINE_CHILD_TABLES`; the UPDATE of a later re-key to that id can fail on their primary key, inside
  a `catch`, and then they stay where they are.
* The tables of a full sync are written one after the other, each DELETE outside the transaction of its
  INSERTs (`zamak.js:472-478`, `db.js:1729`, `1812`): after a stop between them they disagree until the next
  full sync.
* An armed flag lets a reading of zero employees pass (`server.js:566`) and the good list is
  lost; so it is if the process stops while it writes `employee-cache.json`, since a torn file is
  read as an empty cache (`server.js:457-459`).
* The hourly check compares the time of the PC with the server's: a PC more than 5 min behind is
  reported at every hour though all its readings came in, and one that is ahead hides losses. `insertReadingMiss` says
  OR IGNORE, but no constraint makes a row a duplicate, so that the check of the start and that of the
  hour both count in the mail.
* Without a Resend key nothing of the HR monitor is mailed, and only the log says so (`resendAlert.js:77-81`).
* `deleted_machines` is written and never read. The plan of the order monitor calls the
  retry "event-driven, não polling", whereas due orders are sent again at every tick; its
  mail says "n de 3" while up to five attempts are made. `assignToJobAndResume` lets a
  companion run outside its job and logs it: after a crash of the service that companion
  keeps the pipe, so `UserIsServed` excepts it by name (`Orphans`).

## 7. Not modelled, and why

* Of parts that are modelled: the insights of `PUT /settings` (another key of the same file, written in
  the same way); an answer of Claude that is not a number (`clamp` passes a NaN on; `Answers` are
  integers); the PDF of a report; the type of a clock-in, its distance to the store and the limits on
  failed logins.
* Watchlist, activity, groups: rows that are stored, listed and pruned.
* Collection of metrics and events on the machine, screen capture, DANFE drawing, the
  contents of reports and mails, the fuzzy matching of sites: data without a protocol.
* The agent's resilient DNS and its configuration file: lookups with a fallback.
* The service monitor restarts services in a loop without memory between passes that
  others could see; only its mail is here (`ServerConfig`).
* Disaster recovery set-up: a sequence of external installers; its exclusion is in `CommandQueue`.
* Scripts under `infra/` and `deploy/` are run by hand or by cron.
* Veeam, the clocks' web pages, Freshdesk, Zamak, Microsoft Graph and Claude are external:
  they answer anything they may answer, or fail.
* The rest of the dashboard is presentation.

## 8. Plan

Done, in this order: `CommandQueue` over `CommandDelivery`, `InputLock`, `LiveSession`,
`FleetStatus`, `NcrOrders`, `CompanionWatch` with their proofs; then `Updater`,
`Registration`, the clock modules, the office modules, the dashboard modules, `Alarms`
and `Insights`, with their proofs; the unions were split into parts and instances, so that
theorems can be stated about them, and every safety and action property of the runs was proved.

What is left, by weight:

1. The Ref1 registry: `GET /rh/enroll/:jobId` as the only writer of it, over the jobs of
   `ClockRoster`. It is the one hazard of `PROJECT.json` without a property.
2. Invariants behind the liveness that TLC checks: slots and waiters of `ClockQueue`, the jobs of
   `EmployeeTable`, the days of `Invoices`, the list of `FleetView`.
3. An abstract specification of presence ("a row is online iff heard from lately, an outage is
   told once, a verdict is earned") above `FleetStatus`.
4. Compositions: a session's start and stop over `CommandQueue` itself in place of "in order,
   at most once"; `SessionWindow` over `LiveSession`; `CompanionWatch` under `LiveSession`.
5. The service monitor's streaks and restart attempts.
