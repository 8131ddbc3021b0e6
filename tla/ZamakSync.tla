------------------------------ MODULE ZamakSync ------------------------------
(***************************************************************************)
(* The cache of the Zamak / N-able inventory (services/zamak.js, its tables   *)
(* in db.js, routes/zamak.js).  A full sync (POST /sync, or a start with an   *)
(* old cache) asks for the devices and then for four lists of each; the       *)
(* nightly one asks for performance and outages of the devices it knows.      *)
(* Nothing keeps two of them from running at the same time, for minutes each: *)
(* throttle spaces the calls.  What a sync has collected goes into the tables *)
(* at its end, without a pause but in several transactions: an error of the   *)
(* database or a stop of the server may come between any two of them.          *)
(***************************************************************************)
EXTENDS Integers, FiniteSets

CONSTANTS Device, Job,
          MaxSyncs,   \* bound: syncs begun
          MaxChanges  \* bound: changes at Zamak and among the machines

VARIABLES
  listed,   \* devices Zamak lists for the client
  infected, \* devices with an active threat
  machines, \* devices that the machines table knows by name
  cached,   \* zamak_device_cache: when the row was written (0: no row) and threats_active > 0
  threats,  \* zamak_threats, by device
  perf,     \* zamak_performance; zamak_outages goes the same way
  only,     \* zamak_discrepancies: zamak_only and dm_only
  stamp,    \* the sync that wrote zamak_threats last
  torn,     \* a full write was broken off, and none has come to its end since
  job,      \* a sync under way
  timer,    \* scheduleNext has set its timeout
  mail,     \* what the last nightly e-mail said
  syncs, changes

tables == <<cached, threats, perf, only, stamp, torn>>
world  == <<listed, infected, machines>>
vars   == <<world, tables, job, timer, mail, syncs, changes>>

NoRow == [at |-> 0, bad |-> FALSE]
Idle  == [kind |-> "idle", at |-> 0, seen |-> {}, todo |-> {}, dm |-> {}, bad |-> {}]

TypeOK ==
  /\ listed \subseteq Device /\ infected \subseteq Device /\ machines \subseteq Device
  /\ cached \in [Device -> [at : 0..MaxSyncs, bad : BOOLEAN]]
  /\ threats \subseteq Device /\ perf \subseteq Device
  /\ only \in [zamak : SUBSET Device, dm : SUBSET Device]
  /\ \A j \in Job : job[j].kind \in {"idle", "full", "listed", "daily"}

Init ==
  /\ listed \in SUBSET Device /\ infected \in SUBSET Device /\ machines \in SUBSET Device
  /\ cached = [d \in Device |-> NoRow]
  /\ threats = {} /\ perf = {}
  /\ only = [zamak |-> {}, dm |-> {}]
  /\ stamp = 0 /\ torn = FALSE /\ job = [j \in Job |-> Idle]
  /\ timer = TRUE /\ mail = "none" /\ syncs = 0 /\ changes = 0

Known == {d \in Device : cached[d].at > 0}

-----------------------------------------------------------------------------
(* syncAll: the operator's button, or syncIfStale at the start of the server.  *)
BeginFull(j) ==
  /\ job[j].kind = "idle" /\ syncs < MaxSyncs
  /\ syncs' = syncs + 1
  /\ job' = [job EXCEPT ![j] = [Idle EXCEPT !.kind = "full", !.at = syncs + 1]]
  /\ UNCHANGED <<world, tables, timer, mail, changes>>

(* discoverDelirio, discoverSites, fetchAllDevices, buildFailingByDevice.       *)
Discover(j) ==
  /\ job[j].kind = "full"
  /\ job' = [job EXCEPT ![j].kind = "listed", ![j].seen = listed, ![j].todo = listed,
                        ![j].dm = machines]
  /\ UNCHANGED <<world, tables, timer, mail, syncs, changes>>

(* No such client, an error of the API, 30 s without an answer, an error of    *)
(* the database before the first row: nothing is written.                    *)
FullFails(j) ==
  /\ job[j].kind \in {"full", "listed"}
  /\ job' = [job EXCEPT ![j] = Idle]
  /\ UNCHANGED <<world, tables, timer, mail, syncs, changes>>

(* fetchDeviceThreats: an error is logged and counts as no threat.            *)
Infections(j, d) == {job[j].bad} \cup {job[j].bad \cup ({d} \cap infected)}

(* The calls for the next device; fetchDevicePerformance gives a row in any    *)
(* case.                                                                     *)
ReadDevice(j) ==
  /\ job[j].todo # {}
  /\ LET d == CHOOSE x \in job[j].todo : TRUE IN
       \E bad \in IF job[j].kind = "listed" THEN Infections(j, d) ELSE {{}} :
         job' = [job EXCEPT ![j].todo = @ \ {d}, ![j].bad = bad]
  /\ UNCHANGED <<world, tables, timer, mail, syncs, changes>>

(* upsertZamakDevices: INSERT OR REPLACE, rows of other devices stay.          *)
UpsertDevices(j) ==
  cached' = [d \in Device |-> IF d \in job[j].seen
                              THEN [at |-> job[j].at, bad |-> d \in job[j].bad]
                              ELSE cached[d]]

(* A table of which all rows are replaced, after n statements of a write: its  *)
(* DELETE is the statement first and a transaction of its own, its INSERTs are  *)
(* the next.                                                                 *)
Replaced(n, first, old, none, new) ==
  IF n < first THEN old ELSE IF n = first THEN none ELSE new

(* replaceZamakPerformance and replaceZamakOutages.                           *)
ReplaceHistory(j) == perf' = job[j].seen

MutEmptiesFirst(j, n) ==  \* mutation: the devices are written last
  /\ IF n = 7 THEN UpsertDevices(j) ELSE UNCHANGED cached
  /\ threats' = Replaced(n, 1, threats, {}, job[j].bad)
  /\ stamp' = Replaced(n, 1, stamp, stamp, job[j].at)
  /\ perf' = Replaced(n, 3, perf, {}, job[j].seen)
  /\ only' = Replaced(n, 5, only, [zamak |-> {}, dm |-> {}],
       [zamak |-> job[j].seen \ job[j].dm, dm |-> job[j].dm \ job[j].seen])

(* The first n of the seven statements of a full write: the devices, and for    *)
(* threats, performance and discrepancies the two of Replaced.                *)
(* buildDiscrepancies compares with the machines read after the discovery.     *)
Write(j, n) ==
  /\ UpsertDevices(j)
  /\ threats' = Replaced(n, 2, threats, {}, job[j].bad)
  /\ stamp' = Replaced(n, 2, stamp, stamp, job[j].at)
  /\ perf' = Replaced(n, 4, perf, {}, job[j].seen)
  /\ only' = Replaced(n, 6, only, [zamak |-> {}, dm |-> {}],
       [zamak |-> job[j].seen \ job[j].dm, dm |-> job[j].dm \ job[j].seen])

WriteFull(j) ==
  /\ job[j].kind = "listed" /\ job[j].todo = {}
  /\ Write(j, 7) /\ torn' = FALSE
  /\ job' = [job EXCEPT ![j] = Idle]
  /\ UNCHANGED <<world, timer, mail, syncs, changes>>

(* runDailySync: an e-mail in either case, and the next night.                *)
Report(text) == mail' = text /\ timer' = TRUE

(* A write is broken off, by an error, which is logged or mailed, or by a stop  *)
(* of the server, which takes all syncs with it.                              *)
BreaksOff(j) ==
  \/ /\ job' = [job EXCEPT ![j] = Idle]
     /\ IF job[j].kind = "daily" THEN Report("failed") ELSE UNCHANGED <<mail, timer>>
  \/ job' = [k \in Job |-> Idle] /\ timer' = TRUE /\ UNCHANGED mail

FullBreaksOff(j) ==
  /\ job[j].kind = "listed" /\ job[j].todo = {}
  /\ \E n \in 1..6 : Write(j, n)
  /\ torn' = TRUE /\ BreaksOff(j)
  /\ UNCHANGED <<world, syncs, changes>>

(* 02:00: the timeout of scheduleNext.  Without a device in the cache the      *)
(* night fails at once.                                                      *)
BeginDaily(j) ==
  /\ timer /\ job[j].kind = "idle" /\ syncs < MaxSyncs /\ Known # {}
  /\ timer' = FALSE /\ syncs' = syncs + 1
  /\ job' = [job EXCEPT ![j] = [Idle EXCEPT !.kind = "daily", !.at = syncs + 1,
                                            !.seen = Known, !.todo = Known]]
  /\ UNCHANGED <<world, tables, mail, changes>>

DailyFails ==
  /\ timer /\ Known = {} /\ syncs < MaxSyncs
  /\ syncs' = syncs + 1
  /\ Report("failed")
  /\ UNCHANGED <<world, tables, job, changes>>

WriteDaily(j) ==
  /\ job[j].kind = "daily" /\ job[j].todo = {}
  /\ ReplaceHistory(j)
  /\ job' = [job EXCEPT ![j] = Idle]
  /\ Report("ok")
  /\ UNCHANGED <<world, cached, threats, only, stamp, torn, syncs, changes>>

(* Between the DELETE and the INSERTs.                                        *)
DailyBreaksOff(j) ==
  /\ job[j].kind = "daily" /\ job[j].todo = {}
  /\ perf' = {} /\ BreaksOff(j)
  /\ UNCHANGED <<world, cached, threats, only, stamp, torn, syncs, changes>>

(* The server starts again: the jobs are gone, the timer is set.              *)
Restart ==
  /\ \E j \in Job : job[j] # Idle
  /\ job' = [j \in Job |-> Idle] /\ timer' = TRUE
  /\ UNCHANGED <<world, tables, mail, syncs, changes>>

(* Devices come and go at Zamak, fall ill and recover.                        *)
Change(d) ==
  /\ changes < MaxChanges /\ changes' = changes + 1
  /\ \/ /\ listed' = IF d \in listed THEN listed \ {d} ELSE listed \cup {d}
        /\ UNCHANGED <<infected, machines>>
     \/ /\ infected' = IF d \in infected THEN infected \ {d} ELSE infected \cup {d}
        /\ UNCHANGED <<listed, machines>>
  /\ UNCHANGED <<tables, job, timer, mail, syncs>>

Next ==
  \/ \E j \in Job :
       \/ BeginFull(j) \/ Discover(j) \/ FullFails(j) \/ WriteFull(j) \/ FullBreaksOff(j)
       \/ ReadDevice(j) \/ BeginDaily(j) \/ WriteDaily(j) \/ DailyBreaksOff(j)
  \/ \E d \in Device : Change(d)
  \/ DailyFails \/ Restart

Spec == Init /\ [][Next]_vars

-----------------------------------------------------------------------------
(* The tables belong together, although full and nightly syncs overlap, begin  *)
(* in one order and end in another, and lose single calls: every threat        *)
(* and measurement is of a known device, wherever a write was broken off; the  *)
(* threats are those that the device rows of the same sync count, and no       *)
(* device with a threat is said to be missing at Zamak, unless a full write    *)
(* was broken off and none has come to its end since.                         *)
TablesAgree ==
  /\ threats \cup perf \cup only.zamak \subseteq Known
  /\ ~torn =>
       /\ \A d \in Device : cached[d].at = stamp /\ stamp > 0 => (cached[d].bad <=> d \in threats)
       /\ threats \cap only.dm = {}
=============================================================================
