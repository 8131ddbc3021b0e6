----------------------------- MODULE OfficeProofs -----------------------------
(***************************************************************************)
(* What the other parts of OfficeParts promise, one component after another,   *)
(* for every value of the constants: the invariant that is inductive, that a    *)
(* step of the union is a step of the component or none, that the invariant is  *)
(* kept, and the theorem.                                                    *)
(***************************************************************************)
EXTENDS OfficeParts, SequenceTheorems, WellFoundedInduction, TLAPS

-----------------------------------------------------------------------------
(* ServerConfig: the file is whole and as last stored until a write is cut.    *)

ConfigInv ==
  /\ newest \in Nat \ {0} /\ crashes \in Nat
  /\ NothingUndone

LEMMA ConfigMoves == [Moves]_all => [Config!Next]_configVars
<1>1. Moves => [Config!Next]_configVars
  BY DEF Moves, Only
<1>2. UNCHANGED all => UNCHANGED configVars
  BY DEF all
<1> QED BY <1>1, <1>2

LEMMA WholeFile ==
  ASSUME NEW t \in Nat \ {0}, NEW on
  PROVE  /\ Config!Whole(t, on) # Config!Torn
         /\ Config!Token(Config!Whole(t, on)) = t
         /\ Config!Settled(Config!Whole(t, on)) = on
         /\ \A u : [Config!Whole(t, on) EXCEPT !.token = u] = Config!Whole(u, on)
<1>1. Config!Whole(t, on).torn = FALSE /\ Config!Torn.torn = TRUE
  BY DEF Config!Whole, Config!Torn
<1>2. Config!Whole(t, on) # Config!Torn
  BY <1>1
<1>3. Config!Token(Config!Whole(t, on)) = t /\ Config!Settled(Config!Whole(t, on)) = on
  BY <1>2 DEF Config!Token, Config!Settled, Config!Whole
<1>4. ASSUME NEW u PROVE [Config!Whole(t, on) EXCEPT !.token = u] = Config!Whole(u, on)
  <2>1. PICK f : f = FALSE
    BY Zenon
  <2>2. \A v : Config!Whole(v, on) = [torn |-> f, token |-> v, on |-> on]
    BY <2>1, Zenon DEF Config!Whole
  <2> QED BY <2>2
<1> QED BY <1>2, <1>3, <1>4

LEMMA ConfigStarts == Config!Init => ConfigInv
  BY DEF Config!Init, ConfigInv, NothingUndone, Config!NothingUndone

LEMMA ConfigStep == ConfigInv /\ [Config!Next]_configVars => ConfigInv'
<1> SUFFICES ASSUME ConfigInv, [Config!Next]_configVars PROVE ConfigInv'
  OBVIOUS
<1> USE DEF ConfigInv, NothingUndone, Config!NothingUndone, Config!dashVars, Config!mailVars
<1>1. ASSUME UNCHANGED <<file, newest, lastSet, crashes>> PROVE ConfigInv'
  BY <1>1
<1>2. ASSUME NEW d \in Dash, Config!LoadSettings(d) \/ Config!PutAnswered(d) \/ Config!PutFails(d)
      PROVE ConfigInv'
  BY <1>1, <1>2 DEF Config!LoadSettings, Config!PutAnswered, Config!PutFails
<1>3. ASSUME NEW d \in Dash, Config!ServePut(d) PROVE ConfigInv'
  <2>1. file' = Config!Merged(putRequest[d])
    BY <1>3 DEF Config!ServePut
  <2>2. /\ UNCHANGED <<newest, crashes>>
        /\ lastSet' = [lastSet EXCEPT ![putRequest[d].switch] = putRequest[d].value]
    BY <1>3 DEF Config!ServePut
  <2>3. crashes = 0 => Config!Token(file) = newest /\ Config!Settled(file) = lastSet
    BY WholeFile
  <2>4. crashes = 0 => file' = Config!Whole(newest, lastSet')
    BY <2>1, <2>2, <2>3, Zenon DEF Config!Merged
  <2> QED BY <2>2, <2>4
<1>4. ASSUME NEW d \in Dash, NEW s \in Config!Switch, Config!Toggle(d, s) PROVE ConfigInv'
  BY <1>1, <1>4 DEF Config!Toggle
<1>5. ASSUME NEW m \in Config!Mailer, Config!Granted(m) PROVE ConfigInv'
  <2>1. PICK t \in 1..MaxTokens :
          /\ file' = Config!Stored(file, waiting[m], t)
          /\ newest' = IF Config!Token(file) = 0 \/ t = waiting[m].token THEN newest ELSE t
    BY <1>5 DEF Config!Granted
  <2>2. UNCHANGED <<lastSet, crashes>>
    BY <1>5 DEF Config!Granted
  <2>3. newest' \in Nat \ {0}
    BY <2>1, OfficeAssumption
  <2>4. CASE Config!Token(file) = 0 \/ t = waiting[m].token
    BY <2>1, <2>2, <2>4 DEF Config!Stored
  <2>5. CASE ~(Config!Token(file) = 0 \/ t = waiting[m].token)
    BY <2>1, <2>2, <2>3, <2>5, WholeFile DEF Config!Stored
  <2> QED BY <2>4, <2>5
<1>6. ASSUME NEW m \in Config!Mailer, Config!Refused(m) PROVE ConfigInv'
  BY <1>1, <1>6 DEF Config!Refused
<1>7. ASSUME NEW m, Config!Ask(m) PROVE ConfigInv'
  BY <1>1, <1>7 DEF Config!Ask
<1>8. CASE Config!TimePasses
  BY <1>1, <1>8 DEF Config!TimePasses
<1>9. CASE Config!DiesInWrite
  BY <1>9 DEF Config!DiesInWrite
<1>10. CASE UNCHANGED configVars
  BY <1>1, <1>10 DEF configVars
<1> QED
  BY <1>2, <1>3, <1>4, <1>5, <1>6, <1>7, <1>8, <1>9, <1>10
  DEF Config!Next, Config!NcrTick, Config!SendDanfeEmail, Config!SendDailyMetricsEmail,
      Config!SendServiceStatusEmail, Config!SendSyncEmail

(* No writer of config.json undoes what another one has stored, whatever       *)
(* number of dashboards and tokens there is.                                  *)
THEOREM NothingIsUndone == Office => []NothingUndone
<1>1. Begins => Config!Init
  BY DEF Begins
<1> QED BY <1>1, ConfigStarts, ConfigMoves, ConfigStep, PTL DEF Office, ConfigInv
-----------------------------------------------------------------------------
(* ZamakSync: what a sync has collected is of devices that it has seen, its    *)
(* number is its own, and no row carries the number of a sync that is still to  *)
(* write.                                                                    *)

SyncRecord == [kind : {"idle", "full", "listed", "daily"}, at : Nat, seen : SUBSET Device,
         todo : SUBSET Device, dm : SUBSET Device, bad : SUBSET Device]

Writes(k) == syncJob[k].kind \in {"full", "listed"}

ZamakTyped ==
  /\ listed \subseteq Device /\ machines \subseteq Device
  /\ devices \in [Device -> [at : Nat, bad : BOOLEAN]]
  /\ threats \subseteq Device /\ perf \subseteq Device
  /\ only \in [zamak : SUBSET Device, dm : SUBSET Device]
  /\ syncJob \in [SyncJob -> SyncRecord]
  /\ syncs \in Nat

Collected ==
  \A k \in SyncJob :
    /\ syncJob[k].todo \subseteq syncJob[k].seen /\ syncJob[k].bad \subseteq syncJob[k].seen
    /\ syncJob[k].todo # {} => syncJob[k].kind \in {"listed", "daily"}
    /\ syncJob[k].bad # {} => syncJob[k].kind = "listed"
    /\ syncJob[k].kind = "daily" => syncJob[k].seen \subseteq Zamak!Known

Numbered ==
  /\ \A d \in Device : devices[d].at <= syncs
  /\ \A k \in SyncJob : Writes(k) =>
       /\ syncJob[k].at \in 1..syncs
       /\ \A d \in Device : devices[d].at # syncJob[k].at
       /\ \A l \in SyncJob : Writes(l) /\ l # k => syncJob[l].at # syncJob[k].at

ZamakInv == ZamakTyped /\ Collected /\ Numbered /\ TablesAgree

LEMMA ZamakMoves == [Moves]_all => [Zamak!Next]_zamakVars
<1>1. Moves => [Zamak!Next]_zamakVars
  BY DEF Moves, Only
<1>2. UNCHANGED all => UNCHANGED zamakVars
  BY DEF all
<1> QED BY <1>1, <1>2

LEMMA ZamakStarts == Zamak!Init => ZamakInv
<1> SUFFICES ASSUME Zamak!Init PROVE ZamakInv
  OBVIOUS
<1> USE DEF Zamak!Init
<1>1. ZamakTyped
  BY DEF ZamakTyped, Zamak!NoRow, Zamak!Idle, SyncRecord
<1>2. Collected /\ Numbered
  BY DEF Collected, Numbered, Writes, Zamak!Idle, Zamak!NoRow
<1>3. TablesAgree
  BY DEF TablesAgree, Zamak!TablesAgree
<1> QED BY <1>1, <1>2, <1>3 DEF ZamakInv
(* A sync that only changes its own record, and carries its own number or a    *)
(* new one, disturbs nothing.                                                *)
LEMMA ZamakJobStep ==
  ASSUME ZamakInv, NEW k \in SyncJob, NEW r \in SyncRecord,
         syncJob' = [syncJob EXCEPT ![k] = r],
         listed' \subseteq Device, machines' \subseteq Device,
         UNCHANGED <<devices, threats, perf, only, stamp, torn>>,
         syncs' \in {syncs, syncs + 1},
         r.todo \subseteq r.seen, r.bad \subseteq r.seen,
         r.todo # {} => r.kind \in {"listed", "daily"},
         r.bad # {} => r.kind = "listed",
         r.kind = "daily" => r.seen \subseteq Zamak!Known,
         r.kind \in {"full", "listed"} =>
           \/ Writes(k) /\ r.at = syncJob[k].at
           \/ r.at = syncs + 1 /\ syncs' = syncs + 1
  PROVE  ZamakInv'
<1> USE DEF ZamakInv
<1>1. /\ syncJob'[k] = r
      /\ \A l \in SyncJob : l # k => syncJob'[l] = syncJob[l]
      /\ syncs \in Nat /\ syncs' \in Nat /\ syncs <= syncs'
      /\ \A d \in Device : devices[d].at \in Nat
  BY DEF ZamakTyped
<1>2. ZamakTyped'
  BY <1>1 DEF ZamakTyped
<1>3. Zamak!Known' = Zamak!Known
  BY DEF Zamak!Known
<1>4. Collected'
  BY <1>1, <1>3 DEF Collected
<1>5. \A l \in SyncJob : l # k => (Writes(l)' <=> Writes(l))
  BY <1>1 DEF Writes
<1>6. \A l \in SyncJob : l # k /\ Writes(l) => syncJob[l].at \in 1..syncs
  BY DEF Numbered
<1>7. ASSUME r.kind \in {"full", "listed"}
      PROVE  /\ r.at \in 1..syncs'
             /\ \A d \in Device : devices[d].at # r.at
             /\ \A l \in SyncJob : l # k /\ Writes(l) => syncJob[l].at # r.at
  <2>1. CASE Writes(k) /\ r.at = syncJob[k].at
    BY <1>1, <2>1 DEF Numbered
  <2>2. CASE r.at = syncs + 1 /\ syncs' = syncs + 1
    BY <1>1, <1>6, <2>2 DEF Numbered
  <2> QED BY <1>7, <2>1, <2>2
<1>8. ASSUME NEW l \in SyncJob, Writes(l)'
      PROVE  /\ syncJob'[l].at \in 1..syncs'
             /\ \A d \in Device : devices[d].at # syncJob'[l].at
             /\ \A m \in SyncJob : Writes(m)' /\ m # l => syncJob'[m].at # syncJob'[l].at
  <2>1. CASE l = k
    BY <1>1, <1>5, <1>7, <1>8, <2>1 DEF Writes
  <2>2. CASE l # k
    <3>1. Writes(l) /\ syncJob'[l] = syncJob[l]
      BY <1>1, <1>5, <1>8, <2>2
    <3>2. syncJob'[l].at \in 1..syncs' /\ \A d \in Device : devices[d].at # syncJob'[l].at
      BY <1>1, <3>1 DEF Numbered
    <3>3. ASSUME NEW m \in SyncJob, Writes(m)', m # l PROVE syncJob'[m].at # syncJob'[l].at
      BY <1>1, <1>5, <1>7, <2>2, <3>1, <3>3 DEF Numbered, Writes
    <3> QED BY <3>2, <3>3
  <2> QED BY <2>1, <2>2
<1>9. Numbered'
  BY <1>1, <1>8 DEF Numbered
<1>10. TablesAgree'
  BY <1>3 DEF TablesAgree, Zamak!TablesAgree
<1> QED BY <1>2, <1>4, <1>9, <1>10

(* The rows that a full sync writes carry its number, which no other row has;  *)
(* if the write is broken off, what it has written is still of devices that it  *)
(* has written first.                                                        *)
LEMMA ZamakWrites ==
  ASSUME ZamakInv, NEW k \in SyncJob, NEW n \in 1..7, Zamak!Write(k, n),
         syncJob[k].kind = "listed", ~torn' => n = 7,
         syncJob' \in [SyncJob -> SyncRecord], syncJob'[k] = Zamak!Idle,
         \A l \in SyncJob : syncJob'[l] \in {syncJob[l], Zamak!Idle},
         UNCHANGED <<listed, machines, syncs>>
  PROVE  ZamakInv'
<1> USE DEF ZamakInv
<1> DEFINE me == syncJob[k]
<1>1. /\ devices' = [d \in Device |-> IF d \in me.seen
                                       THEN [at |-> me.at, bad |-> d \in me.bad]
                                       ELSE devices[d]]
      /\ Writes(k)
  BY DEF Zamak!Write, Zamak!UpsertDevices, Writes
<1>2. me \in SyncRecord /\ me.bad \subseteq me.seen /\ me.at \in 1..syncs /\ syncs \in Nat
  BY <1>1 DEF ZamakTyped, Collected, Numbered
<1>3. /\ threats' \in {threats, {}, me.bad} /\ perf' \in {perf, {}, me.seen}
      /\ only' \in {only, [zamak |-> {}, dm |-> {}],
                     [zamak |-> me.seen \ me.dm, dm |-> me.dm \ me.seen]}
      /\ ~torn' => /\ threats' = me.bad /\ perf' = me.seen /\ stamp' = me.at
                   /\ only' = [zamak |-> me.seen \ me.dm, dm |-> me.dm \ me.seen]
  <2>1. \A f \in {2, 4, 6} : \A old, none, new :
          /\ Zamak!Replaced(n, f, old, none, new) \in {old, none, new}
          /\ n = 7 => Zamak!Replaced(n, f, old, none, new) = new
    BY DEF Zamak!Replaced
  <2>3. threats' \in {threats, {}, me.bad} /\ (n = 7 => threats' = me.bad /\ stamp' = me.at)
    BY <2>1 DEF Zamak!Write
  <2>4. perf' \in {perf, {}, me.seen} /\ (n = 7 => perf' = me.seen)
    BY <2>1 DEF Zamak!Write
  <2>5. /\ only' \in {only, [zamak |-> {}, dm |-> {}],
                     [zamak |-> me.seen \ me.dm, dm |-> me.dm \ me.seen]}
        /\ n = 7 => only' = [zamak |-> me.seen \ me.dm, dm |-> me.dm \ me.seen]
    BY <2>1 DEF Zamak!Write
  <2> QED BY <2>3, <2>4, <2>5
<1>4. \A d \in Device :
        /\ d \in me.seen => devices'[d].at = me.at /\ (devices'[d].bad <=> d \in me.bad)
        /\ d \notin me.seen => devices'[d] = devices[d]
  <2>1. ASSUME NEW d \in Device, d \in me.seen
        PROVE  devices'[d].at = me.at /\ (devices'[d].bad <=> d \in me.bad)
    <3>1. devices'[d] = [at |-> me.at, bad |-> d \in me.bad]
      BY <1>1, <2>1
    <3>2. PICK b : b = (d \in me.bad)
      OBVIOUS
    <3>3. devices'[d] = [at |-> me.at, bad |-> b]
      BY <3>1, <3>2, Zenon
    <3>4. devices'[d].at = me.at /\ devices'[d].bad = b
      BY <3>3
    <3> QED BY <3>2, <3>4, Zenon
  <2> QED BY <1>1, <2>1
<1>5. ZamakTyped'
  <2>1. devices' \in [Device -> [at : Nat, bad : BOOLEAN]]
    BY <1>1, <1>2 DEF ZamakTyped
  <2>2. /\ threats' \subseteq Device /\ perf' \subseteq Device
        /\ only' \in [zamak : SUBSET Device, dm : SUBSET Device]
    BY <1>2, <1>3 DEF ZamakTyped, SyncRecord
  <2> QED BY <1>2, <2>1, <2>2 DEF ZamakTyped
<1>6. Zamak!Known \subseteq Zamak!Known' /\ me.seen \subseteq Zamak!Known'
  BY <1>2, <1>4 DEF Zamak!Known, SyncRecord
<1>7. Collected'
  BY <1>6 DEF Collected, Zamak!Idle
<1>8. \A l \in SyncJob : Writes(l)' => l # k /\ Writes(l) /\ syncJob'[l] = syncJob[l]
  BY DEF Writes, Zamak!Idle
<1>9. \A l \in SyncJob, d \in Device : Writes(l)' => devices'[d].at # syncJob'[l].at
  BY <1>1, <1>4, <1>8 DEF Numbered
<1>10. \A d \in Device : devices'[d].at <= syncs
  BY <1>2, <1>4 DEF Numbered
<1>11. Numbered'
  BY <1>8, <1>9, <1>10 DEF Numbered
<1>12. TablesAgree'
  <2>1. threats' \cup perf' \cup only'.zamak \subseteq Zamak!Known'
    BY <1>2, <1>3, <1>6 DEF TablesAgree, Zamak!TablesAgree
  <2>2. \A d \in Device : devices'[d].at = me.at => d \in me.seen
    BY <1>1, <1>4 DEF Numbered
  <2>3. ~torn' => threats' \cap only'.dm = {}
    BY <1>2, <1>3
  <2> QED BY <1>3, <1>4, <2>1, <2>2, <2>3 DEF TablesAgree, Zamak!TablesAgree
<1> QED BY <1>5, <1>7, <1>11, <1>12

(* What is broken off leaves its sync idle, or all of them.                    *)
LEMMA ZamakBreaks ==
  ASSUME ZamakInv, NEW k \in SyncJob, Zamak!BreaksOff(k)
  PROVE  /\ syncJob' \in [SyncJob -> SyncRecord] /\ syncJob'[k] = Zamak!Idle
         /\ \A l \in SyncJob : syncJob'[l] \in {syncJob[l], Zamak!Idle}
<1>1. Zamak!Idle \in SyncRecord
  BY DEF Zamak!Idle, SyncRecord
<1>2. CASE syncJob' = [syncJob EXCEPT ![k] = Zamak!Idle]
  BY <1>1, <1>2 DEF ZamakInv, ZamakTyped
<1>3. CASE syncJob' = [l \in SyncJob |-> Zamak!Idle]
  BY <1>1, <1>3
<1> QED BY <1>2, <1>3 DEF Zamak!BreaksOff

(* Replacing the history by that of the devices that a nightly sync knows, or   *)
(* by none.                                                                  *)
LEMMA ZamakHistory ==
  ASSUME ZamakInv, NEW k \in SyncJob, syncJob[k].kind = "daily",
         perf' \in {{}, syncJob[k].seen},
         syncJob' \in [SyncJob -> SyncRecord],
         \A l \in SyncJob : syncJob'[l] \in {syncJob[l], Zamak!Idle},
         UNCHANGED <<listed, machines, syncs, devices, threats, only, stamp, torn>>
  PROVE  ZamakInv'
<1> USE DEF ZamakInv
<1>1. syncJob[k].seen \subseteq Zamak!Known /\ syncJob[k].seen \subseteq Device
  BY DEF Collected, SyncRecord, ZamakTyped
<1>2. Zamak!Known' = Zamak!Known
  BY DEF Zamak!Known
<1>3. ZamakTyped'
  BY <1>1 DEF ZamakTyped
<1>4. Collected'
  BY <1>2 DEF Collected, Zamak!Idle
<1>5. \A l \in SyncJob : Writes(l)' => Writes(l) /\ syncJob'[l] = syncJob[l]
  BY DEF Writes, Zamak!Idle
<1>6. Numbered'
  BY <1>5 DEF Numbered
<1>7. TablesAgree'
  BY <1>1, <1>2 DEF TablesAgree, Zamak!TablesAgree
<1> QED BY <1>3, <1>4, <1>6, <1>7

LEMMA ZamakStep == ZamakInv /\ [Zamak!Next]_zamakVars => ZamakInv'
<1> SUFFICES ASSUME ZamakInv, [Zamak!Next]_zamakVars PROVE ZamakInv'
  OBVIOUS
<1> USE DEF ZamakInv, Zamak!tables, Zamak!world
<1>0. /\ \A k \in SyncJob : syncJob[k] \in SyncRecord
      /\ Zamak!Idle \in SyncRecord /\ Zamak!Idle.todo = {} /\ Zamak!Idle.bad = {}
  BY DEF ZamakTyped, Zamak!Idle, SyncRecord
<1>1. ASSUME NEW k \in SyncJob, Zamak!BeginFull(k) PROVE ZamakInv'
  <2>1. PICK n \in Nat : n = syncs + 1
    BY DEF ZamakTyped
  <2> DEFINE r == [Zamak!Idle EXCEPT !.kind = "full", !.at = n]
  <2>2. r \in SyncRecord /\ r.kind = "full" /\ r.at = n /\ r.todo = {} /\ r.bad = {}
    BY <1>0 DEF SyncRecord
  <2>3. syncJob' = [syncJob EXCEPT ![k] = r] /\ UNCHANGED <<listed, machines, devices, threats, perf, only, stamp, torn>>
    BY <1>1, <2>1 DEF Zamak!BeginFull
  <2>4. syncs' = n
    BY <1>1, <2>1 DEF Zamak!BeginFull
  <2> QED BY <2>1, <2>2, <2>3, <2>4, ZamakJobStep DEF ZamakTyped
<1>2. ASSUME NEW k \in SyncJob, Zamak!Discover(k) PROVE ZamakInv'
  <2> DEFINE r == [syncJob[k] EXCEPT !.kind = "listed", !.seen = listed, !.todo = listed,
                                     !.dm = machines]
  <2>1. r \in SyncRecord /\ r.kind = "listed" /\ r.at = syncJob[k].at /\ r.todo = r.seen
        /\ r.bad = syncJob[k].bad
    BY <1>0 DEF SyncRecord, ZamakTyped
  <2>2. syncJob' = [syncJob EXCEPT ![k] = r]
    BY <1>2 DEF Zamak!Discover, ZamakTyped
  <2> HIDE DEF r
  <2>3. ZamakTyped /\ Writes(k) /\ UNCHANGED <<listed, machines, syncs, devices, threats, perf, only, stamp, torn>>
    BY <1>2 DEF Zamak!Discover, Writes
  <2>4. syncJob[k].bad = {}
    BY <1>2 DEF Zamak!Discover, Collected
  <2> QED BY <2>1, <2>2, <2>3, <2>4, ZamakJobStep DEF ZamakTyped
<1>3. ASSUME NEW k \in SyncJob, Zamak!FullFails(k) PROVE ZamakInv'
  BY <1>3, ZamakJobStep DEF Zamak!FullFails, Zamak!Idle, ZamakTyped, SyncRecord
<1>4. ASSUME NEW k \in SyncJob, Zamak!WriteFull(k) PROVE ZamakInv'
  <2>1. /\ syncJob' \in [SyncJob -> SyncRecord] /\ syncJob'[k] = Zamak!Idle
        /\ \A l \in SyncJob : syncJob'[l] \in {syncJob[l], Zamak!Idle}
    BY <1>0, <1>4 DEF Zamak!WriteFull, ZamakTyped
  <2>2. Zamak!Write(k, 7) /\ syncJob[k].kind = "listed"
    BY <1>4 DEF Zamak!WriteFull
  <2>3. UNCHANGED <<listed, machines, syncs>>
    BY <1>4 DEF Zamak!WriteFull
  <2> QED BY <2>1, <2>2, <2>3, ZamakWrites
<1>13. ASSUME NEW k \in SyncJob, Zamak!FullBreaksOff(k) PROVE ZamakInv'
  <2>1. PICK n \in 1..6 : Zamak!Write(k, n)
    BY <1>13 DEF Zamak!FullBreaksOff
  <2>2. torn' /\ n \in 1..7
    BY <1>13 DEF Zamak!FullBreaksOff
  <2>3. Zamak!BreaksOff(k) /\ syncJob[k].kind = "listed"
    BY <1>13 DEF Zamak!FullBreaksOff
  <2>4. UNCHANGED <<listed, machines, syncs>>
    BY <1>13 DEF Zamak!FullBreaksOff
  <2> QED BY <2>1, <2>2, <2>3, <2>4, ZamakBreaks, ZamakWrites
<1>5. ASSUME NEW k \in SyncJob, Zamak!ReadDevice(k) PROVE ZamakInv'
  <2> DEFINE d == CHOOSE x \in syncJob[k].todo : TRUE
  <2>1. PICK bad1 \in IF syncJob[k].kind = "listed" THEN Zamak!Infections(k, d) ELSE {{}} :
          syncJob' = [syncJob EXCEPT ![k].todo = @ \ {d}, ![k].bad = bad1]
    BY <1>5 DEF Zamak!ReadDevice
  <2> DEFINE r == [syncJob[k] EXCEPT !.todo = @ \ {d}, !.bad = bad1]
  <2>2. syncJob' = [syncJob EXCEPT ![k] = r]
    BY <2>1 DEF ZamakTyped
  <2>3. d \in syncJob[k].todo /\ syncJob[k].todo \subseteq syncJob[k].seen
    BY <1>5 DEF Zamak!ReadDevice, Collected
  <2>4. /\ bad1 \subseteq syncJob[k].seen /\ bad1 \subseteq Device
        /\ bad1 # {} => syncJob[k].kind = "listed"
    BY <1>0, <2>1, <2>3 DEF Zamak!Infections, Collected, SyncRecord
  <2>5. /\ r \in SyncRecord /\ r.kind = syncJob[k].kind /\ r.at = syncJob[k].at
        /\ r.todo = syncJob[k].todo \ {d} /\ r.bad = bad1 /\ r.seen = syncJob[k].seen
    BY <1>0, <2>4 DEF SyncRecord
  <2> HIDE DEF d, r
  <2>6. UNCHANGED <<listed, machines, syncs, devices, threats, perf, only, stamp, torn>>
    BY <1>5 DEF Zamak!ReadDevice
  <2>7. /\ r.kind \in {"full", "listed"} => Writes(k)
        /\ r.todo # {} => r.kind \in {"listed", "daily"}
        /\ r.kind = "daily" => r.seen \subseteq Zamak!Known
    BY <2>5 DEF Writes, Collected
  <2> QED BY <2>2, <2>3, <2>4, <2>5, <2>6, <2>7, ZamakJobStep DEF ZamakTyped
<1>6. ASSUME NEW k \in SyncJob, Zamak!BeginDaily(k) PROVE ZamakInv'
  <2>1. PICK n \in Nat : n = syncs + 1
    BY DEF ZamakTyped
  <2> DEFINE r == [Zamak!Idle EXCEPT !.kind = "daily", !.at = n,
                                     !.seen = Zamak!Known, !.todo = Zamak!Known]
  <2>2. /\ r \in SyncRecord /\ r.kind = "daily" /\ r.todo = Zamak!Known
        /\ r.seen = Zamak!Known /\ r.bad = {}
    BY <1>0 DEF Zamak!Known, SyncRecord
  <2>3. syncJob' = [syncJob EXCEPT ![k] = r] /\ UNCHANGED <<listed, machines, devices, threats, perf, only, stamp, torn>>
    BY <1>6, <2>1 DEF Zamak!BeginDaily
  <2>4. syncs' = n
    BY <1>6, <2>1 DEF Zamak!BeginDaily
  <2> QED BY <2>1, <2>2, <2>3, <2>4, ZamakJobStep DEF ZamakTyped
<1>7. ASSUME NEW k \in SyncJob, Zamak!WriteDaily(k) PROVE ZamakInv'
  <2>1. /\ syncJob' \in [SyncJob -> SyncRecord]
        /\ \A l \in SyncJob : syncJob'[l] \in {syncJob[l], Zamak!Idle}
    BY <1>0, <1>7 DEF Zamak!WriteDaily, ZamakTyped
  <2> QED BY <1>7, <2>1, ZamakHistory DEF Zamak!WriteDaily, Zamak!ReplaceHistory
<1>14. ASSUME NEW k \in SyncJob, Zamak!DailyBreaksOff(k) PROVE ZamakInv'
  BY <1>14, ZamakBreaks, ZamakHistory DEF Zamak!DailyBreaksOff
<1>8. ASSUME UNCHANGED <<machines, devices, threats, perf, only, stamp, torn, syncJob>>,
             syncs' \in {syncs, syncs + 1}, listed' \subseteq Device
      PROVE  ZamakInv'
  <2>1. syncs \in Nat /\ \A d \in Device : devices[d].at \in Nat
    BY DEF ZamakTyped
  <2>2. ZamakTyped'
    BY <1>8 DEF ZamakTyped
  <2>3. Zamak!Known' = Zamak!Known
    BY <1>8 DEF Zamak!Known
  <2>4. Collected' /\ TablesAgree'
    BY <1>8, <2>3 DEF Collected, TablesAgree, Zamak!TablesAgree
  <2>5. \A l \in SyncJob : Writes(l)' <=> Writes(l)
    BY <1>8 DEF Writes
  <2>6. Numbered'
    BY <1>8, <2>1, <2>5 DEF Numbered
  <2> QED BY <2>2, <2>4, <2>6
<1>9. ASSUME NEW d \in Device, Zamak!Change(d) PROVE ZamakInv'
  BY <1>8, <1>9 DEF Zamak!Change, ZamakTyped
<1>10. CASE Zamak!DailyFails
  BY <1>8, <1>10 DEF Zamak!DailyFails, Zamak!Report, ZamakTyped
<1>11. CASE Zamak!Restart
  <2>1. /\ syncJob' = [k \in SyncJob |-> Zamak!Idle]
        /\ UNCHANGED <<listed, machines, devices, threats, perf, only, stamp, torn, syncs>>
    BY <1>11 DEF Zamak!Restart
  <2>2. ZamakTyped'
    BY <1>0, <2>1 DEF ZamakTyped
  <2>3. Collected'
    BY <2>1 DEF Collected, Zamak!Idle
  <2>4. Numbered'
    BY <2>1 DEF Numbered, Writes, Zamak!Idle
  <2>5. TablesAgree'
    BY <2>1 DEF TablesAgree, Zamak!TablesAgree, Zamak!Known
  <2> QED BY <2>2, <2>3, <2>4, <2>5
<1>12. CASE UNCHANGED zamakVars
  BY <1>8, <1>12 DEF zamakVars, ZamakTyped
<1> QED
  BY <1>1, <1>2, <1>3, <1>4, <1>5, <1>6, <1>7, <1>9, <1>10, <1>11, <1>12, <1>13, <1>14
  DEF Zamak!Next
(* The tables of the antivirus agree with each other, whatever syncs overlap,   *)
(* whatever calls of them fail and wherever a write is broken off.             *)
THEOREM TablesAlwaysAgree == Office => []TablesAgree
<1>1. Begins => Zamak!Init
  BY DEF Begins
<1> QED BY <1>1, ZamakStarts, ZamakMoves, ZamakStep, PTL DEF Office, ZamakInv
-----------------------------------------------------------------------------
(* Registration: every history belongs to a row, and a row is told from none    *)
(* by its token.                                                             *)

AgentInv ==
  /\ pcRow \in [Id -> [host : Host, token : 1..MaxAgentTokens] \cup {Agents!NoRow}]
  /\ pcHistory \cup serviceRows \cup pcInsights \cup tombs \subseteq Id /\ deletes \in Nat
  /\ id \in [PC -> Id] /\ token \in [PC -> 0..MaxAgentTokens] /\ name \in [PC -> Host]
  /\ attempts \in 0..RegLimit /\ issued \in 0..MaxAgentTokens
  /\ NoOrphans

LEMMA AgentMoves == [Moves]_all => [Agents!Next]_agentVars
<1>1. Moves => [Agents!Next]_agentVars
  BY DEF Moves, Only
<1>2. UNCHANGED all => UNCHANGED agentVars
  BY DEF all
<1> QED BY <1>1, <1>2

(* A row has a token, which tells it from none.                               *)
LEMMA RowIsNoNoRow ==
  ASSUME NEW r \in [host : Host, token : 1..MaxAgentTokens] PROVE r # Agents!NoRow
<1>1. r.token >= 1 /\ Agents!NoRow.token = 0
  BY DEF Agents!NoRow, Agents!None
<1> QED BY <1>1

LEMMA AgentStarts == Agents!Init => AgentInv
<1> SUFFICES ASSUME Agents!Init PROVE AgentInv
  OBVIOUS
<1>1. id \in [PC -> Id] /\ name \in [PC -> Host]
  BY OfficeAssumption DEF Agents!Init
<1> QED
  BY <1>1, OfficeAssumption DEF Agents!Init, AgentInv, NoOrphans, Agents!NoOrphans, Agents!None

LEMMA AgentStep == AgentInv /\ [Agents!Next]_agentVars => AgentInv'
<1> SUFFICES ASSUME AgentInv, [Agents!Next]_agentVars PROVE AgentInv'
  OBVIOUS
<1> USE DEF AgentInv, NoOrphans, Agents!NoOrphans, Agents!Exists, Agents!data, Agents!bounds,
            Agents!agents
<1> USE OfficeAssumption
<1>1. ASSUME NEW p \in PC, Agents!Register(p) PROVE AgentInv'
  <2>1. UNCHANGED <<tombs, id, name, deletes>> /\ attempts' \in 0..RegLimit
    BY <1>1 DEF Agents!Register
  <2>2. CASE Agents!Update(p)
    <3> DEFINE new == [pcRow[id[p]] EXCEPT !.host = name[p]]
    <3>1. pcRow[id[p]] \in [host : Host, token : 1..MaxAgentTokens]
      BY <2>2 DEF Agents!Update
    <3>2. new \in [host : Host, token : 1..MaxAgentTokens]
      BY <3>1
    <3>3. pcRow' = [pcRow EXCEPT ![id[p]] = new] /\ UNCHANGED <<pcHistory, serviceRows, pcInsights, issued>>
      BY <2>2 DEF Agents!Update
    <3>4. token' \in [PC -> 0..MaxAgentTokens]
      BY <2>2, <3>1 DEF Agents!Update, Agents!Gets, Agents!None
    <3> HIDE DEF new
    <3> QED BY <2>1, <3>2, <3>3, <3>4, RowIsNoNoRow
  <2>3. CASE Agents!ReKey(p)
    <3> DEFINE same == Agents!Named(name[p])
    <3>1. PICK c \in same :
            /\ pcRow' = [i \in Id |-> IF i = id[p] THEN pcRow[c]
                                     ELSE IF i \in same THEN Agents!NoRow ELSE pcRow[i]]
            /\ pcHistory' = (pcHistory \ same) \cup {i \in {id[p]} : c \in pcHistory}
            /\ Agents!ServicesMove(c, id[p], same \ {c})
            /\ Agents!Gets(p, pcRow[c].token)
      BY <2>3 DEF Agents!ReKey
    <3>2. UNCHANGED <<pcInsights, issued>>
      BY <2>3 DEF Agents!ReKey
    <3>3. pcRow[c] \in [host : Host, token : 1..MaxAgentTokens]
      BY <3>1 DEF Agents!Named
    <3>4. token' \in [PC -> 0..MaxAgentTokens]
      BY <3>1, <3>3 DEF Agents!Gets, Agents!None
    <3>5. \A i \in same : Agents!Exists(i) /\ i \in Id /\ i # id[p]
      BY <2>3 DEF Agents!ReKey, Agents!Named
    <3>6. /\ serviceRows' \subseteq Id
          /\ deletes = 0 => serviceRows' \cap (same \ {id[p]}) = {}
          /\ deletes = 0 => serviceRows' \subseteq serviceRows \cup {id[p]}
      <4> HIDE DEF same
      <4> QED BY <3>1, <3>5, <2>3 DEF Agents!ServicesMove, Agents!ReKey
    <3>7. \A i \in Id : i \notin same => pcRow'[i] = pcRow[i] \/ i = id[p]
      BY <3>1
    <3>8. Agents!Exists(id[p])'
      BY <2>1, <3>1, <3>3, RowIsNoNoRow
    <3> HIDE DEF same
    <3> QED BY <2>1, <3>1, <3>2, <3>3, <3>4, <3>5, <3>6, <3>7, <3>8, RowIsNoNoRow
  <2>4. CASE Agents!Insert(p)
    <3> DEFINE new == [host |-> name[p], token |-> issued + 1]
    <3>1. /\ issued' = issued + 1 /\ issued' \in 1..MaxAgentTokens
          /\ pcRow' = [pcRow EXCEPT ![id[p]] = new]
          /\ UNCHANGED <<pcHistory, serviceRows, pcInsights>>
      BY <2>4 DEF Agents!Insert
    <3>2. new \in [host : Host, token : 1..MaxAgentTokens]
      BY <3>1
    <3>3. token' \in [PC -> 0..MaxAgentTokens]
      BY <2>4, <3>1 DEF Agents!Insert, Agents!Gets, Agents!None
    <3> HIDE DEF new
    <3> QED BY <2>1, <3>1, <3>2, <3>3, RowIsNoNoRow
  <2> QED BY <1>1, <2>2, <2>3, <2>4 DEF Agents!Register
<1>2. ASSUME NEW p \in PC, Agents!LoseConfig(p) PROVE AgentInv'
  BY <1>2 DEF Agents!LoseConfig, Agents!None
<1>3. ASSUME NEW p \in PC, Agents!Rename(p) PROVE AgentInv'
  BY <1>3 DEF Agents!Rename
<1>4. ASSUME NEW p \in PC, Agents!Report(p) PROVE AgentInv'
  BY <1>4 DEF Agents!Report, Agents!Opens
<1>5. ASSUME NEW i \in Id, Agents!Delete(i) PROVE AgentInv'
  BY <1>5 DEF Agents!Delete
<1>6. ASSUME NEW i \in Id, Agents!TombExpires(i) PROVE AgentInv'
  BY <1>6 DEF Agents!TombExpires
<1>7. CASE Agents!WindowEnds
  BY <1>7 DEF Agents!WindowEnds
<1>8. CASE UNCHANGED agentVars
  BY <1>8 DEF agentVars
<1> QED BY <1>1, <1>2, <1>3, <1>4, <1>5, <1>6, <1>7, <1>8 DEF Agents!Next

(* Re-keying and removal leave no history without a machine, for any number of *)
(* computers, ids and names, and any order of what happens to them.            *)
THEOREM HistoryHasItsMachine == Office => []NoOrphans
<1>1. Begins => Agents!Init
  BY DEF Begins
<1> QED BY <1>1, AgentStarts, AgentMoves, AgentStep, PTL DEF Office, AgentInv
-----------------------------------------------------------------------------
(* Insights.  OnlySeenIsPassed alone is not inductive: a run writes a cursor   *)
(* that it computed from a copy of the old one.  PassedAtStart says that the   *)
(* copy was right when it was made and stays right, ReadIsAll that everything *)
(* between the copy and the newest event read was read.                       *)

InsightTyped ==
  /\ owner \in Seq(Machine)
  /\ cursor \in [Machine -> 0..Len(owner)]
  /\ run \in [Run -> [left : SUBSET Machine, cursors : [Machine -> 0..Len(owner)],
                      read : SUBSET Insight!Events]]
  /\ \A r \in Run : run[r].read # {} => run[r].left # {}

Passed(m, n) == \A e \in Insight!Events \ purged : owner[e] = m /\ e <= n => e \in seen

CursorIsRight == \A m \in Machine : Passed(m, cursor[m])

PassedAtStart == \A r \in Run, m \in Machine : Passed(m, run[r].cursors[m])

ReadIsAll ==
  \A r \in Run : run[r].read # {} =>
    \A d \in run[r].read, e \in Insight!Events \ purged :
      owner[e] = Insight!Current(r) /\ e <= d => e \in seen \cup run[r].read

InsightInv == InsightTyped /\ CursorIsRight /\ PassedAtStart /\ ReadIsAll

USE DEF Insight!Events, Insight!Idle

LEMMA InsightMoves == [Moves]_all => [Insight!Next]_insightVars
<1>1. Moves => [Insight!Next]_insightVars
  BY DEF Moves, Only
<1>2. UNCHANGED all => UNCHANGED insightVars
  BY DEF all
<1> QED BY <1>1, <1>2

LEMMA InsightStarts == Insight!Init => InsightInv
<1> SUFFICES ASSUME Insight!Init PROVE InsightInv
  OBVIOUS
<1>1. InsightTyped
  BY DEF Insight!Init, InsightTyped
<1>2. CursorIsRight /\ PassedAtStart /\ ReadIsAll
  BY DEF Insight!Init, CursorIsRight, PassedAtStart, ReadIsAll, Passed
<1> QED BY <1>1, <1>2 DEF InsightInv

(* The machine a run is at is one of those it has left.                       *)
LEMMA CurrentIsLeft ==
  ASSUME InsightTyped, NEW r \in Run, run[r].left # {}
  PROVE  Insight!Current(r) \in run[r].left /\ Insight!Current(r) \in Machine
  BY DEF Insight!Current, InsightTyped

(* A run that goes on to its next machine has nothing read.                   *)
LEMMA OnwardIsTyped ==
  ASSUME InsightTyped, NEW r \in Run
  PROVE  /\ Insight!Onward(r) \in [left : SUBSET Machine, cursors : [Machine -> 0..Len(owner)],
                           read : SUBSET Insight!Events]
         /\ Insight!Onward(r).read = {} /\ Insight!Onward(r).cursors = run[r].cursors
<1>1. run[r] \in [left : SUBSET Machine, cursors : [Machine -> 0..Len(owner)],
                  read : SUBSET Insight!Events]
  BY DEF InsightTyped
<1> QED BY <1>1 DEF Insight!Onward

(* A cursor goes to the newest event that the run has read.                   *)
LEMMA CursorMoves ==
  ASSUME InsightInv, NEW r \in Run, Insight!MoveCursor(r), UNCHANGED <<owner, purged>>
  PROVE  /\ cursor' \in [Machine -> 0..Len(owner)]
         /\ CursorIsRight' /\ seen \subseteq seen'
<1> USE DEF InsightInv
<1>1. Insight!Current(r) \in Machine
  BY CurrentIsLeft DEF Insight!MoveCursor, InsightTyped
<1>2. PICK e \in Insight!Events : Insight!Newest(r, e) /\ cursor' = [cursor EXCEPT ![Insight!Current(r)] = e]
  BY DEF Insight!MoveCursor
<1>3. seen' = seen \cup run[r].read
  BY DEF Insight!MoveCursor
<1>4. cursor' \in [Machine -> 0..Len(owner)]
  BY <1>1, <1>2 DEF InsightTyped
<1>5. ASSUME NEW m \in Machine, NEW x \in Insight!Events \ purged, owner[x] = m, x <= cursor'[m]
      PROVE  x \in seen'
  <2>1. CASE m = Insight!Current(r)
    <3>1. x <= e /\ e \in run[r].read
      BY <1>1, <1>2, <1>5, <2>1 DEF Insight!Newest, InsightTyped
    <3> QED BY <3>1, <1>3, <1>5, <2>1 DEF ReadIsAll, Insight!MoveCursor
  <2>2. CASE m # Insight!Current(r)
    BY <1>1, <1>2, <1>3, <1>5, <2>2 DEF CursorIsRight, Passed, InsightTyped
  <2> QED BY <2>1, <2>2
<1> QED BY <1>3, <1>4, <1>5 DEF CursorIsRight, Passed

(* What one run does with its own record disturbs no other.                   *)
LEMMA RunSteps ==
  ASSUME InsightInv, NEW r \in Run, UNCHANGED <<owner, purged>>, seen \subseteq seen',
         run' = [run EXCEPT ![r] = Insight!Onward(r)]
  PROVE  /\ run' \in [Run -> [left : SUBSET Machine, cursors : [Machine -> 0..Len(owner)],
                              read : SUBSET Insight!Events]]
         /\ \A q \in Run : run'[q].read # {} => run'[q].left # {}
         /\ PassedAtStart' /\ ReadIsAll'
<1> USE DEF InsightInv
<1>1. run' \in [Run -> [left : SUBSET Machine, cursors : [Machine -> 0..Len(owner)],
                        read : SUBSET Insight!Events]]
  BY OnwardIsTyped DEF InsightTyped
<1>2. \A q \in Run : run'[q].cursors = run[q].cursors
  BY OnwardIsTyped DEF InsightTyped
<1>3. \A q \in Run : q # r => run'[q] = run[q]
  BY DEF InsightTyped
<1>4. run'[r].read = {}
  BY OnwardIsTyped DEF InsightTyped
<1>5. PassedAtStart'
  BY <1>2 DEF PassedAtStart, Passed
<1>6. \A q \in Run : q # r => Insight!Current(q)' = Insight!Current(q)
  BY <1>3 DEF Insight!Current
<1>7. ReadIsAll'
  BY <1>3, <1>4, <1>6 DEF ReadIsAll
<1> QED BY <1>1, <1>3, <1>4, <1>5, <1>7 DEF InsightTyped

LEMMA InsightStep == InsightInv /\ [Insight!Next]_insightVars => InsightInv'
<1> SUFFICES ASSUME InsightInv, [Insight!Next]_insightVars PROVE InsightInv'
  OBVIOUS
<1> USE DEF InsightInv
<1>1. ASSUME NEW m \in Machine, Insight!Report(m) PROVE InsightInv'
  <2>1. /\ owner' = Append(owner, m) /\ owner' \in Seq(Machine)
        /\ Len(owner') = Len(owner) + 1 /\ Len(owner) \in Nat
        /\ \A e \in 1..Len(owner) : owner'[e] = owner[e]
    BY <1>1 DEF Insight!Report, InsightTyped
  <2>2. UNCHANGED <<purged, cursor, run, seen>>
    BY <1>1 DEF Insight!Report
  <2> DEFINE Runs(n) == [left : SUBSET Machine, cursors : [Machine -> 0..n],
                         read : SUBSET (1..n)]
  <2>3. 0..Len(owner) \subseteq 0..Len(owner') /\ 1..Len(owner) \subseteq 1..Len(owner')
    BY <2>1
  <2>4. cursor' \in [Machine -> 0..Len(owner')]
    BY <2>2, <2>3 DEF InsightTyped
  <2>5. ASSUME NEW r \in Run PROVE run[r] \in Runs(Len(owner'))
    <3>1. run[r] \in Runs(Len(owner))
      BY DEF InsightTyped
    <3> QED BY <2>3, <3>1
  <2>6. InsightTyped'
    <3>1. run' \in [Run -> Runs(Len(owner'))]
      BY <2>2, <2>5 DEF InsightTyped
    <3> QED BY <2>1, <2>2, <2>4, <3>1 DEF InsightTyped
  <2>7. CursorIsRight'
    BY <2>1, <2>2 DEF CursorIsRight, Passed, InsightTyped
  <2>8. PassedAtStart'
    BY <2>1, <2>2 DEF PassedAtStart, Passed, InsightTyped
  <2>9. \A r \in Run : Insight!Current(r)' = Insight!Current(r)
    BY <2>2 DEF Insight!Current
  <2>10. ReadIsAll'
    <3>1. ASSUME NEW r \in Run, NEW d \in run[r].read, NEW e \in 1..Len(owner'),
                 e <= d
          PROVE  e \in 1..Len(owner)
      <4>1. d \in 1..Len(owner)
        BY DEF InsightTyped
      <4> QED BY <2>1, <3>1, <4>1
    <3> QED BY <2>1, <2>2, <2>9, <3>1 DEF ReadIsAll
  <2> QED BY <2>6, <2>7, <2>8, <2>10
<1>2. ASSUME NEW x \in 1..MaxEvents, Insight!Purge(x) PROVE InsightInv'
  <2>1. UNCHANGED <<owner, cursor, run, seen>> /\ purged \subseteq purged'
    BY <1>2 DEF Insight!Purge
  <2>2. \A r \in Run : Insight!Current(r)' = Insight!Current(r)
    BY <2>1 DEF Insight!Current
  <2> QED
    BY <2>1, <2>2 DEF InsightTyped, CursorIsRight, PassedAtStart, ReadIsAll, Passed
<1>3. ASSUME NEW r \in Run, Insight!RunNow(r) PROVE InsightInv'
  <2>1. /\ UNCHANGED <<owner, purged, cursor, seen>>
        /\ run' = [run EXCEPT ![r] = [left |-> Machine, cursors |-> cursor, read |-> {}]]
    BY <1>3 DEF Insight!RunNow
  <2>2. InsightTyped' /\ CursorIsRight'
    BY <2>1 DEF InsightTyped, CursorIsRight, Passed
  <2>3. PassedAtStart'
    BY <2>1 DEF InsightTyped, CursorIsRight, PassedAtStart, Passed
  <2>4. \A q \in Run : q # r => run'[q] = run[q]
    BY <2>1 DEF InsightTyped
  <2>5. \A q \in Run : q # r => Insight!Current(q)' = Insight!Current(q)
    BY <2>4 DEF Insight!Current
  <2>6. ReadIsAll'
    BY <2>1, <2>4, <2>5 DEF InsightTyped, ReadIsAll
  <2> QED BY <2>2, <2>3, <2>6
<1>4. ASSUME NEW r \in Run, Insight!Ask(r) PROVE InsightInv'
  <2>1. UNCHANGED <<owner, purged, cursor, seen>> /\ Insight!Goes(r)
    BY <1>4 DEF Insight!Ask
  <2> DEFINE events == Insight!New(Insight!Current(r), run[r].cursors[Insight!Current(r)])
  <2>2. CASE events = {}
    <3>1. run' = [run EXCEPT ![r] = Insight!Onward(r)]
      BY <1>4, <2>2 DEF Insight!Ask
    <3> QED BY <2>1, <3>1, RunSteps DEF InsightTyped, CursorIsRight, Passed
  <2>3. CASE events # {}
    <3>1. run' = [run EXCEPT ![r].read = events]
      BY <1>4, <2>3 DEF Insight!Ask, InsightTyped
    <3>2. events \subseteq Insight!Events
      BY DEF Insight!New
    <3>3. InsightTyped' /\ CursorIsRight'
      BY <2>1, <3>1, <3>2 DEF InsightTyped, CursorIsRight, Passed, Insight!Goes
    <3>4. \A q \in Run : /\ run'[q].left = run[q].left
                         /\ run'[q].cursors = run[q].cursors
                         /\ q # r => run'[q].read = run[q].read
      BY <3>1 DEF InsightTyped
    <3>5. PassedAtStart'
      BY <2>1, <3>4 DEF PassedAtStart, Passed
    <3>6. \A q \in Run : Insight!Current(q)' = Insight!Current(q)
      BY <3>4 DEF Insight!Current
    <3>7. run'[r].read = events
      BY <3>1 DEF InsightTyped
    <3>8. Insight!Current(r) \in Machine
      BY <2>1, CurrentIsLeft DEF Insight!Goes
    <3>9. ASSUME NEW d \in events, NEW e \in Insight!Events \ purged, owner[e] = Insight!Current(r), e <= d
          PROVE  e \in seen \cup events
      BY <3>8, <3>9 DEF Insight!New, PassedAtStart, Passed, InsightTyped
    <3>10. ReadIsAll'
      BY <2>1, <3>4, <3>6, <3>7, <3>9 DEF ReadIsAll
    <3> QED BY <3>3, <3>5, <3>10
  <2> QED BY <2>2, <2>3
<1>5. ASSUME NEW r \in Run, Insight!NoAnswer(r) PROVE InsightInv'
  <2>1. UNCHANGED <<owner, purged, cursor, seen>> /\ run' = [run EXCEPT ![r] = Insight!Onward(r)]
    BY <1>5 DEF Insight!NoAnswer
  <2> QED BY <2>1, RunSteps DEF InsightTyped, CursorIsRight, Passed
<1>6. ASSUME NEW r \in Run, Insight!Answer(r) PROVE InsightInv'
  <2>1. UNCHANGED <<owner, purged>> /\ run' = [run EXCEPT ![r] = Insight!Onward(r)] /\ Insight!MoveCursor(r)
    BY <1>6 DEF Insight!Answer
  <2> QED BY <2>1, CursorMoves, RunSteps DEF InsightTyped
<1>7. ASSUME Insight!Stopped, UNCHANGED <<owner, purged>>, CursorIsRight',
             cursor' \in [Machine -> 0..Len(owner)]
      PROVE  InsightInv'
  <2>1. InsightTyped'
    BY <1>7 DEF Insight!Stopped, InsightTyped
  <2>2. PassedAtStart' /\ ReadIsAll'
    BY <1>7 DEF Insight!Stopped, PassedAtStart, ReadIsAll, Passed
  <2> QED BY <1>7, <2>1, <2>2
<1>8. ASSUME NEW r \in Run, Insight!DiesInAnswer(r) PROVE InsightInv'
  BY <1>7, <1>8, CursorMoves DEF Insight!DiesInAnswer
<1>9. CASE Insight!Restart
  BY <1>7, <1>9 DEF Insight!Restart, CursorIsRight, Passed, InsightTyped
<1>10. CASE UNCHANGED insightVars
  <2>1. \A r \in Run : Insight!Current(r)' = Insight!Current(r)
    BY <1>10 DEF insightVars, Insight!Current
  <2> QED BY <1>10, <2>1 DEF insightVars, InsightTyped, CursorIsRight, PassedAtStart, ReadIsAll, Passed
<1> QED BY <1>1, <1>2, <1>3, <1>4, <1>5, <1>6, <1>8, <1>9, <1>10 DEF Insight!Next

(* What lies before the cursor of a machine was read by a run that had an      *)
(* answer, or was deleted, however runs overlap, fail and stop (runNow and     *)
(* analyzeMachine).                                                          *)
THEOREM NothingIsPassedOver == Office => []OnlySeenIsPassed
<1>1. Begins => Insight!Init
  BY DEF Begins
<1>2. InsightInv => OnlySeenIsPassed
  BY DEF InsightInv, OnlySeenIsPassed, Insight!OnlySeenIsPassed, CursorIsRight, Passed,
         InsightTyped
<1> QED BY <1>1, <1>2, InsightStarts, InsightMoves, InsightStep, PTL DEF Office

HIDE DEF Insight!Events, Insight!Idle
-----------------------------------------------------------------------------
(* RiskScore: each penalty grows with the class of its trouble, and so does   *)
(* the total.                                                                *)

RiskInv ==
  /\ DOMAIN state = Risk!Trouble /\ \A t \in Risk!Trouble : state[t] \in Risk!Classes[t]
  /\ readings \in BOOLEAN /\ ai \in Int

LEMMA RiskMoves == [Moves]_all => [Risk!Next]_riskVars
<1>1. Moves => [Risk!Next]_riskVars
  BY DEF Moves, Only
<1>2. UNCHANGED all => UNCHANGED riskVars
  BY DEF all
<1> QED BY <1>1, <1>2

LEMMA RiskStarts == Risk!Init => RiskInv
  BY OfficeAssumption DEF Risk!Init, RiskInv, Risk!Trouble, Risk!Classes

(* A table of penalties, by the class of the trouble.                         *)
LEMMA TwoClasses ==
  ASSUME NEW x \in Nat, NEW y \in Nat, x <= y, NEW c \in 0..2, NEW e \in 0..2, c <= e
  PROVE  /\ Risk!At(<<x, y>>, c) \in Nat /\ Risk!At(<<x, y>>, e) \in Nat
         /\ Risk!At(<<x, y>>, c) <= Risk!At(<<x, y>>, e)
  BY DEF Risk!At

LEMMA ThreeClasses ==
  ASSUME NEW x \in Nat, NEW y \in Nat, NEW z \in Nat, x <= y, y <= z,
         NEW c \in 0..3, NEW e \in 0..3, c <= e
  PROVE  /\ Risk!At(<<x, y, z>>, c) \in Nat /\ Risk!At(<<x, y, z>>, e) \in Nat
         /\ Risk!At(<<x, y, z>>, c) <= Risk!At(<<x, y, z>>, e)
  BY DEF Risk!At

(* The state grows at one class at most.                                      *)
LEMMA ClassesGrow ==
  ASSUME RiskInv, NEW t \in Risk!Trouble, Risk!Worsen(t)
  PROVE  /\ RiskInv' /\ UNCHANGED <<readings, ai>>
         /\ \A u \in Risk!Trouble : state[u] <= state'[u]
<1>1. /\ state[t] + 1 \in Risk!Classes[t] /\ state' = [state EXCEPT ![t] = state[t] + 1]
      /\ UNCHANGED <<readings, ai>>
  BY DEF Risk!Worsen
<1>2. \A u \in Risk!Trouble : state'[u] = IF u = t THEN state[t] + 1 ELSE state[u]
  BY <1>1 DEF RiskInv
<1>3. \A u \in Risk!Trouble : state[u] \in Nat
  BY DEF RiskInv, Risk!Trouble, Risk!Classes
<1>4. \A u \in Risk!Trouble : state'[u] \in Risk!Classes[u] /\ state[u] <= state'[u]
  BY <1>1, <1>2, <1>3 DEF RiskInv
<1>5. DOMAIN state' = Risk!Trouble
  BY <1>1 DEF RiskInv
<1> QED BY <1>1, <1>4, <1>5 DEF RiskInv

(* Each measured trouble adds at least as much as before.                     *)
LEMMA PenaltiesGrow ==
  ASSUME RiskInv, RiskInv', UNCHANGED <<readings, ai>>,
         \A u \in Risk!Trouble : state[u] <= state'[u], NEW d
  PROVE  /\ Risk!Score(d) \in 0..100 /\ Risk!Score(d)' \in 0..100
         /\ Risk!Score(d) <= Risk!Score(d)'
<1> USE DEF RiskInv
<1>1. /\ \A u \in {"win10", "cpu", "ram", "disk"} :
           state[u] \in 0..2 /\ state'[u] \in 0..2 /\ state[u] <= state'[u]
      /\ \A u \in {"temp", "offline", "silent"} :
           state[u] \in 0..3 /\ state'[u] \in 0..3 /\ state[u] <= state'[u]
  BY DEF Risk!Trouble, Risk!Classes
<1>2. /\ Risk!Win10Penalty(d) \in Nat /\ Risk!Win10Penalty(d)' \in Nat
      /\ Risk!Win10Penalty(d) <= Risk!Win10Penalty(d)'
  BY <1>1, TwoClasses DEF Risk!Win10Penalty
<1>3. ASSUME NEW u \in {"cpu", "ram"}
      PROVE  /\ Risk!LoadPenalty(d, u) \in Nat /\ Risk!LoadPenalty(d, u)' \in Nat
             /\ Risk!LoadPenalty(d, u) <= Risk!LoadPenalty(d, u)'
  BY <1>1, TwoClasses DEF Risk!LoadPenalty
<1>4. /\ Risk!DiskPenalty(d) \in Nat /\ Risk!DiskPenalty(d)' \in Nat
      /\ Risk!DiskPenalty(d) <= Risk!DiskPenalty(d)'
  BY <1>1, TwoClasses DEF Risk!DiskPenalty
<1>5. /\ Risk!TempPenalty(d) \in Nat /\ Risk!TempPenalty(d)' \in Nat
      /\ Risk!TempPenalty(d) <= Risk!TempPenalty(d)'
  BY <1>1, ThreeClasses DEF Risk!TempPenalty
<1>6. /\ Risk!HardwarePenalty(d) \in Nat /\ Risk!HardwarePenalty(d)' \in Nat
      /\ Risk!HardwarePenalty(d) <= Risk!HardwarePenalty(d)'
  BY <1>3, <1>4, <1>5 DEF Risk!HardwarePenalty
<1>7. /\ Risk!OfflinePenalty(d) \in Nat /\ Risk!OfflinePenalty(d)' \in Nat
      /\ Risk!OfflinePenalty(d) <= Risk!OfflinePenalty(d)'
  BY <1>1, ThreeClasses DEF Risk!OfflinePenalty
<1>8. /\ Risk!NoMetricsPenalty(d) \in Nat /\ Risk!NoMetricsPenalty(d)' \in Nat
      /\ Risk!NoMetricsPenalty(d) <= Risk!NoMetricsPenalty(d)'
  BY <1>1, ThreeClasses DEF Risk!NoMetricsPenalty
<1>9. Risk!Clamp(ai) \in 0..100 /\ ai' = ai
  BY DEF Risk!Clamp, Risk!Missing
<1>10. /\ Risk!Score(d) = Risk!Capped(Risk!Clamp(ai) + Risk!Win10Penalty(d)
              + Risk!HardwarePenalty(d) + Risk!OfflinePenalty(d) + Risk!NoMetricsPenalty(d))
       /\ Risk!Score(d)' = Risk!Capped(Risk!Clamp(ai) + Risk!Win10Penalty(d)'
              + Risk!HardwarePenalty(d)' + Risk!OfflinePenalty(d)' + Risk!NoMetricsPenalty(d)')
  BY <1>9 DEF Risk!Score
<1> DEFINE sum == Risk!Clamp(ai) + Risk!Win10Penalty(d) + Risk!HardwarePenalty(d)
                    + Risk!OfflinePenalty(d) + Risk!NoMetricsPenalty(d)
           more == Risk!Clamp(ai) + Risk!Win10Penalty(d)' + Risk!HardwarePenalty(d)'
                    + Risk!OfflinePenalty(d)' + Risk!NoMetricsPenalty(d)'
<1>11. sum \in Nat /\ more \in Nat /\ sum <= more
  BY <1>2, <1>6, <1>7, <1>8, <1>9
<1>12. Risk!Score(d) = Risk!Capped(sum) /\ Risk!Score(d)' = Risk!Capped(more)
  BY <1>10
<1> HIDE DEF sum, more
<1> QED BY <1>11, <1>12 DEF Risk!Capped

LEMMA RiskStep ==
  ASSUME RiskInv, [Risk!Next]_riskVars
  PROVE  /\ RiskInv'
         /\ [state' # state =>
               0 <= Risk!Total /\ Risk!Total <= Risk!Total' /\ Risk!Total' <= 100]_Risk!vars
<1>1. CASE UNCHANGED riskVars
  BY <1>1 DEF RiskInv, riskVars
<1>2. ASSUME NEW t \in Risk!Trouble, Risk!Worsen(t)
      PROVE  RiskInv' /\ 0 <= Risk!Total /\ Risk!Total <= Risk!Total' /\ Risk!Total' <= 100
  <2>1. /\ RiskInv' /\ UNCHANGED <<readings, ai>>
        /\ \A u \in Risk!Trouble : state[u] <= state'[u]
    BY <1>2, ClassesGrow
  <2>2. \A d : /\ Risk!Score(d) \in 0..100 /\ Risk!Score(d)' \in 0..100
               /\ Risk!Score(d) <= Risk!Score(d)'
    BY <2>1, PenaltiesGrow
  <2> DEFINE sum == 20 * Risk!Score("hardware") + 15 * Risk!Score("software")
                + 15 * Risk!Score("connectivity") + 20 * Risk!Score("security")
                + 20 * Risk!Score("incidents") + 10 * Risk!Score("operational") + 50
             more == 20 * Risk!Score("hardware")' + 15 * Risk!Score("software")'
                + 15 * Risk!Score("connectivity")' + 20 * Risk!Score("security")'
                + 20 * Risk!Score("incidents")' + 10 * Risk!Score("operational")' + 50
  <2>3. sum \in Nat /\ more \in Nat /\ sum <= more /\ more <= 10050
    <3>1. \A d : \E m \in 0..100, n \in 0..100 :
               m <= n /\ m = Risk!Score(d) /\ n = Risk!Score(d)'
      BY <2>2
    <3>2. PICK a \in 0..100, a1 \in 0..100 :
            a <= a1 /\ a = Risk!Score("hardware") /\ a1 = Risk!Score("hardware")'
      BY <3>1, Zenon
    <3>3. PICK b \in 0..100, b1 \in 0..100 :
            b <= b1 /\ b = Risk!Score("software") /\ b1 = Risk!Score("software")'
      BY <3>1, Zenon
    <3>4. PICK c \in 0..100, c1 \in 0..100 :
            c <= c1 /\ c = Risk!Score("connectivity") /\ c1 = Risk!Score("connectivity")'
      BY <3>1, Zenon
    <3>5. PICK d \in 0..100, d1 \in 0..100 :
            d <= d1 /\ d = Risk!Score("security") /\ d1 = Risk!Score("security")'
      BY <3>1, Zenon
    <3>6. PICK e \in 0..100, e1 \in 0..100 :
            e <= e1 /\ e = Risk!Score("incidents") /\ e1 = Risk!Score("incidents")'
      BY <3>1, Zenon
    <3>7. PICK f \in 0..100, f1 \in 0..100 :
            f <= f1 /\ f = Risk!Score("operational") /\ f1 = Risk!Score("operational")'
      BY <3>1, Zenon
    <3>8. sum = 20 * a + 15 * b + 15 * c + 20 * d + 20 * e + 10 * f + 50
      BY <3>2, <3>3, <3>4, <3>5, <3>6, <3>7, Zenon
    <3>9. more = 20 * a1 + 15 * b1 + 15 * c1 + 20 * d1 + 20 * e1 + 10 * f1 + 50
      BY <3>2, <3>3, <3>4, <3>5, <3>6, <3>7, Zenon
    <3> HIDE DEF sum, more
    <3>10. a <= a1 /\ b <= b1 /\ c <= c1 /\ d <= d1 /\ e <= e1 /\ f <= f1
      BY <3>2, <3>3, <3>4, <3>5, <3>6, <3>7
    <3> QED BY <3>8, <3>9, <3>10
  <2>4. Risk!Total = sum \div 100 /\ Risk!Total' = more \div 100
    BY DEF Risk!Total
  <2> HIDE DEF sum, more
  <2>5. 0 <= sum \div 100 /\ sum \div 100 <= more \div 100 /\ more \div 100 <= 100
    BY <2>3
  <2> QED BY <2>1, <2>4, <2>5
<1> QED BY <1>1, <1>2 DEF Risk!Next

(* More trouble never lowers the score, whatever Claude answers.               *)
THEOREM ScoreFollowsTrouble == Office => TroubleNeverLowersTheScore
<1>1. Begins => Risk!Init
  BY DEF Begins
<1>2. RiskInv /\ [Risk!Next]_riskVars
        => [state' # state =>
             0 <= Risk!Total /\ Risk!Total <= Risk!Total' /\ Risk!Total' <= 100]_Risk!vars
  BY RiskStep
<1>3. RiskInv /\ [Risk!Next]_riskVars => RiskInv'
  BY RiskStep
<1> QED
  BY <1>1, <1>2, <1>3, RiskStarts, RiskMoves, PTL
  DEF Office, TroubleNeverLowersTheScore, Risk!TroubleNeverLowersTheScore
-----------------------------------------------------------------------------
(* What holds of 0 and passes to the next number holds of all.                 *)
LEMMA NumbersFollow ==
  ASSUME NEW S, 0 \in S, \A n \in Nat : n \in S => n + 1 \in S
  PROVE  Nat \subseteq S
<1> SUFFICES ASSUME Nat \ S # {} PROVE FALSE
  OBVIOUS
<1>1. PICK x \in Nat \ S : \A y \in Nat \ S : ~(<<y, x>> \in OpToRel(<, Nat))
  BY WFMin, NatLessThanWellFounded
<1>2. x # 0 /\ x - 1 \in Nat /\ x - 1 < x /\ (x - 1) + 1 = x
  OBVIOUS
<1>3. <<x - 1, x>> \in OpToRel(<, Nat)
  BY <1>2 DEF OpToRel
<1>4. x - 1 \in S
  BY <1>1, <1>2, <1>3
<1> QED BY <1>1, <1>2, <1>4

(* Reports: a file holds the newest run of the stores that share its name, or  *)
(* a text that was not saved; of the runs the newest is the last to stop being *)
(* recent; and an answer is the number of a run of its store.                  *)

Topics  == SUBSET Topic
Named   == Store \cup {"none"}

SavedRun   == [store : Store]
Generating == [at : Report!Places, store : Named, open : Topics, answer : Nat]

RequestsTyped ==
  /\ request \in [Question -> Generating]
  /\ \A r \in Question : request[r].at # "idle" => request[r].store \in Store

RunsTyped ==
  /\ runs \in Seq(SavedRun) /\ docx \in [Report!Files -> Int]
  /\ recent \subseteq 1..Len(runs)
  /\ \A n \in recent, m \in 1..Len(runs) : m >= n => m \in recent

Shows(n, text, table) ==
  /\ text \in n..Len(table)
  /\ FileOf[table[text].store] = FileOf[table[n].store]

NewestIsOnFile ==
  \A n \in 1..Len(runs) :
    docx[FileOf[runs[n].store]] = -1 \/ Shows(n, docx[FileOf[runs[n].store]], runs)

AnswersAreRuns ==
  \A r \in Question : request[r].answer # 0 =>
    /\ request[r].answer \in 1..Len(runs)
    /\ runs[request[r].answer].store = request[r].store

ReportInv == RequestsTyped /\ RunsTyped /\ NewestIsOnFile /\ AnswersAreRuns

(* What the file of an answer shows as long as the answer is kept, and at the   *)
(* moment it is given.                                                        *)
FilesFollow ==
  \A r \in Question :
    LET text == docx[FileOf[request[r].store]]
    IN  request[r].answer # 0 /\ text # -1
          => text >= request[r].answer
             /\ FileOf[runs[text].store] = FileOf[request[r].store]

Leads ==
  \A r \in Question :
    LET text == docx'[FileOf[request'[r].store]]
    IN  request'[r].answer \notin {0, request[r].answer} /\ text # -1
          => text = request'[r].answer \/ runs'[text].store # request'[r].store

LEMMA ReportMoves == [Moves]_all => [Report!Next]_reportVars
<1>1. Moves => [Report!Next]_reportVars
  BY DEF Moves, Only
<1>2. UNCHANGED all => UNCHANGED reportVars
  BY DEF all
<1> QED BY <1>1, <1>2

LEMMA RequestParts ==
  /\ 0 \in Nat /\ Store \subseteq Named /\ "none" \in Named
  /\ {} \in Topics /\ \A s : Report!Open(s) \in Topics
  /\ "idle" \in Report!Places /\ "sync" \in Report!Places
  /\ "claude" \in Report!Places /\ "build" \in Report!Places
<1>1. Store \subseteq Named /\ "none" \in Named
  BY DEF Named
<1>2. {} \in Topics /\ \A s : Report!Open(s) \in Topics
  BY DEF Topics, Report!Open
<1> QED BY <1>1, <1>2 DEF Report!Places

LEMMA IdleTyped == Report!Idle \in Generating /\ Report!Idle.at = "idle" /\ Report!Idle.answer = 0
  BY RequestParts DEF Report!Idle, Generating

LEMMA ReportStarts == Report!Init => ReportInv
<1> SUFFICES ASSUME Report!Init PROVE ReportInv
  OBVIOUS
<1>1. RequestsTyped
  BY IdleTyped DEF Report!Init, RequestsTyped
<1>2. runs = <<>> /\ recent = {} /\ docx = [f \in Report!Files |-> 0]
  BY DEF Report!Init
<1>3. RunsTyped /\ NewestIsOnFile
  BY <1>2 DEF RunsTyped, NewestIsOnFile
<1>4. AnswersAreRuns
  BY IdleTyped DEF Report!Init, AnswersAreRuns
<1> QED BY <1>1, <1>3, <1>4 DEF ReportInv

LEMMA AnswersFollow == ReportInv => FilesFollow
<1> SUFFICES ASSUME ReportInv, NEW r \in Question, request[r].answer # 0,
                    docx[FileOf[request[r].store]] # -1
             PROVE  LET text == docx[FileOf[request[r].store]]
                    IN  text >= request[r].answer
                        /\ FileOf[runs[text].store] = FileOf[request[r].store]
  BY DEF FilesFollow
<1> DEFINE n == request[r].answer
<1>1. n \in 1..Len(runs) /\ runs[n].store = request[r].store
  BY DEF ReportInv, AnswersAreRuns
<1>2. Shows(n, docx[FileOf[runs[n].store]], runs)
  BY <1>1 DEF ReportInv, NewestIsOnFile
<1>3. n \in Nat /\ Len(runs) \in Nat
  BY <1>1, LenProperties DEF ReportInv, RunsTyped
<1> HIDE DEF n
<1> QED BY <1>1, <1>2, <1>3 DEF Shows, n

(* Some numbers up to a bound have a greatest.                                 *)
LEMMA Greatest ==
  ASSUME NEW k \in Nat, NEW ids \in SUBSET (1..k), ids # {}
  PROVE  \E n \in ids : \A m \in ids : m <= n
<1> DEFINE S == {j \in Nat : \A x \in SUBSET (1..j) :
                   x # {} => \E n \in x : \A m \in x : m <= n}
<1>1. 0 \in S
  <2>1. 1..0 = {}
    OBVIOUS
  <2> QED BY <2>1
<1>2. ASSUME NEW j \in Nat, j \in S PROVE j + 1 \in S
  <2> SUFFICES ASSUME NEW x \in SUBSET (1..(j + 1)), x # {}
               PROVE  \E n \in x : \A m \in x : m <= n
    OBVIOUS
  <2>1. CASE j + 1 \in x
    BY <2>1
  <2>2. CASE j + 1 \notin x
    <3>1. x \in SUBSET (1..j)
      BY <2>2
    <3> QED BY <1>2, <3>1
  <2> QED BY <2>1, <2>2
<1> HIDE DEF S
<1>3. k \in S
  BY <1>1, <1>2, NumbersFollow
<1> QED BY <1>3 DEF S

(* The deduplication finds a run of its store, and no later one is recent.      *)
LEMMA NewestIsRecent ==
  ASSUME ReportInv, NEW s \in Store, Report!Recent(s) # {}
  PROVE  /\ Report!Newest(Report!Recent(s)) \in 1..Len(runs)
         /\ Report!Newest(Report!Recent(s)) \in recent
         /\ runs[Report!Newest(Report!Recent(s))].store = s
         /\ \A m \in Report!Recent(s) : m <= Report!Newest(Report!Recent(s))
<1> DEFINE ids == Report!Recent(s)
<1>1. Len(runs) \in Nat /\ recent \subseteq 1..Len(runs)
  BY LenProperties DEF ReportInv, RunsTyped
<1>2. ids \in SUBSET (1..Len(runs)) /\ ids # {} /\ \A n \in ids : n \in recent /\ runs[n].store = s
  BY <1>1 DEF Report!Recent
<1> HIDE DEF ids
<1>3. \E n \in ids : \A m \in ids : m <= n
  BY <1>1, <1>2, Greatest
<1>4. Report!Newest(ids) \in ids /\ \A m \in ids : m <= Report!Newest(ids)
  BY <1>3 DEF Report!Newest
<1> QED BY <1>2, <1>4 DEF ids

(* The run that is saved is the newest, of its file and of all.                *)
LEMMA RunIsSaved ==
  ASSUME ReportInv, NEW r \in Question, Report!FinishReport(r)
  PROVE  ReportInv' /\ Leads
<1> DEFINE s == request[r].store  new == [store |-> s]
           top == Len(runs) + 1
           idle == [Report!Idle EXCEPT !.store = s, !.answer = top]
<1>1. /\ request[r].at = "build" /\ runs' = Append(runs, new)
      /\ docx' = [docx EXCEPT ![FileOf[s]] = top] /\ recent' = recent \cup {top}
      /\ request' = [request EXCEPT ![r] = idle]
  BY DEF Report!FinishReport, Report!WriteDocx, Report!SaveRun
<1>2. /\ s \in Store /\ new \in SavedRun /\ new.store = s
      /\ runs \in Seq(SavedRun) /\ Len(runs) \in Nat /\ top \in Nat
  <2>1. s \in Store
    BY <1>1 DEF ReportInv, RequestsTyped
  <2>2. runs \in Seq(SavedRun) /\ Len(runs) \in Nat /\ top \in Nat
    BY LenProperties DEF ReportInv, RunsTyped
  <2> QED BY <2>1, <2>2 DEF SavedRun
<1>3. /\ idle \in Generating /\ idle.at = "idle" /\ idle.store = s /\ idle.answer = top
  BY <1>2, RequestParts DEF Report!Idle, Generating
<1> HIDE DEF idle, new, s
<1>4. RequestsTyped'
  BY <1>1, <1>3 DEF ReportInv, RequestsTyped
<1>5. /\ runs' \in Seq(SavedRun) /\ Len(runs') = top /\ runs'[top] = new
      /\ \A n \in 1..Len(runs) : runs'[n] = runs[n]
  BY <1>1, <1>2, AppendProperties
<1>6. 1..Len(runs') = 1..Len(runs) \cup {top} /\ top \notin 1..Len(runs)
  BY <1>2, <1>5
<1>7. /\ docx' \in [Report!Files -> Int] /\ docx'[FileOf[s]] = top
      /\ \A f \in Report!Files : f # FileOf[s] => docx'[f] = docx[f]
  <2>1. FileOf[s] \in Report!Files
    BY <1>2 DEF Report!Files
  <2> QED BY <1>1, <1>2, <2>1 DEF ReportInv, RunsTyped
<1>8. RunsTyped'
  <2>1. recent' \subseteq 1..Len(runs')
    BY <1>1, <1>6 DEF ReportInv, RunsTyped
  <2>2. \A n \in recent', m \in 1..Len(runs') : m >= n => m \in recent'
    BY <1>1, <1>2, <1>5, <1>6 DEF ReportInv, RunsTyped
  <2> QED BY <1>5, <1>7, <2>1, <2>2 DEF RunsTyped
<1>9. NewestIsOnFile'
  <2> SUFFICES ASSUME NEW n \in 1..Len(runs')
               PROVE  docx'[FileOf[runs'[n].store]] = -1
                      \/ Shows(n, docx'[FileOf[runs'[n].store]], runs')
    BY DEF NewestIsOnFile, Shows
  <2>1. CASE FileOf[runs'[n].store] = FileOf[s]
    BY <1>2, <1>5, <1>7, <2>1 DEF Shows
  <2>2. CASE FileOf[runs'[n].store] # FileOf[s]
    <3>1. n \in 1..Len(runs) /\ runs'[n] = runs[n]
      BY <1>2, <1>5, <1>6, <2>2
    <3>2. FileOf[runs[n].store] \in Report!Files
      <4>1. runs[n] \in SavedRun
        BY <1>2, <3>1, ElementOfSeq
      <4> QED BY <4>1 DEF SavedRun, Report!Files
    <3> DEFINE text == docx[FileOf[runs[n].store]]
    <3>3. docx'[FileOf[runs'[n].store]] = text
      BY <1>7, <2>2, <3>1, <3>2
    <3>4. text = -1 \/ Shows(n, text, runs)
      BY <3>1 DEF ReportInv, NewestIsOnFile
    <3> HIDE DEF text
    <3>5. Shows(n, text, runs) => Shows(n, text, runs')
      <4> SUFFICES ASSUME Shows(n, text, runs) PROVE Shows(n, text, runs')
        OBVIOUS
      <4>1. text \in 1..Len(runs) /\ text \in n..Len(runs')
        BY <1>2, <1>5, <3>1 DEF Shows
      <4> QED BY <1>5, <3>1, <4>1 DEF Shows
    <3> QED BY <3>3, <3>4, <3>5
  <2> QED BY <2>1, <2>2
<1>10. AnswersAreRuns'
  <2> SUFFICES ASSUME NEW q \in Question, request'[q].answer # 0
               PROVE  /\ request'[q].answer \in 1..Len(runs')
                      /\ runs'[request'[q].answer].store = request'[q].store
    BY DEF AnswersAreRuns
  <2>1. CASE q = r
    <3>1. request'[q] = idle
      BY <1>1, <2>1 DEF ReportInv, RequestsTyped
    <3> QED BY <1>2, <1>3, <1>5, <1>6, <3>1
  <2>2. CASE q # r
    <3>1. request'[q] = request[q]
      BY <1>1, <2>2 DEF ReportInv, RequestsTyped
    <3>2. /\ request[q].answer \in 1..Len(runs)
          /\ runs[request[q].answer].store = request[q].store
      BY <3>1 DEF ReportInv, AnswersAreRuns
    <3> QED BY <1>5, <1>6, <3>1, <3>2
  <2> QED BY <2>1, <2>2
<1>11. Leads
  <2> SUFFICES ASSUME NEW q \in Question, request'[q].answer \notin {0, request[q].answer}
               PROVE  docx'[FileOf[request'[q].store]] = request'[q].answer
    BY DEF Leads
  <2>1. q = r /\ request'[q] = idle
    BY <1>1 DEF ReportInv, RequestsTyped
  <2> QED BY <1>3, <1>7, <2>1
<1> QED BY <1>4, <1>8, <1>9, <1>10, <1>11 DEF ReportInv

LEMMA ReportStep ==
  ASSUME ReportInv, [Report!Next]_reportVars
  PROVE  ReportInv' /\ [Leads]_Report!vars
<1> DEFINE Goal == ReportInv' /\ [Leads]_Report!vars
           Calm(r) == \/ request'[r].answer = 0
                      \/ /\ request'[r].answer = request[r].answer
                         /\ request'[r].store = request[r].store
<1> USE DEF Report!reports
<1>1. ASSUME UNCHANGED <<runs, recent, docx>>, RequestsTyped', \A r \in Question : Calm(r)
      PROVE  Goal
  <2>1. RunsTyped' /\ NewestIsOnFile'
    BY <1>1 DEF ReportInv, RunsTyped, NewestIsOnFile, Shows
  <2>2. AnswersAreRuns'
    BY <1>1 DEF ReportInv, AnswersAreRuns
  <2>3. Leads
    BY <1>1 DEF Leads
  <2> QED BY <1>1, <2>1, <2>2, <2>3 DEF ReportInv
<1>2. ASSUME UNCHANGED <<runs, recent, docx>>, NEW r \in Question,
             NEW new \in Generating, request' = [request EXCEPT ![r] = new],
             new.at # "idle" => new.store \in Store,
             \/ new.answer = 0
             \/ new.answer = request[r].answer /\ new.store = request[r].store
      PROVE  Goal
  <2>1. RequestsTyped'
    BY <1>2 DEF ReportInv, RequestsTyped
  <2>2. \A q \in Question : Calm(q)
    BY <1>2 DEF ReportInv, RequestsTyped
  <2> QED BY <1>1, <1>2, <2>1, <2>2
<1>22. ASSUME NEW r \in Question, request[r].at = "build", Report!WriteDocx(r, -1),
              UNCHANGED <<runs, recent>>, RequestsTyped', \A q \in Question : Calm(q)
       PROVE  Goal
  <2> DEFINE f == FileOf[request[r].store]
  <2>1. f \in Report!Files /\ docx' = [docx EXCEPT ![f] = -1]
    BY <1>22 DEF ReportInv, RequestsTyped, Report!WriteDocx, Report!Files
  <2> HIDE DEF f
  <2>2. PICK n \in Int : n = -1
    OBVIOUS
  <2>3. /\ docx' \in [Report!Files -> Int] /\ docx'[f] = n
        /\ \A x \in Report!Files : x # f => docx'[x] = docx[x]
    BY <2>1, <2>2 DEF ReportInv, RunsTyped
  <2>4. RunsTyped'
    BY <1>22, <2>3 DEF ReportInv, RunsTyped
  <2>5. NewestIsOnFile'
    <3> SUFFICES ASSUME NEW k \in 1..Len(runs)
                 PROVE  docx'[FileOf[runs[k].store]] = -1
                        \/ Shows(k, docx'[FileOf[runs[k].store]], runs)
      BY <1>22 DEF NewestIsOnFile, Shows
    <3>1. FileOf[runs[k].store] \in Report!Files
      <4>1. runs[k] \in SavedRun
        BY ElementOfSeq DEF ReportInv, RunsTyped
      <4> QED BY <4>1 DEF SavedRun, Report!Files
    <3> QED BY <2>2, <2>3, <3>1 DEF ReportInv, NewestIsOnFile
  <2>6. AnswersAreRuns' /\ Leads
    BY <1>22 DEF ReportInv, AnswersAreRuns, Leads
  <2> QED BY <1>22, <2>4, <2>5, <2>6 DEF ReportInv
<1>3. ASSUME Report!Reborn
      PROVE  RequestsTyped' /\ \A r \in Question : Calm(r)
  <2>1. request' = [r \in Question |-> Report!Idle]
    BY <1>3 DEF Report!Reborn
  <2> QED BY <2>1, IdleTyped DEF RequestsTyped
<1>4. ASSUME UNCHANGED request, UNCHANGED <<runs, recent, docx>> PROVE Goal
  BY <1>1, <1>4 DEF ReportInv, RequestsTyped
<1>5. ASSUME NEW t \in Topic, NEW s \in Store, Report!CreateTopic(t, s) \/ Report!MoveTopic(t, s)
      PROVE  Goal
  BY <1>4, <1>5 DEF Report!CreateTopic, Report!MoveTopic
<1>6. ASSUME NEW t \in Topic, NEW u \in Topic, NEW s \in Store, Report!ReplicateTopic(t, u, s)
      PROVE  Goal
  BY <1>4, <1>6 DEF Report!ReplicateTopic
<1>7. ASSUME NEW t \in Topic, Report!ResolveTopic(t) PROVE Goal
  BY <1>4, <1>7 DEF Report!ResolveTopic
<1>8. ASSUME NEW t \in Topic, Report!DiesInResolve(t) PROVE Goal
  BY <1>1, <1>3, <1>8 DEF Report!DiesInResolve
<1>9. ASSUME NEW r \in Question, NEW s \in Store, Report!GenerateCached(r, s) PROVE Goal
  <2> DEFINE top == Report!Newest(Report!Recent(s))
             new == [Report!Idle EXCEPT !.store = s, !.answer = top]
             text == docx[FileOf[s]]
  <2>1. /\ Report!Recent(s) # {} /\ request' = [request EXCEPT ![r] = new]
        /\ UNCHANGED <<runs, recent, docx>>
    BY <1>9 DEF Report!GenerateCached, Report!CachedAnswer
  <2>2. /\ top \in 1..Len(runs) /\ top \in recent /\ runs[top].store = s
        /\ \A m \in Report!Recent(s) : m <= top
    BY <2>1, NewestIsRecent
  <2>3. Len(runs) \in Nat
    BY LenProperties DEF ReportInv, RunsTyped
  <2>4. text = -1 \/ Shows(top, text, runs)
    BY <2>2 DEF ReportInv, NewestIsOnFile
  <2>5. text = -1 \/ text = top \/ runs[text].store # s
    <3> SUFFICES ASSUME text # -1, runs[text].store = s PROVE text = top
      OBVIOUS
    <3>1. text \in 1..Len(runs) /\ text >= top
      BY <2>2, <2>3, <2>4 DEF Shows
    <3>2. text \in Report!Recent(s)
      BY <2>2, <3>1 DEF ReportInv, RunsTyped, Report!Recent
    <3> QED BY <2>2, <2>3, <3>1, <3>2
  <2> HIDE DEF top
  <2>6. new \in Generating /\ new.at = "idle" /\ new.store = s /\ new.answer = top
    <3>1. top \in Nat
      BY <2>2, <2>3
    <3> QED BY <3>1, RequestParts DEF Report!Idle, Generating
  <2> HIDE DEF new
  <2>7. /\ request'[r] = new /\ RequestsTyped'
        /\ \A q \in Question : q # r => request'[q] = request[q]
    BY <2>1, <2>6 DEF ReportInv, RequestsTyped
  <2>8. RunsTyped' /\ NewestIsOnFile'
    BY <2>1 DEF ReportInv, RunsTyped, NewestIsOnFile, Shows
  <2>9. AnswersAreRuns'
    BY <2>1, <2>2, <2>6, <2>7 DEF ReportInv, AnswersAreRuns
  <2>10. Leads
    BY <2>1, <2>5, <2>6, <2>7 DEF Leads
  <2> QED BY <2>7, <2>8, <2>9, <2>10 DEF ReportInv
<1>10. ASSUME NEW r \in Question, NEW s \in Store, Report!AskClaude(r, s),
              UNCHANGED <<runs, recent, docx>>
       PROVE  Goal
  <2> DEFINE new == [Report!Idle EXCEPT !.at = "claude", !.store = s, !.open = Report!Open(s)]
  <2>1. request' = [request EXCEPT ![r] = new]
    BY <1>10 DEF Report!AskClaude
  <2>2. new \in Generating /\ new.store \in Store /\ new.answer = 0
    BY RequestParts DEF Report!Idle, Generating
  <2> HIDE DEF new
  <2> QED BY <1>2, <1>10, <2>1, <2>2
<1>11. ASSUME NEW r \in Question, NEW s \in Store, Report!Generate(r, s) PROVE Goal
  <2>1. UNCHANGED <<runs, recent, docx>>
    BY <1>11 DEF Report!Generate
  <2>2. CASE Report!AskClaude(r, s)
    BY <1>10, <2>1, <2>2
  <2>3. CASE request' = [request EXCEPT ![r] = [Report!Idle EXCEPT !.at = "sync", !.store = s]]
    <3> DEFINE new == [Report!Idle EXCEPT !.at = "sync", !.store = s]
    <3>1. new \in Generating /\ new.store \in Store /\ new.answer = 0
      BY RequestParts DEF Report!Idle, Generating
    <3>2. request' = [request EXCEPT ![r] = new]
      BY <2>3
    <3> HIDE DEF new
    <3> QED BY <1>2, <2>1, <3>1, <3>2
  <2> QED BY <1>11, <2>2, <2>3 DEF Report!Generate
<1>12. ASSUME NEW r \in Question, Report!Synced(r) PROVE Goal
  <2>1. /\ request[r].at = "sync" /\ Report!AskClaude(r, request[r].store)
        /\ UNCHANGED <<runs, recent, docx>>
    BY <1>12 DEF Report!Synced
  <2>2. request[r].store \in Store
    BY <2>1 DEF ReportInv, RequestsTyped
  <2> QED BY <1>10, <2>1, <2>2
<1>13. ASSUME NEW r \in Question, Report!ClaudeFails(r) PROVE Goal
  BY <1>2, <1>13, IdleTyped DEF Report!ClaudeFails
<1>14. ASSUME NEW r \in Question, Report!ClaudeAnswers(r) PROVE Goal
  <2> DEFINE new == [request[r] EXCEPT !.at = "build"]
  <2>1. /\ request[r].at = "claude" /\ request' = [request EXCEPT ![r] = new]
        /\ UNCHANGED <<runs, recent, docx>>
    BY <1>14 DEF Report!ClaudeAnswers
  <2>2. /\ new \in Generating /\ new.store = request[r].store
        /\ new.answer = request[r].answer
    <3>1. request[r] \in Generating
      BY DEF ReportInv, RequestsTyped
    <3> QED BY <3>1, RequestParts DEF Generating
  <2>3. request[r].store \in Store
    BY <2>1 DEF ReportInv, RequestsTyped
  <2> HIDE DEF new
  <2> QED BY <1>2, <2>1, <2>2, <2>3
<1>15. ASSUME NEW r \in Question, Report!FinishReport(r) PROVE Goal
  BY <1>15, RunIsSaved
<1>16. ASSUME NEW r \in Question, Report!DiesInSoffice(r) PROVE Goal
  BY <1>3, <1>16, <1>22 DEF Report!DiesInSoffice, Report!Unsaved
<1>23. ASSUME NEW r \in Question, Report!SaveFails(r) PROVE Goal
  <2>1. /\ request[r].at = "build" /\ Report!WriteDocx(r, -1) /\ UNCHANGED <<runs, recent>>
        /\ request' = [request EXCEPT ![r] = Report!Idle]
    BY <1>23 DEF Report!SaveFails, Report!Unsaved
  <2>2. RequestsTyped' /\ \A q \in Question : Calm(q)
    BY <2>1, IdleTyped DEF ReportInv, RequestsTyped
  <2> QED BY <1>22, <2>1, <2>2
<1>17. CASE Report!Dies
  BY <1>1, <1>3, <1>17 DEF Report!Dies
<1>18. CASE Report!HalfAnHour
  <2>1. recent' = {} /\ UNCHANGED <<runs, docx, request>>
    BY <1>18 DEF Report!HalfAnHour
  <2>2. RunsTyped' /\ NewestIsOnFile' /\ RequestsTyped' /\ AnswersAreRuns'
    BY <2>1 DEF ReportInv, RunsTyped, NewestIsOnFile, RequestsTyped, AnswersAreRuns, Shows
  <2>3. Leads
    BY <2>1 DEF Leads
  <2> QED BY <2>2, <2>3 DEF ReportInv
<1>19. CASE Report!LookAtTickets
  BY <1>4, <1>19 DEF Report!LookAtTickets
<1>20. ASSUME NEW s \in Store, Report!CacheExpires(s) PROVE Goal
  BY <1>4, <1>20 DEF Report!CacheExpires
<1>21. CASE UNCHANGED reportVars
  BY <1>4, <1>21 DEF reportVars
<1> QED
  BY <1>5, <1>6, <1>7, <1>8, <1>9, <1>11, <1>12, <1>13, <1>14, <1>15, <1>16, <1>17, <1>18,
     <1>19, <1>20, <1>21, <1>23
  DEF Report!Next

(* Whatever fails and stops, the file of an answer is that of its run or of a   *)
(* newer one of the same name, unless its text was never saved.                *)
THEOREM AnswerFindsItsFile == Office => AnswerLeadsToItsFile
<1>1. Begins => Report!Init
  BY DEF Begins
<1>2. ReportInv /\ [Report!Next]_reportVars => ReportInv' /\ [Leads]_Report!vars
  BY ReportStep
<1>3. FilesFollow' /\ [Leads]_Report!vars => [Report!FileIsTheAnswers]_Report!vars
  BY DEF FilesFollow, Leads, Report!FileIsTheAnswers, Report!Unsaved
<1> QED
  BY <1>1, <1>2, <1>3, ReportStarts, ReportMoves, AnswersFollow, PTL
  DEF Office, AnswerLeadsToItsFile, Report!AnswerLeadsToItsFile
-----------------------------------------------------------------------------
(* Alarms: the key of a machine is at least as young as the last low load that  *)
(* a rule has seen since it was created.                                     *)

KeyIsYoung(r, p, key, low) ==
  /\ r.born <= p
  /\ key # -1 => low[r.threshold] <= key \/ low[r.threshold] <= r.born

AlarmInv ==
  /\ rules \in Seq(Alarm!Rule) /\ Len(rules) <= MaxRules
  /\ cpu \in Int /\ pass \in 0..MaxPasses /\ limits \subseteq Alarm!Limits
  /\ started = -1 \/ started \in 0..pass
  /\ calm \in [Levels -> Nat]
  /\ \A l \in Levels : calm[l] <= pass
  /\ \A i \in 1..Len(rules) : KeyIsYoung(rules[i], pass, started, calm)
  /\ AlarmIsSustained

LEMMA AlarmNumbers ==
  /\ Levels \subseteq Int /\ Minutes \subseteq Int /\ MaxRules \in Nat /\ MaxPasses \in Nat
  /\ \A r \in Alarm!Rule : r.threshold \in Levels /\ r.threshold \in Int /\ r.mins \in Int
                           /\ r.born \in Nat
<1>1. Levels \subseteq Int /\ Minutes \subseteq Int /\ MaxRules \in Nat /\ MaxPasses \in Nat
  BY OfficeAssumption
<1>2. ASSUME NEW r \in Alarm!Rule
      PROVE  r.threshold \in Levels /\ r.threshold \in Int /\ r.mins \in Int /\ r.born \in Nat
  <2>1. r.threshold \in Levels /\ r.mins \in Minutes /\ r.born \in 0..MaxPasses
    BY DEF Alarm!Rule
  <2>2. r.born \in Nat
    BY <1>1, <2>1
  <2> QED BY <1>1, <2>1, <2>2
<1> QED BY <1>1, <1>2

LEMMA AlarmMoves == [Moves]_all => [Alarm!Next]_alarmVars
<1>1. Moves => [Alarm!Next]_alarmVars
  BY DEF Moves, Only
<1>2. UNCHANGED all => UNCHANGED alarmVars
  BY DEF all
<1> QED BY <1>1, <1>2

LEMMA AlarmStarts == Alarm!Init => AlarmInv
  BY OfficeAssumption
  DEF Alarm!Init, AlarmInv, AlarmIsSustained, Alarm!AlarmIsSustained, Alarm!None

(* The keys before and after each rule of a pass exist.                        *)
LEMMA KeysFollow ==
  Alarm!KeyAfter = [n \in 0..MaxRules |->
    IF n = 0 THEN started ELSE Alarm!CpuRule(Alarm!KeyAfter[n - 1], rules[n]).key]
<1> DEFINE Next1(k, n) == Alarm!CpuRule(k, rules[n]).key
           Good(f, m) == /\ DOMAIN f = 0..m /\ f[0] = started
                         /\ \A n \in 1..m : f[n] = Next1(f[n - 1], n)
           S == {m \in Nat : \E f : f = [n \in 0..m |-> f[n]] /\ Good(f, m)}
<1> HIDE DEF Next1
<1>1. 0 \in S
  <2> DEFINE f == [n \in 0..0 |-> started]
  <2>1. f = [n \in 0..0 |-> f[n]] /\ Good(f, 0)
    OBVIOUS
  <2> QED BY <2>1
<1>2. ASSUME NEW m \in Nat, m \in S PROVE m + 1 \in S
  <2>1. PICK f : f = [n \in 0..m |-> f[n]] /\ Good(f, m)
    BY <1>2
  <2> DEFINE g == [n \in 0..(m + 1) |-> IF n = m + 1 THEN Next1(f[m], n) ELSE f[n]]
  <2>2. g = [n \in 0..(m + 1) |-> g[n]] /\ DOMAIN g = 0..(m + 1)
    OBVIOUS
  <2>3. g[0] = started
    BY <2>1
  <2>4. ASSUME NEW n \in 1..(m + 1) PROVE g[n] = Next1(g[n - 1], n)
    <3>1. n - 1 \in 0..m /\ g[n - 1] = f[n - 1]
      OBVIOUS
    <3>2. CASE n = m + 1
      BY <3>1, <3>2
    <3>3. CASE n # m + 1
      <4>1. n \in 1..m /\ g[n] = f[n]
        BY <3>3
      <4> QED BY <2>1, <3>1, <4>1
    <3> QED BY <3>2, <3>3
  <2>5. Good(g, m + 1)
    BY <2>2, <2>3, <2>4
  <2> HIDE DEF g, Good
  <2>6. m + 1 \in Nat /\ \E h : h = [n \in 0..(m + 1) |-> h[n]] /\ Good(h, m + 1)
    BY <2>2, <2>5
  <2> QED BY <2>6
<1>3. MaxRules \in S
  <2> HIDE DEF S
  <2> QED BY <1>1, <1>2, NumbersFollow, OfficeAssumption
<1>4. PICK f : f = [n \in 0..MaxRules |-> f[n]] /\ Good(f, MaxRules)
  BY <1>3
<1>5. \A n \in 0..MaxRules : f[n] = IF n = 0 THEN started ELSE Next1(f[n - 1], n)
  <2>1. \A n \in 0..MaxRules : n = 0 \/ n \in 1..MaxRules
    BY OfficeAssumption
  <2>2. \A n \in 1..MaxRules : n # 0
    OBVIOUS
  <2> QED BY <1>4, <2>1, <2>2, Zenon
<1>6. f = [n \in 0..MaxRules |-> IF n = 0 THEN started ELSE Next1(f[n - 1], n)]
  BY <1>4, <1>5
<1> QED BY <1>6 DEF Alarm!KeyAfter, Next1

(* A rule keeps the key, drops it or starts it; a load below its threshold      *)
(* drops it, and the rule fires only after its minutes.                       *)
LEMMA RuleKey ==
  ASSUME NEW key \in Int, NEW r \in Alarm!Rule, AlarmInv
  PROVE  /\ Alarm!CpuRule(key, r).key \in {key, -1, pass + 1}
         /\ key = -1 => Alarm!CpuRule(key, r).key \in {-1, pass + 1}
         /\ cpu < r.threshold => Alarm!CpuRule(key, r).key = -1
         /\ Alarm!CpuRule(key, r).fires =>
              /\ cpu >= r.threshold
              /\ IF key = -1 THEN 0 >= r.mins ELSE pass + 1 - key >= r.mins
<1>1. r.threshold \in Int /\ r.mins \in Int /\ cpu \in Int /\ pass \in Nat
  BY AlarmNumbers DEF AlarmInv
<1> DEFINE t == r.threshold  d == r.mins  since == IF key = -1 THEN pass + 1 ELSE key
<1>2. t \in Int /\ d \in Int /\ since \in Int
  BY <1>1
<1>3. Alarm!CpuRule(key, r) =
        IF cpu >= t
        THEN IF pass + 1 - since >= d THEN [key |-> -1, fires |-> TRUE]
             ELSE [key |-> since, fires |-> FALSE]
        ELSE [key |-> -1, fires |-> FALSE]
  BY Zenon DEF Alarm!CpuRule, Alarm!None
<1>4. CASE cpu < t
  <2>1. ~(cpu >= t)
    BY <1>1, <1>2, <1>4
  <2>2. Alarm!CpuRule(key, r).key = -1 /\ Alarm!CpuRule(key, r).fires = FALSE
    BY <1>3, <2>1
  <2> QED BY <2>2
<1>5. CASE cpu >= t /\ pass + 1 - since >= d
  <2>1. Alarm!CpuRule(key, r).key = -1
    BY <1>3, <1>5
  <2>2. ~(cpu < t)
    BY <1>1, <1>2, <1>5
  <2>3. IF key = -1 THEN 0 >= d ELSE pass + 1 - key >= d
    BY <1>1, <1>2, <1>5
  <2> QED BY <2>1, <2>2, <2>3, <1>5
<1>6. CASE cpu >= t /\ ~(pass + 1 - since >= d)
  <2>1. Alarm!CpuRule(key, r).key = since /\ Alarm!CpuRule(key, r).fires = FALSE
    BY <1>3, <1>6
  <2>2. ~(cpu < t)
    BY <1>1, <1>2, <1>6
  <2> QED BY <2>1, <2>2
<1>7. cpu < t \/ cpu >= t
  BY <1>1, <1>2
<1> QED BY <1>4, <1>5, <1>6, <1>7

(* Along the rules of a pass the key is the old one, none or this pass; after a *)
(* rule that saw a low load it is no longer the old one.                      *)
LEMMA KeysOfAPass ==
  ASSUME AlarmInv
  PROVE  \A n \in 0..Len(rules) :
           /\ Alarm!KeyAfter[n] \in {started, -1, pass + 1}
           /\ \A i \in 1..n : cpu < rules[i].threshold => Alarm!KeyAfter[n] \in {-1, pass + 1}
<1> DEFINE K(n) == Alarm!KeyAfter[n]
           Right(n) == /\ K(n) \in {started, -1, pass + 1}
                       /\ \A i \in 1..n : cpu < rules[i].threshold => K(n) \in {-1, pass + 1}
           S == {n \in Nat : n <= Len(rules) => Right(n)}
<1>1. /\ MaxRules \in Nat /\ Len(rules) \in Nat /\ Len(rules) <= MaxRules
      /\ \A i \in 1..Len(rules) : rules[i] \in Alarm!Rule
      /\ started \in Int /\ pass \in Nat
  BY OfficeAssumption, LenProperties, ElementOfSeq DEF AlarmInv
<1>2. \A n \in 0..MaxRules :
        K(n) = IF n = 0 THEN started ELSE Alarm!CpuRule(K(n - 1), rules[n]).key
  BY KeysFollow, Zenon
<1> HIDE DEF K
<1>3. 0 \in S
  <2>1. 0 \in 0..MaxRules
    BY <1>1
  <2>2. K(0) = started
    BY <1>2, <2>1
  <2> QED BY <2>2
<1>4. ASSUME NEW n \in Nat, n \in S PROVE n + 1 \in S
  <2> SUFFICES ASSUME n + 1 <= Len(rules) PROVE Right(n + 1)
    BY <1>4
  <2>1. Right(n) /\ n + 1 \in 0..MaxRules /\ n + 1 # 0 /\ (n + 1) - 1 = n
        /\ n + 1 \in 1..Len(rules)
    BY <1>1, <1>4
  <2>2. K(n + 1) = Alarm!CpuRule(K(n), rules[n + 1]).key
    BY <1>2, <2>1
  <2>3. K(n) \in Int /\ rules[n + 1] \in Alarm!Rule
    BY <1>1, <2>1
  <2>4. PICK k, l : k = K(n) /\ l = K(n + 1)
    OBVIOUS
  <2>5. /\ l \in {k, -1, pass + 1}
        /\ k = -1 => l \in {-1, pass + 1}
        /\ cpu < rules[n + 1].threshold => l = -1
    BY RuleKey, <2>2, <2>3, <2>4
  <2>6. l \in {started, -1, pass + 1}
    BY <2>1, <2>4, <2>5
  <2>7. ASSUME NEW i \in 1..(n + 1), cpu < rules[i].threshold PROVE l \in {-1, pass + 1}
    <3>1. CASE i = n + 1
      BY <2>5, <2>7, <3>1
    <3>2. CASE i # n + 1
      <4>1. i \in 1..n
        BY <3>2
      <4>2. k \in {-1, pass + 1}
        BY <2>1, <2>4, <2>7, <4>1
      <4> QED BY <2>5, <4>2
    <3> QED BY <3>1, <3>2
  <2> QED BY <2>4, <2>6, <2>7
<1>5. Nat \subseteq S
  <2> HIDE DEF S
  <2> QED BY <1>3, <1>4, NumbersFollow
<1> QED BY <1>1, <1>5 DEF K

(* What is left of a sequence without one of its elements.                     *)
LEMMA RuleDeleted ==
  ASSUME NEW S, NEW q \in Seq(S), NEW i \in DOMAIN q
  PROVE  /\ Alarm!RemoveAt(q, i) \in Seq(S)
         /\ Len(Alarm!RemoveAt(q, i)) <= Len(q)
<1> DEFINE l == SubSeq(q, 1, i - 1)  r == SubSeq(q, i + 1, Len(q))
<1>1. Len(q) \in Nat /\ i \in 1..Len(q)
  BY LenProperties
<1>2. \A j \in 1..Len(q) : q[j] \in S
  BY ElementOfSeq
<1>3. l \in Seq(S) /\ Len(l) = i - 1
  <2>1. \A j \in 1..(i - 1) : q[j] \in S
    BY <1>1, <1>2
  <2>2. /\ l \in Seq(S)
        /\ Len(l) = IF 1 <= i - 1 THEN (i - 1) - 1 + 1 ELSE 0
    BY <1>1, <2>1, SubSeqProperties
  <2> QED BY <1>1, <2>2
<1>4. r \in Seq(S) /\ Len(r) = Len(q) - i
  <2>1. \A j \in (i + 1)..Len(q) : q[j] \in S
    BY <1>1, <1>2
  <2>2. i + 1 \in Int /\ Len(q) \in Int
    BY <1>1
  <2>3. /\ r \in Seq(S)
        /\ Len(r) = IF i + 1 <= Len(q) THEN Len(q) - (i + 1) + 1 ELSE 0
    BY <2>1, <2>2, SubSeqProperties
  <2> QED BY <1>1, <2>3
<1> HIDE DEF l, r
<1>5. l \o r \in Seq(S) /\ Len(l \o r) = Len(l) + Len(r)
  BY <1>3, <1>4, ConcatProperties
<1>6. Alarm!RemoveAt(q, i) = l \o r
  BY DEF Alarm!RemoveAt, l, r
<1> QED BY <1>1, <1>3, <1>4, <1>5, <1>6

(* A pass over the rules of a machine that is online.                          *)
LEMMA RulesChecked ==
  ASSUME AlarmInv, Alarm!CheckCpuAlerts, pass < MaxPasses, pass' = pass + 1, rules' = rules, cpu' = cpu,
         limits' = limits
  PROVE  AlarmInv'
<1> DEFINE alarms == {rules[i] : i \in {j \in DOMAIN rules :
                        Alarm!CpuRule(Alarm!KeyAfter[j - 1], rules[j]).fires}}
<1>1. /\ MaxRules \in Nat /\ Len(rules) \in Nat /\ Len(rules) <= MaxRules
      /\ DOMAIN rules = 1..Len(rules)
      /\ \A i \in 1..Len(rules) : rules[i] \in Alarm!Rule
      /\ pass \in Nat /\ started \in Int /\ (started = -1 \/ started \in 0..pass)
      /\ cpu \in Int /\ calm \in [Levels -> Nat]
      /\ \A l \in Levels : calm[l] <= pass
      /\ \A i \in 1..Len(rules) : KeyIsYoung(rules[i], pass, started, calm)
  BY OfficeAssumption, LenProperties, ElementOfSeq DEF AlarmInv
<1>2. /\ started' = Alarm!KeyAfter[Len(rules)]
      /\ fired' = [kind : {"cpu_high"}, rule : alarms] \cup [kind : bad \cap limits]
      /\ calm' = [l \in Levels |-> IF cpu < l THEN pass + 1 ELSE calm[l]]
  BY DEF Alarm!CheckCpuAlerts
<1>3. \A r \in Alarm!Rule : r.threshold \in Levels /\ r.mins \in Int /\ r.born \in Nat
  BY AlarmNumbers
<1>4. started' = -1 \/ started' \in 0..pass'
  <2>1. started' \in {started, -1, pass + 1}
    BY <1>1, <1>2, KeysOfAPass
  <2> QED BY <1>1, <2>1
<1>5. calm' \in [Levels -> Nat]
  BY <1>1, <1>2
<1>6. \A l \in Levels : calm'[l] <= pass'
  BY <1>1, <1>2
<1>10. ASSUME NEW i \in 1..Len(rules') PROVE KeyIsYoung(rules'[i], pass', started', calm')
  <2>1. PICK r \in Alarm!Rule : r = rules[i]
    BY <1>1
  <2>2. /\ r.threshold \in Levels /\ r.threshold \in Int
        /\ r.born \in Nat /\ r.born <= pass
        /\ started # -1 => calm[r.threshold] <= started \/ calm[r.threshold] <= r.born
    BY <1>1, <1>3, <2>1, OfficeAssumption DEF KeyIsYoung
  <2>3. PICK c \in Nat : c = calm[r.threshold]
    BY <1>1, <2>2
  <2>4. started' \in {started, -1, pass + 1}
    BY <1>1, <1>2, KeysOfAPass
  <2>5. CASE cpu < r.threshold
    <3>1. started' \in {-1, pass + 1} /\ calm'[r.threshold] = pass + 1
      BY <1>1, <1>2, <2>1, <2>2, <2>5, KeysOfAPass
    <3> QED BY <1>1, <2>1, <2>2, <3>1 DEF KeyIsYoung
  <2>6. CASE ~(cpu < r.threshold)
    <3>1. calm'[r.threshold] = c
      BY <1>2, <2>2, <2>3, <2>6
    <3>2. PICK b \in Nat : b = r.born
      BY <2>2
    <3>3. b <= pass' /\ (started' # -1 => c <= started' \/ c <= b)
      BY <1>1, <2>2, <2>3, <2>4, <3>2
    <3> QED BY <2>1, <3>1, <3>2, <3>3 DEF KeyIsYoung
  <2> QED BY <2>5, <2>6
<1>7. ASSUME NEW f \in fired', f.kind = "cpu_high"
      PROVE  \/ pass' - calm'[f.rule.threshold] >= f.rule.mins
             \/ calm'[f.rule.threshold] <= f.rule.born
  <2> HIDE DEF alarms
  <2>1. f.rule \in alarms
    <3>1. "cpu_high" \notin limits
      BY DEF AlarmInv, Alarm!Limits
    <3>2. f \notin [kind : bad \cap limits]
      BY <1>7, <3>1
    <3>3. f \in [kind : {"cpu_high"}, rule : alarms]
      BY <1>2, <3>2
    <3> QED BY <3>3
  <2>2. PICK i \in 1..Len(rules) :
          rules[i] = f.rule /\ Alarm!CpuRule(Alarm!KeyAfter[i - 1], rules[i]).fires
    BY <1>1, <2>1 DEF alarms
  <2>3. PICK r \in Alarm!Rule : r = rules[i]
    BY <1>1
  <2>4. PICK k : k = Alarm!KeyAfter[i - 1]
    OBVIOUS
  <2>5. i - 1 \in 0..Len(rules)
    BY <1>1
  <2>6. k \in {started, -1, pass + 1}
    BY <2>4, <2>5, KeysOfAPass
  <2>7. k \in Int
    BY <1>1, <2>6
  <2>8. cpu >= r.threshold /\ IF k = -1 THEN 0 >= r.mins ELSE pass + 1 - k >= r.mins
    BY <2>2, <2>3, <2>4, <2>7, RuleKey
  <2>9. PICK c \in Nat : c = calm[r.threshold]
    BY <1>1, <1>3
  <2>14. PICK b \in Nat : b = r.born
    BY <1>3
  <2>10. c <= pass /\ (started # -1 => c <= started \/ c <= b)
    BY <1>1, <1>3, <2>3, <2>9, <2>14 DEF KeyIsYoung
  <2>11. calm'[r.threshold] = c
    <3>1. r.threshold \in Int /\ r.threshold \in Levels
      BY <1>3, OfficeAssumption
    <3>2. ~(cpu < r.threshold)
      BY <1>1, <2>8, <3>1
    <3> QED BY <1>2, <2>9, <3>1, <3>2
  <2>12. PICK d \in Int : d = r.mins
    BY <1>3
  <2>13. (pass + 1) - c >= d \/ c <= b
    BY <1>1, <2>6, <2>8, <2>10, <2>12
  <2> QED BY <2>2, <2>3, <2>11, <2>12, <2>13, <2>14
<1>8. AlarmIsSustained'
  BY <1>7 DEF AlarmIsSustained, Alarm!AlarmIsSustained
<1>9. pass' \in 0..MaxPasses /\ rules' \in Seq(Alarm!Rule) /\ Len(rules') <= MaxRules /\ cpu' \in Int
      /\ limits' \subseteq Alarm!Limits
  BY OfficeAssumption DEF AlarmInv
<1> QED BY <1>4, <1>5, <1>6, <1>8, <1>9, <1>10 DEF AlarmInv

LEMMA AlarmStep == AlarmInv /\ [Alarm!Next]_alarmVars => AlarmInv'
<1> SUFFICES ASSUME AlarmInv, [Alarm!Next]_alarmVars
             PROVE  AlarmInv'
  OBVIOUS
<1>1. ASSUME NEW l \in Levels, NEW m \in Minutes, Alarm!CreateAlert(l, m) PROVE AlarmInv'
  <2> DEFINE r == [threshold |-> l, mins |-> m, born |-> pass]
  <2>1. r \in Alarm!Rule /\ r.threshold = l /\ r.born = pass
    BY OfficeAssumption DEF AlarmInv, Alarm!Rule
  <2> HIDE DEF r
  <2>2. /\ Append(rules, r) \in Seq(Alarm!Rule) /\ Len(Append(rules, r)) = Len(rules) + 1
        /\ \A i \in 1..Len(rules) : Append(rules, r)[i] = rules[i]
        /\ Append(rules, r)[Len(rules) + 1] = r
    BY <2>1, AppendProperties DEF AlarmInv
  <2>3. Len(rules) \in Nat /\ MaxRules \in Nat
    BY LenProperties, OfficeAssumption DEF AlarmInv
  <2>4. rules' = Append(rules, r) /\ Len(rules) < MaxRules
    BY <1>1 DEF Alarm!CreateAlert, r
  <2>5. UNCHANGED <<limits, cpu, pass, started, calm, fired>>
    BY <1>1 DEF Alarm!CreateAlert, Alarm!machine, Alarm!engine
  <2>6. ASSUME NEW i \in 1..Len(rules') PROVE KeyIsYoung(rules'[i], pass', started', calm')
    <3>1. CASE i \in 1..Len(rules)
      BY <2>2, <2>4, <2>5, <3>1 DEF AlarmInv, KeyIsYoung
    <3>2. CASE i = Len(rules) + 1
      <4>1. rules'[i] = r /\ calm[l] <= pass /\ pass \in Nat /\ calm[l] \in Nat
        BY <2>2, <2>4, <3>2 DEF AlarmInv
      <4> QED BY <2>1, <2>5, <4>1 DEF KeyIsYoung
    <3> QED BY <2>2, <2>3, <2>4, <3>1, <3>2
  <2> QED BY <2>2, <2>3, <2>4, <2>5, <2>6 DEF AlarmInv, AlarmIsSustained, Alarm!AlarmIsSustained
<1>2. ASSUME NEW i \in 1..MaxRules, Alarm!DeleteAlert(i) PROVE AlarmInv'
  <2> DEFINE S == {r \in Alarm!Rule : KeyIsYoung(r, pass, started, calm)}
  <2>1. rules \in Seq(S)
    <3>1. /\ Len(rules) \in Nat /\ rules = [j \in 1..Len(rules) |-> rules[j]]
          /\ \A j \in 1..Len(rules) : rules[j] \in S
      BY LenProperties, ElementOfSeq, SeqDef DEF AlarmInv
    <3> HIDE DEF S
    <3> QED BY <3>1, SeqDef
  <2>2. i \in DOMAIN rules /\ rules' = Alarm!RemoveAt(rules, i)
    BY <1>2 DEF Alarm!DeleteAlert
  <2>3. rules' \in Seq(S) /\ Len(rules') <= Len(rules)
    <3> HIDE DEF S
    <3> QED BY <2>1, <2>2, RuleDeleted
  <2>4. Len(rules) \in Nat /\ Len(rules') \in Nat /\ Len(rules) <= MaxRules /\ MaxRules \in Nat
    BY <2>3, LenProperties, OfficeAssumption DEF AlarmInv
  <2>5. \A j \in 1..Len(rules') : rules'[j] \in S
    <3> HIDE DEF S
    <3> QED BY <2>3, ElementOfSeq
  <2>6. rules' \in Seq(Alarm!Rule)
    <3>1. rules' = [j \in 1..Len(rules') |-> rules'[j]]
      <4> HIDE DEF S
      <4> QED BY <2>3, LenProperties, SeqDef
    <3>2. \A j \in 1..Len(rules') : rules'[j] \in Alarm!Rule
      BY <2>5
    <3> QED BY <2>4, <3>1, <3>2, SeqDef
  <2>7. UNCHANGED <<limits, cpu, pass, started, calm, fired>>
    BY <1>2 DEF Alarm!DeleteAlert, Alarm!machine, Alarm!engine
  <2>8. \A j \in 1..Len(rules') : KeyIsYoung(rules'[j], pass', started', calm')
    BY <2>5, <2>7 DEF KeyIsYoung
  <2> HIDE DEF S
  <2>9. AlarmIsSustained'
    BY <2>7 DEF AlarmInv, AlarmIsSustained, Alarm!AlarmIsSustained
  <2>10. Len(rules') <= MaxRules
    BY <2>3, <2>4
  <2> QED BY <2>6, <2>7, <2>8, <2>9, <2>10 DEF AlarmInv
<1>3. ASSUME Alarm!Metrics PROVE AlarmInv'
  <2>1. cpu' \in Int
    BY <1>3, OfficeAssumption DEF Alarm!Metrics
  <2>2. UNCHANGED <<rules, limits, pass, started, calm, fired>>
    BY <1>3 DEF Alarm!Metrics, Alarm!operator, Alarm!engine
  <2> QED BY <2>1, <2>2 DEF AlarmInv, KeyIsYoung, AlarmIsSustained, Alarm!AlarmIsSustained
<1>4. ASSUME Alarm!CheckAll PROVE AlarmInv'
  <2>1. pass < MaxPasses /\ pass' = pass + 1 /\ UNCHANGED <<rules, limits, cpu>>
    BY <1>4 DEF Alarm!CheckAll, Alarm!operator, Alarm!machine
  <2>2. CASE Alarm!CheckCpuAlerts
    BY <2>1, <2>2, RulesChecked
  <2>3. CASE fired' = {} /\ UNCHANGED <<started, calm>>
    <3>1. pass' \in 0..MaxPasses /\ (started' = -1 \/ started' \in 0..pass')
      BY <2>1, <2>3, OfficeAssumption DEF AlarmInv
    <3>2. \A l \in Levels : calm'[l] <= pass'
      BY <2>1, <2>3 DEF AlarmInv
    <3>3. ASSUME NEW i \in 1..Len(rules') PROVE KeyIsYoung(rules'[i], pass', started', calm')
      <4>1. rules[i].born \in Nat
        BY <2>1, <2>3, ElementOfSeq, AlarmNumbers DEF AlarmInv
      <4> QED BY <2>1, <2>3, <4>1 DEF AlarmInv, KeyIsYoung
    <3> QED BY <2>1, <2>3, <3>1, <3>2, <3>3
      DEF AlarmInv, AlarmIsSustained, Alarm!AlarmIsSustained
  <2> QED BY <1>4, <2>2, <2>3 DEF Alarm!CheckAll, Alarm!CheckMetricThresholds
<1>5. ASSUME Alarm!Restart PROVE AlarmInv'
  <2>1. started' = -1 /\ fired' = {} /\ UNCHANGED <<rules, limits, cpu, pass, calm>>
    BY <1>5 DEF Alarm!Restart, Alarm!None, Alarm!operator, Alarm!machine
  <2> QED BY <2>1 DEF AlarmInv, KeyIsYoung, AlarmIsSustained, Alarm!AlarmIsSustained
<1>6. ASSUME Alarm!Bell \/ Alarm!FallsSilent \/ Alarm!Tell \/ Alarm!TellBios \/ Alarm!MailDone
             \/ UNCHANGED alarmVars
      PROVE  AlarmInv'
  <2>1. UNCHANGED <<rules, limits, cpu, pass, started, calm, fired>>
    BY <1>6 DEF Alarm!Bell, Alarm!FallsSilent, Alarm!Tell, Alarm!TellBios, Alarm!MailDone,
                Alarm!operator, Alarm!machine, Alarm!engine, alarmVars
  <2> QED BY <2>1 DEF AlarmInv, KeyIsYoung, AlarmIsSustained, Alarm!AlarmIsSustained
<1> QED BY <1>1, <1>2, <1>3, <1>4, <1>5, <1>6 DEF Alarm!Next

(* An alarm of a high load is a true one if its rule is as old as its minutes,   *)
(* whatever rules the operator has, in what order they look, and whatever       *)
(* offline times and restarts lie between (checkCpuAlerts, whose rules share    *)
(* one clock per machine).                                                   *)
THEOREM AlarmsAreTrue == Office => []AlarmIsSustained
<1>1. Begins => Alarm!Init
  BY DEF Begins
<1>2. AlarmInv => AlarmIsSustained
  BY DEF AlarmInv
<1> QED
  BY <1>1, <1>2, AlarmStarts, AlarmStep, AlarmMoves, PTL DEF Office

-----------------------------------------------------------------------------
(* HourlyReadings: a machine without a lost reading has one that is dated at     *)
(* most an hour and a tick before its next, and the next is not past.          *)

ReadingInv ==
  /\ now \in Nat /\ sound \subseteq Reader
  /\ next \in [Reader -> Int] /\ taken \in [Reader -> SUBSET Int]
  /\ \A m \in Reader : next[m] = -1 \/ next[m] >= now
  /\ \A m \in sound : next[m] # -1 /\ \E ts \in taken[m] : ts >= next[m] - (T + 1)

LEMMA ReadingMoves == [Moves]_all => [Reading!Next]_readingVars
<1>1. Moves => [Reading!Next]_readingVars
  BY DEF Moves, Only
<1>2. UNCHANGED all => UNCHANGED readingVars
  BY DEF all
<1> QED BY <1>1, <1>2

LEMMA ReadingStarts == Reading!Init => ReadingInv
  BY DEF Reading!Init, ReadingInv, Reading!Never

LEMMA SoundIsNew ==
  ASSUME ReadingInv PROVE Reading!Missing("online") \cap sound = {}
<1> SUFFICES ASSUME NEW m \in sound, Reading!Old(m) PROVE FALSE
  BY DEF Reading!Missing
<1>1. m \in Reader /\ T \in Nat /\ now \in Nat /\ next[m] >= now /\ taken[m] \subseteq Int
  BY OfficeAssumption DEF ReadingInv
<1>2. PICK ts \in taken[m] : ts >= next[m] - (T + 1)
  BY DEF ReadingInv
<1>3. PICK n \in Int : n = next[m]
  BY <1>1 DEF ReadingInv
<1>4. ts \in Int /\ ts < now - (T + 1)
  BY <1>1, <1>2 DEF Reading!Old
<1> QED BY <1>1, <1>2, <1>3, <1>4

LEMMA ReadingStep ==
  ReadingInv /\ [Reading!Next]_readingVars =>
    ReadingInv' /\ ((asked' \ asked) \cap sound = {} \/ UNCHANGED asked)
<1> SUFFICES ASSUME ReadingInv, [Reading!Next]_readingVars
             PROVE  ReadingInv' /\ ((asked' \ asked) \cap sound = {} \/ UNCHANGED asked)
  OBVIOUS
<1>0. T \in Nat \ {0} /\ now \in Nat
  BY OfficeAssumption DEF ReadingInv
<1>1. ASSUME Reading!Tick PROVE ReadingInv' /\ (asked' \ asked) \cap sound = {}
  <2>1. now' = now + 1 /\ asked' = {} /\ UNCHANGED <<next, taken, sound>>
        /\ \A m \in Reader : next[m] # now
    BY <1>1 DEF Reading!Tick, Reading!server, Reading!agent
  <2>2. ASSUME NEW m \in Reader PROVE next[m] = -1 \/ next[m] >= now + 1
    <3>1. PICK n \in Int : n = next[m]
      BY DEF ReadingInv
    <3> QED BY <1>0, <2>1, <3>1 DEF ReadingInv
  <2>3. now' \in Nat
    BY <1>0, <2>1
  <2> QED BY <2>1, <2>2, <2>3 DEF ReadingInv
<1>2. ASSUME NEW m \in Reader, Reading!AgentStarts(m)
      PROVE  ReadingInv' /\ UNCHANGED asked
  <2>1. /\ next[m] = -1 /\ next' = [next EXCEPT ![m] = now]
        /\ UNCHANGED <<now, taken, sound, asked>>
    BY <1>2 DEF Reading!AgentStarts, Reading!server, Reading!found, Reading!Never
  <2>2. now >= now
    BY <1>0
  <2> QED BY <1>0, <2>1, <2>2 DEF ReadingInv
<1>3. ASSUME NEW m \in Reader, Reading!AgentStops(m)
      PROVE  ReadingInv' /\ UNCHANGED asked
  <2>1. PICK never \in Int : never = -1
    OBVIOUS
  <2>2. /\ next' = [next EXCEPT ![m] = never] /\ sound' = sound \ {m}
        /\ UNCHANGED <<now, taken, asked>>
    BY <1>3, <2>1, Zenon DEF Reading!AgentStops, Reading!server, Reading!found, Reading!Never
  <2> QED BY <2>1, <2>2 DEF ReadingInv
<1>4. ASSUME NEW m \in Reader, Reading!Snapshot(m)
      PROVE  ReadingInv' /\ UNCHANGED asked
  <2>1. /\ next' = [next EXCEPT ![m] = now + T] /\ UNCHANGED <<now, asked>>
        /\ \E d \in Skew :
             /\ taken' = [taken EXCEPT ![m] =
                            IF \E ts \in @ : ts >= now + d THEN @ ELSE {now + d}]
             /\ sound' = IF d < -1 THEN sound \ {m} ELSE sound \cup {m}
    BY <1>4 DEF Reading!Snapshot, Reading!NextReading, Reading!server, Reading!found
  <2>2. PICK d \in Skew :
          /\ taken' = [taken EXCEPT ![m] =
                         IF \E ts \in @ : ts >= now + d THEN @ ELSE {now + d}]
          /\ sound' = IF d < -1 THEN sound \ {m} ELSE sound \cup {m}
    BY <2>1
  <2>3. PICK n \in Nat, l \in Int : n = now + T /\ l = now + d
    BY <1>0, OfficeAssumption
  <2>4. n >= now /\ n # -1 /\ d \in Int /\ (~(d < -1) => l >= n - (T + 1))
    BY <1>0, <2>3, OfficeAssumption
  <2>5. DEFINE newer == IF \E ts \in taken[m] : ts >= l THEN taken[m] ELSE {l}
  <2>6. newer \subseteq Int /\ (~(d < -1) => \E ts \in newer : ts >= n - (T + 1))
    <3>1. taken[m] \subseteq Int
      BY DEF ReadingInv
    <3>2. CASE \E ts \in taken[m] : ts >= l
      <4>1. PICK ts \in taken[m] : ts >= l
        BY <3>2
      <4>2. ts \in Int /\ n - (T + 1) \in Int
        BY <1>0, <3>1, <2>3
      <4>3. ~(d < -1) => ts >= n - (T + 1)
        BY <2>3, <2>4, <4>1, <4>2
      <4> QED BY <3>1, <3>2, <4>3
    <3>3. CASE ~\E ts \in taken[m] : ts >= l
      BY <2>4, <3>3
    <3> QED BY <3>2, <3>3
  <2>7. next' = [next EXCEPT ![m] = n] /\ taken' = [taken EXCEPT ![m] = newer]
    BY <2>1, <2>2, <2>3
  <2>8. /\ next' \in [Reader -> Int] /\ taken' \in [Reader -> SUBSET Int] /\ next'[m] = n
        /\ taken'[m] = newer
        /\ \A x \in Reader \ {m} : next'[x] = next[x] /\ taken'[x] = taken[x]
    <3> HIDE DEF newer
    <3> QED BY <1>0, <2>6, <2>7 DEF ReadingInv
  <2>9. m \in sound' => \E ts \in taken'[m] : ts >= n - (T + 1)
    BY <2>2, <2>6, <2>8
  <2>10. sound' \subseteq sound \cup {m}
    BY <2>2
  <2> HIDE DEF newer
  <2> QED BY <1>0, <2>1, <2>4, <2>8, <2>9, <2>10 DEF ReadingInv
<1>5. ASSUME NEW m \in Reader, Reading!SnapshotFails(m)
      PROVE  ReadingInv' /\ UNCHANGED asked
  <2>1. /\ next' = [next EXCEPT ![m] = now + T] /\ sound' = sound \ {m}
        /\ UNCHANGED <<now, taken, asked>>
    BY <1>5 DEF Reading!SnapshotFails, Reading!NextReading, Reading!server, Reading!found
  <2>2. PICK n \in Nat : n = now + T
    BY <1>0
  <2>3. n >= now
    BY <1>0, <2>2
  <2>4. next' = [next EXCEPT ![m] = n]
    BY <2>1, <2>2
  <2> QED BY <2>1, <2>3, <2>4 DEF ReadingInv
<1>6. ASSUME Reading!BootCheck \/ Reading!HourlyCheck
      PROVE  ReadingInv' /\ (asked' \ asked) \cap sound = {}
  <2>1. asked' = asked \cup Reading!Missing("online") /\ UNCHANGED <<now, next, taken, sound>>
    BY <1>6 DEF Reading!BootCheck, Reading!HourlyCheck, Reading!CheckHour, Reading!agent
  <2> QED BY <2>1, SoundIsNew DEF ReadingInv
<1>7. ASSUME \/ Reading!MailMisses \/ Reading!ServerStops \/ Reading!ServerStarts
             \/ (\E m \in Reader : Reading!GoesSilent(m)) \/ UNCHANGED readingVars
      PROVE  ReadingInv' /\ UNCHANGED asked
  <2>1. UNCHANGED <<now, next, taken, sound, asked>>
    BY <1>7 DEF Reading!MailMisses, Reading!ServerStops, Reading!ServerStarts,
      Reading!GoesSilent, Reading!server, Reading!agent, Reading!found, readingVars
  <2> QED BY <2>1 DEF ReadingInv
<1> QED BY <1>1, <1>2, <1>3, <1>4, <1>5, <1>6, <1>7 DEF Reading!Next

(* A machine all of whose readings came in, the last one dated at most five      *)
(* minutes behind, is never reported for a missing one, whatever the minute at  *)
(* which its agent and the server started and however its clock goes otherwise *)
(* (_checkHour and its 65 minutes against the 60 of hourlySnapshotLoop).       *)
THEOREM NoMissIsFalse == Office => NoFalseMiss
<1>1. Begins => Reading!Init
  BY DEF Begins
<1>2. ReadingInv /\ [Reading!Next]_readingVars => [(asked' \ asked) \cap sound = {}]_Reading!vars
  <2>1. UNCHANGED asked => (asked' \ asked) \cap sound = {}
    OBVIOUS
  <2> QED BY <2>1, ReadingStep
<1>3. ReadingInv /\ [Reading!Next]_readingVars => ReadingInv'
  BY ReadingStep
<1> QED
  BY <1>1, <1>2, <1>3, ReadingStarts, ReadingMoves, PTL
  DEF Office, NoFalseMiss, Reading!NoFalseMiss
=============================================================================
