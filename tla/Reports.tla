------------------------------- MODULE Reports -------------------------------
(***************************************************************************)
(* The monthly report of a store (routes/relatorio.js, services/reportEngine  *)
(* .js, services/freshdesk.js and the tables behind them): the topics that    *)
(* TI writes down, moves, copies and resolves, the cache of Freshdesk         *)
(* tickets, and POST /generate, which waits for Freshdesk, for Claude and for *)
(* the DOCX before it saves a run.  One month; the score is in RiskScore.     *)
(*                                                                         *)
(* The file of a report has the name of the store and the month: FileOf is    *)
(* safeName, which strips characters and cuts at 60, so that two stores may   *)
(* have one name.  The PDF beside it is left out.                             *)
(*                                                                         *)
(* From the writing of the DOCX to the answer no other request runs: soffice  *)
(* is called with execFileSync and all that follows it is synchronous.  Only  *)
(* a stop of the process can come in between.                                *)
(***************************************************************************)
EXTENDS Integers, Sequences, FiniteSets

CONSTANTS Store, Topic, Request,
          FileOf,    \* the name of the file of a store
          MaxRuns,   \* bound: rows of report_runs
          MaxDeaths  \* bound: stops of the process

Unborn == "not created"
Gone   == "resolved"
Unsaved == -1  \* a DOCX whose run was never saved

VARIABLES
  topic,    \* report_topics: the store of a topic
  history,  \* report_topics_history: number of rows of a topic
  fresh,    \* stores whose rows in freshdesk_cache are younger than cache_hours
  runs,     \* report_runs: the store of a run
  recent,   \* runs younger than REPORT_DEDUP_WINDOW_MIN
  docx,     \* downloads/relatorios: the run whose text a file holds
  request,  \* POST /generate under way: where it is, store, ctx.openTopics, its answer
  mailed,   \* topics named in the last e-mails on inconclusive topics
  deaths

reports == <<runs, recent, docx, mailed>>
vars    == <<topic, history, fresh, reports, request, deaths>>

Idle == [at |-> "idle", store |-> "none", open |-> {}, answer |-> 0]

Files  == {FileOf[s] : s \in Store}
Places == {"idle", "sync", "claude", "build"}

TypeOK ==
  /\ topic \in [Topic -> Store \cup {Unborn, Gone}]
  /\ history \in [Topic -> Nat]
  /\ fresh \subseteq Store
  /\ Len(runs) <= MaxRuns + Cardinality(Request)
  /\ recent \subseteq DOMAIN runs
  /\ docx \in [Files -> Int] /\ mailed \subseteq Topic
  /\ \A r \in Request : request[r].at \in Places /\ request[r].open \subseteq Topic

Init ==
  /\ topic = [t \in Topic |-> Unborn] /\ history = [t \in Topic |-> 0]
  /\ fresh = {}
  /\ runs = <<>> /\ recent = {} /\ docx = [f \in Files |-> 0] /\ mailed = {}
  /\ request = [r \in Request |-> Idle]
  /\ deaths = 0

Open(s) == {t \in Topic : topic[t] = s}

-----------------------------------------------------------------------------
(* The topics.  Each handler is synchronous.                                  *)
CreateTopic(t, s) ==
  /\ topic[t] = Unborn
  /\ topic' = [topic EXCEPT ![t] = s]
  /\ UNCHANGED <<history, fresh, reports, request, deaths>>

MoveTopic(t, s) ==
  /\ topic[t] \in Store
  /\ topic' = [topic EXCEPT ![t] = s]
  /\ UNCHANGED <<history, fresh, reports, request, deaths>>

(* One transaction for all target stores.                                     *)
ReplicateTopic(t, u, s) ==
  /\ topic[t] \in Store /\ topic[u] = Unborn
  /\ topic' = [topic EXCEPT ![u] = s]
  /\ UNCHANGED <<history, fresh, reports, request, deaths>>

(* The row of the history first, then the delete; no transaction.             *)
Archive(t) ==
  /\ topic[t] \in Store
  /\ history' = [history EXCEPT ![t] = @ + 1]

ResolveTopic(t) ==
  /\ Archive(t)
  /\ topic' = [topic EXCEPT ![t] = Gone]
  /\ UNCHANGED <<fresh, reports, request, deaths>>

Reborn ==
  /\ deaths < MaxDeaths /\ deaths' = deaths + 1
  /\ request' = [r \in Request |-> Idle]

(* A stop between the two statements.                                         *)
DiesInResolve(t) ==
  /\ Archive(t)
  /\ Reborn
  /\ UNCHANGED <<topic, fresh, reports>>

-----------------------------------------------------------------------------
(* The report.                                                               *)
Recent(s) == {n \in recent : runs[n].store = s}

(* Bug: no ORDER BY generated_at DESC.                                        *)
MutOldest(ids) == CHOOSE n \in ids : \A m \in ids : m >= n

Newest(ids) == CHOOSE n \in ids : \A m \in ids : m <= n

(* buildCachedResponse: the saved run, and the file that bears its name.      *)
CachedAnswer(r, s) ==
  request' = [request EXCEPT ![r] = [Idle EXCEPT !.store = s, !.answer = Newest(Recent(s))]]

Starts(r, s) == request[r].at = "idle" /\ Recent(s) = {} /\ Len(runs) < MaxRuns

(* buildStoreContext reads everything at once, and the prompt goes out.       *)
AskClaude(r, s) ==
  request' = [request EXCEPT ![r] =
                [Idle EXCEPT !.at = "claude", !.store = s, !.open = Open(s)]]

(* POST /generate: a recent run, or one with tickets that are fresh enough, or *)
(* one that begins with a sync.                                              *)
GenerateCached(r, s) ==
  /\ request[r].at = "idle" /\ Recent(s) # {}
  /\ CachedAnswer(r, s)
  /\ UNCHANGED <<topic, history, fresh, reports, deaths>>

Generate(r, s) ==
  /\ Starts(r, s)
  /\ \/ s \in fresh /\ AskClaude(r, s)
     \/ /\ s \notin fresh
        /\ request' = [request EXCEPT ![r] = [Idle EXCEPT !.at = "sync", !.store = s]]
  /\ UNCHANGED <<topic, history, fresh, reports, deaths>>

(* syncAll: the rows of the stores that have tickets are new.  A failure is    *)
(* logged and forgotten.                                                      *)
SyncAll == \E some \in SUBSET Store : fresh' = fresh \cup some

Synced(r) ==
  /\ request[r].at = "sync"
  /\ SyncAll
  /\ AskClaude(r, request[r].store)
  /\ UNCHANGED <<topic, history, reports, deaths>>

(* No key, no credit, a truncated or an unreadable text, a document that        *)
(* cannot be packed: status 500.                                             *)
ClaudeFails(r) ==
  /\ request[r].at = "claude"
  /\ request' = [request EXCEPT ![r] = Idle]
  /\ UNCHANGED <<topic, history, fresh, reports, deaths>>

ClaudeAnswers(r) ==
  /\ request[r].at = "claude"
  /\ request' = [request EXCEPT ![r].at = "build"]
  /\ UNCHANGED <<topic, history, fresh, reports, deaths>>

(* The file has the name of the store and the month, not of the run.          *)
WriteDocx(r, text) == docx' = [docx EXCEPT ![FileOf[request[r].store]] = text]

SaveRun(r) ==
  /\ runs' = Append(runs, [store |-> request[r].store])
  /\ recent' = recent \cup {Len(runs) + 1}

(* notifyInconclusiveTopics: of the ids that Claude names, those of the        *)
(* context.                                                                  *)
NotifyInconclusive(r) == mailed' \in SUBSET request[r].open

(* The buffer is packed: DOCX, PDF, run, e-mails and answer.                  *)
FinishReport(r) ==
  /\ request[r].at = "build"
  /\ WriteDocx(r, Len(runs) + 1) /\ SaveRun(r) /\ NotifyInconclusive(r)
  /\ request' = [request EXCEPT ![r] =
                   [Idle EXCEPT !.store = request[r].store, !.answer = Len(runs) + 1]]
  /\ UNCHANGED <<topic, history, fresh, deaths>>

(* saveReportRun fails when the file is written already: status 500.          *)
SaveFails(r) ==
  /\ request[r].at = "build"
  /\ WriteDocx(r, Unsaved)
  /\ request' = [request EXCEPT ![r] = Idle]
  /\ UNCHANGED <<topic, history, fresh, runs, recent, mailed, deaths>>

(* A stop while soffice converts the file (30 s).                             *)
DiesInSoffice(r) ==
  /\ request[r].at = "build"
  /\ WriteDocx(r, Unsaved)
  /\ Reborn
  /\ UNCHANGED <<topic, history, fresh, runs, recent, mailed>>

Dies == Reborn /\ UNCHANGED <<topic, history, fresh, reports>>

-----------------------------------------------------------------------------
(* Time, and the tickets of Freshdesk.                                        *)
HalfAnHour ==
  /\ recent # {} /\ recent' = {}
  /\ UNCHANGED <<topic, history, fresh, runs, docx, mailed, request, deaths>>

CacheExpires(s) ==
  /\ fresh' = fresh \ {s} /\ s \in fresh
  /\ UNCHANGED <<topic, history, reports, request, deaths>>

(* GET /stores?force=true, GET /freshdesk/:store, GET /freshdesk-debug.        *)
LookAtTickets ==
  /\ SyncAll
  /\ UNCHANGED <<topic, history, reports, request, deaths>>

Next ==
  \/ \E t \in Topic, s \in Store : CreateTopic(t, s) \/ MoveTopic(t, s)
  \/ \E t, u \in Topic, s \in Store : ReplicateTopic(t, u, s)
  \/ \E t \in Topic : ResolveTopic(t) \/ DiesInResolve(t)
  \/ \E r \in Request, s \in Store : GenerateCached(r, s) \/ Generate(r, s)
  \/ \E r \in Request :
       \/ Synced(r) \/ ClaudeFails(r) \/ ClaudeAnswers(r)
       \/ FinishReport(r) \/ SaveFails(r) \/ DiesInSoffice(r)
  \/ Dies \/ HalfAnHour \/ LookAtTickets
  \/ \E s \in Store : CacheExpires(s)

Spec == Init /\ [][Next]_vars

-----------------------------------------------------------------------------

(* What the file of an answer shows when the answer is given, and later.       *)
FileIsTheAnswers ==
  \A r \in Request :
    LET answer == request'[r].answer
        store  == request'[r].store
        text   == docx'[FileOf[store]]
    IN  answer # 0 /\ text # Unsaved
          => /\ text >= answer /\ FileOf[runs'[text].store] = FileOf[store]
             /\ answer # request[r].answer
                  => text = answer \/ runs'[text].store # store

(* The file an answer leads to, fresh or from the deduplication                *)
(* (buildCachedResponse, "nunca a row crua do banco"), is the report answered, *)
(* although every report of the store is written to the same file and several *)
(* may be under way.  Two things may be there instead: a newer report of      *)
(* another store whose name gives the same file, and a text whose run could   *)
(* not be saved.  As long as the answer is kept, the file is never that of an *)
(* older report, and of another store only by its name.                       *)
AnswerLeadsToItsFile == [][FileIsTheAnswers]_vars

=============================================================================
