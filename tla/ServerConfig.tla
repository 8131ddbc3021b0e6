----------------------------- MODULE ServerConfig -----------------------------
(***************************************************************************)
(* server/config.json: one file, rewritten as a whole, by the switches of the  *)
(* dashboards (routes/settings.js) and by every module that mails through      *)
(* Microsoft Graph and stores the refresh token it is given.  A reader that    *)
(* cannot parse the file goes on as if it were empty.                         *)
(***************************************************************************)
EXTENDS Naturals

CONSTANTS Dash,       \* dashboards
          MaxTokens, MaxSwitches, MaxAsks, MaxCrashes  \* bounds

\* The modules that have a getAccessToken of their own.
Mailer == {"ncr", "nfce", "metrics", "services", "zamak"}

VARIABLES
  file,     \* config.json: Torn, or the refresh token (0: no msGraph) and switches
  asked,    \* the file as a mailer has read it that waits for Microsoft, or None
  issued,   \* refresh tokens that Microsoft has issued
  cached,   \* _tokenCache of the DANFE mailer still holds
  failures, \* health.tokenFailures of the NCR monitor, up to the threshold
  warned,   \* the cooldown of its "Graph Auth" alert runs
  seen,     \* the switches as a dashboard shows them
  request,  \* its PUT on the way, and once served its answer
  last, newest, \* history: the switches last stored, the token last stored
  switches, asks, crashes

vars == <<file, asked, issued, cached, failures, warned, seen, request,
          last, newest, switches, asks, crashes>>

Torn == [torn |-> TRUE]
Switch == {"autoWake", "alerts"}
Settings == [Switch -> BOOLEAN]
Default == [s \in Switch |-> s = "alerts"]   \* what an absent setting means
Whole(token, on) == [torn |-> FALSE, token |-> token, on |-> on]
ALERT_THRESHOLD == 3
NoRequest == [put |-> FALSE]
None == Whole(0, Default)                    \* a file no mailer asks with

Files == {Whole(t, on) : t \in 0..MaxTokens, on \in Settings}

TypeOK ==
  /\ file = Torn \/ file \in Files
  /\ asked \in [Mailer -> Files] /\ issued \in 1..MaxTokens
  /\ cached \in BOOLEAN /\ failures \in 0..ALERT_THRESHOLD
  /\ warned \in BOOLEAN
  /\ seen \in [Dash -> Settings]
  /\ \A d \in Dash : request[d] = NoRequest \/ request[d].switch \in Switch
  /\ last \in Settings /\ newest \in 1..MaxTokens

Init ==
  /\ file = Whole(1, Default) /\ issued = 1
  /\ asked = [m \in Mailer |-> None]
  /\ cached = FALSE /\ failures = 0 /\ warned = FALSE
  /\ seen = [d \in Dash |-> Default]
  /\ request = [d \in Dash |-> NoRequest]
  /\ last = Default /\ newest = 1
  /\ switches = 0 /\ asks = 0 /\ crashes = 0

\* loadGraphConfig, loadConfig: any error reads as nothing.
Token(f) == IF f = Torn THEN 0 ELSE f.token
Settled(f) == IF f = Torn THEN Default ELSE f.on

dashVars == <<seen, request, switches>>
mailVars == <<asked, issued, cached, failures, warned, newest, asks>>

-----------------------------------------------------------------------------
(* A dashboard loads: GET /api/settings.                                      *)
LoadSettings(d) ==
  /\ request[d] = NoRequest
  /\ seen' = [seen EXCEPT ![d] = Settled(file)]
  /\ UNCHANGED <<file, mailVars, request, last, switches, crashes>>

(* toggleAutoWake, toggleOfflineAlerts: the new value is the negation of what  *)
(* this dashboard shows.                                                      *)
Toggle(d, s) ==
  /\ request[d] = NoRequest /\ switches < MaxSwitches
  /\ switches' = switches + 1
  /\ request' = [request EXCEPT
       ![d] = [put |-> TRUE, switch |-> s, value |-> ~seen[d][s], served |-> FALSE]]
  /\ UNCHANGED <<file, mailVars, seen, last, crashes>>

\* loadConfig and the merge: on an unreadable file the switch is all that is left.
Merged(r) == Whole(Token(file), [Settled(file) EXCEPT ![r.switch] = r.value])

(* PUT /api/settings: read, merge and write in one turn of the event loop.     *)
ServePut(d) ==
  LET r == request[d] IN
  /\ r # NoRequest /\ ~r.served
  /\ file' = Merged(r)
  /\ last' = [last EXCEPT ![r.switch] = r.value]
  /\ request' = [request EXCEPT ![d].served = TRUE]
  /\ UNCHANGED <<mailVars, seen, switches, crashes>>

PutAnswered(d) ==
  LET r == request[d] IN
  /\ r # NoRequest /\ r.served
  /\ seen' = [seen EXCEPT ![d][r.switch] = r.value]
  /\ request' = [request EXCEPT ![d] = NoRequest]
  /\ UNCHANGED <<file, mailVars, last, switches, crashes>>

(* The answer does not arrive: the dashboard shows what it showed.            *)
PutFails(d) ==
  /\ request[d] # NoRequest
  /\ request' = [request EXCEPT ![d] = NoRequest]
  /\ UNCHANGED <<file, mailVars, seen, last, switches, crashes>>

-----------------------------------------------------------------------------
(* getAccessToken asks Microsoft with the token it has read.                  *)
Ask(m) ==
  /\ asked[m] = None /\ Token(file) # 0 /\ asks < MaxAsks
  /\ asks' = asks + 1
  /\ asked' = [asked EXCEPT ![m] = file]
  /\ UNCHANGED <<file, issued, cached, failures, warned, dashVars, last, newest, crashes>>

\* Without a token every one of them does nothing, and tells nobody.
NcrTick == Ask("ncr")
SendDanfeEmail == ~cached /\ Ask("nfce")
SendDailyMetricsEmail == Ask("metrics")
SendServiceStatusEmail == Ask("services")
SendSyncEmail == Ask("zamak")

\* The file is read again after the answer, and only its token is replaced; an
\* unreadable file or one without msGraph is left alone.
MutStored(f, read, t) ==  \* mutation: what was read before the answer is written back
  IF t = read.token THEN f ELSE [read EXCEPT !.token = t]

Stored(f, read, t) ==
  IF Token(f) = 0 \/ t = read.token THEN f ELSE [f EXCEPT !.token = t]

(* The token arrives, with a new refresh token or with none.                  *)
Granted(m) ==
  /\ asked[m] # None
  /\ \E t \in {asked[m].token, issued + 1} \cap 1..MaxTokens :
       /\ issued' = IF t > issued THEN t ELSE issued
       /\ file' = Stored(file, asked[m], t)
       /\ newest' = IF Token(file) = 0 \/ t = asked[m].token THEN newest ELSE t
  /\ asked' = [asked EXCEPT ![m] = None]
  /\ cached' = (cached \/ m = "nfce")
  /\ failures' = IF m = "ncr" THEN 0 ELSE failures
  /\ UNCHANGED <<warned, dashVars, last, asks, crashes>>

(* Microsoft refuses: getTokenTracked counts, and from the third time in a row *)
(* on sends the alert "Graph Auth", which the switch and a cooldown may hold   *)
(* back.                                                                      *)
Refused(m) ==
  /\ asked[m] # None
  /\ asked' = [asked EXCEPT ![m] = None]
  /\ failures' = IF m = "ncr" /\ failures < ALERT_THRESHOLD THEN failures + 1 ELSE failures
  /\ warned' = (warned \/ (m = "ncr" /\ failures' = ALERT_THRESHOLD /\ Settled(file)["alerts"]))
  /\ UNCHANGED <<file, issued, cached, dashVars, last, newest, asks, crashes>>

TimePasses ==
  /\ cached \/ warned
  /\ cached' = FALSE /\ warned' = FALSE
  /\ UNCHANGED <<file, asked, issued, failures, dashVars, last, newest,
                 asks, crashes>>

(* The server is killed while it writes the file, for a PUT or for a token.    *)
DiesInWrite ==
  /\ crashes < MaxCrashes /\ crashes' = crashes + 1
  /\ \/ \E d \in Dash : request[d] # NoRequest /\ ~request[d].served
     \/ Token(file) # 0 /\ \E m \in Mailer : asked[m] # None
  /\ file' = Torn
  /\ asked' = [m \in Mailer |-> None] /\ cached' = FALSE /\ failures' = 0 /\ warned' = FALSE
  /\ UNCHANGED <<issued, dashVars, last, newest, asks>>

Next ==
  \/ \E d \in Dash : LoadSettings(d) \/ ServePut(d) \/ PutAnswered(d) \/ PutFails(d)
  \/ \E d \in Dash, s \in Switch : Toggle(d, s)
  \/ NcrTick \/ SendDanfeEmail \/ SendDailyMetricsEmail \/ SendServiceStatusEmail
  \/ SendSyncEmail
  \/ \E m \in Mailer : Granted(m) \/ Refused(m)
  \/ TimePasses
  \/ DiesInWrite

Spec == Init /\ [][Next]_vars

-----------------------------------------------------------------------------
(* Nothing that was stored is undone by another writer: as long as no write is *)
(* cut short, the file holds the switches as they were last stored and the     *)
(* token that was last stored, although each writer rewrites the whole file    *)
(* and mailers wait for Microsoft between reading and writing.                 *)
NothingUndone == crashes = 0 => file = Whole(newest, last)

=============================================================================
