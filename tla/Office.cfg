\* One machine, store, clock or person where nothing needs two of them.
SPECIFICATION Office
CONSTANTS
  Order = {o1, o2}
  Mapped = {o1}
  MaxRequests = 5
  MaxFaults = 2
  RosterClock = {c1, c2}
  Person = {p}
  Removal = {a}
  EnrolJob = {j1}
  MaxBlind = 1
  MaxRestarts = 1
  ScanClock = {c1}
  ScanJob = {j1, j2}
  MaxSize = 3
  MaxRosterChanges = 1
  MaxMarks = 1
  MaxScanRestarts = 1
  PC = {p, q}
  Id = {i1, i2, i3}
  Host = {h1, h2, h3}
  RegLimit = 1
  MaxAgentTokens = 2
  MaxRenames = 2
  MaxDeletes = 1
  MaxLost = 1
  MaxFails = 1
  Store = {"loja", "loja."}
  FileOf <- MCFileOf
  Topic = {t1, t2}
  Question = {a, b}
  MaxRuns = 1
  MaxDeaths = 1
  Answers <- MCAnswers
  Device = {a}
  SyncJob = {j1, j2}
  MaxSyncs = 3
  MaxChanges = 1
  Employee = {a, b}
  Phone = {p}
  Page = {a, b}
  MaxEntries = 1
  Photo = {a, b}
  MaxUploads = 3
  Machine = {a}
  Run = {p, q}
  MaxEvents = 3
  PromptSize = 1
  Reader = {a}
  T = 3
  D = 2
  MailHour = 1
  Skew <- MCSkew
  MaxTicks = 6
  MaxStops = 2
  Dash = {a}
  MaxTokens = 2
  MaxSwitches = 2
  MaxAsks = 3
  MaxCrashes = 1
  Levels = {60, 90}
  Minutes = {2}
  DrCooldown = 2
  MaxRules = 2
  MaxPasses = 3
  MaxNotices = 1
\* Forms are closed, files written, and the bounds are reached.
CHECK_DEADLOCK FALSE
INVARIANTS
  SuccessMeansGone NoOrphans TablesAgree  OnlySeenIsPassed
  NothingUndone AlarmIsSustained
PROPERTIES
  ImplementsVerdict GoodListKept AnswerLeadsToItsFile TroubleNeverLowersTheScore NoFalseMiss
