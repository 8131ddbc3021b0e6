SPECIFICATION FairServices
CONSTANTS
  c1 = c1
  c2 = c2
  m1 = m1
  MaxVersion = 2
  MaxCommands = 2
  MaxCuts = 1
  MaxRefusals = 2
  Clock = {c1, c2, c3}
  MaxSlots = 2
  MaxPending = 2
  Machine = {m1}
  Cmd = {c1, c2}
  Dest <- MCDest
  DrSetup = {c1}
  RunCmd = {c2}
  NoCmd = none
  MaxClock = 2
  MaxFaults = 0
  MaxJobs = 3
  MaxList = 2
  Cooldown = 2
  MaxRefused = 2
  MaxRestarts = 1
  Biller = {m1}
  Listed = 1
  MaxDays = 2
  MaxTriggers = 2
  MaxLooks = 2
  MaxErrors = 1
  MaxRecordings = 2
  MaxCloses = 3
  MaxFailures = 2
  PC = {p, q}
  Id = {i1, i2, i3}
  Host = {h1, h2, h3}
  RegLimit = 1
  MaxTokens = 3
  MaxRenames = 0
  MaxDeletes = 1
  MaxLost = 1
  MaxFails = 1
  Viewed = {p, q}
  Dash = {d}
  Group = {"loja"}
  MaxChanges = 2
  MaxLists = 2
CHECK_DEADLOCK FALSE
INVARIANTS ServiceHasExe NoRecordingIsLost
PROPERTIES EveryCommandAnswered QueueMoves SyncEnds UpdateArrives OutageIsMailed
  AgentReturns ViewCatchesUp BarComesToAnEnd WindowCloses
