\* A store of two machines of which one is asked for, tested and cut off, with two
\* faults, and one session of remote access.
SPECIFICATION FairReturns
CONSTANTS
    s1 = s1
    m1 = m1
    m2 = m2
    store = store
    NoSession = NoSession
    Machine = {m1, m2}
    Site <- MCSite
    OfflineAfter = 0
    TestLimit = 1
    WakeAfter = 2
    AlertSwitch = {TRUE}
    AutoWakeSwitch = {TRUE}
    Subject = {m1}
    MaxAsked = 1
    MaxFaults = 2
\* Once every window is closed, every session ended and every command
\* delivered there is nothing left to do.
CHECK_DEADLOCK FALSE
INVARIANTS
    BlockedMeansOwner
    OneMailPerOutage
PROPERTIES
    OperatorGoneUnlocks
    StopEndsSession
    SilentGoesOffline
    TestsConclude
    ConfirmedMeansHeard
    WakesOnlyTheSilent
