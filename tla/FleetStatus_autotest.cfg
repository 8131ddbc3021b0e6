\* The status of an auto-wake attempt is overwritten by the heartbeat of the
\* machine it woke.
CONSTANTS
    m1 = m1
    m2 = m2
    store = store
    Machine = {m1, m2}
    Site <- MCSite
    OfflineAfter = 0
    TestLimit = 1
    WakeAfter = 2
    AlertSwitch = {TRUE}
    AutoWakeSwitch = {TRUE}
    Subject = {m1}
    MaxAsked = 1
    MaxFaults = 1
SPECIFICATION Spec
PROPERTIES
    AutoTestReturns
