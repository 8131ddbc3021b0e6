\* One machine, three commands (two of them dr-setup, one from POST /run), one
\* fault: what the queue promises.
CONSTANTS
    m1 = m1
    m2 = m2
    c1 = c1
    c2 = c2
    c3 = c3
    NoCmd = NoCmd
    Machine = {m1}
    Cmd = {c1, c2, c3}
    Dest <- MCDestOne
    DrSetup = {c1, c2}
    RunCmd = {c3}
    MaxClock = 2
    MaxFaults = 1
SPECIFICATION Spec
INVARIANTS
    AtMostOnce
    DrSetupExclusive
PROPERTIES
    ImplementsDelivery
