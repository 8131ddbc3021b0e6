\* A normal and a shadow session on one machine, one fault of any kind, and
\* BlockInput may fail.
CONSTANTS
    s1 = s1
    s2 = s2
    NoSession = NoSession
    Session = {s1, s2}
    Shadow = {s2}
    BlockResults = {TRUE, FALSE}
    LossyCommands = TRUE
    MaxToggles = 2
    MaxFaults = 1
\* Once every window is closed, every session ended and every command
\* delivered there is nothing left to do.
CHECK_DEADLOCK FALSE
SPECIFICATION Spec
INVARIANTS
    LockOwnerIsRunning
    OwnerMeansBlocked
