\* Two normal sessions on one machine take the lock from each other; BlockInput
\* may fail, commands may be lost, and nothing but the failsafe is sure to run.
CONSTANTS
    s1 = s1
    s2 = s2
    NoSession = NoSession
    Session = {s1, s2}
    Shadow = {}
    BlockResults = {TRUE, FALSE}
    LossyCommands = TRUE
    MaxToggles = 2
    MaxFaults = 0
\* Once every window is closed, every session ended and every command
\* delivered there is nothing left to do.
CHECK_DEADLOCK FALSE
SPECIFICATION FailsafeSpec
PROPERTIES
    LockIsBounded
