\* Two users, two faults of companion and service, two switches of session.  A
\* dead process is used again: a launch waits while both are alive or dying.
SPECIFICATION FairSpec
CONSTANTS
    c1 = c1
    c2 = c2
    u1 = u1
    u2 = u2
    None = None
    Slot = {c1, c2}
    User = {u1, u2}
    MaxBackoff = 3
    MaxFailures = 3
    MaxSwitches = 2
    MaxFaults = 2
\* A stopped service does nothing any more.
CHECK_DEADLOCK FALSE
INVARIANTS
    OneCompanion
PROPERTIES
    LaunchesAreApart
    UserIsServed
