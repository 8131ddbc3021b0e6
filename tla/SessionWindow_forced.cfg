\* One stop may fail.
SPECIFICATION Spec
CONSTANTS
    MaxRecordings = 1
    MaxCloses = 1
    MaxFailures = 1
INVARIANT ForcedOnlyIfDead
\* A window that is closed does nothing any more.
CHECK_DEADLOCK FALSE
