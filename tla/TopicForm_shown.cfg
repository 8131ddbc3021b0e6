\* Three photos may be chosen twice.
SPECIFICATION Spec
CONSTANTS
    Photo = {a, b, c}
    MaxUploads = 3
PROPERTY ShownIsSaved
CHECK_DEADLOCK FALSE
