CONSTANTS
    Families <- MCLoop
    MaxChecks = 2
SPECIFICATION ReferencesSpec
INVARIANT AcceptedIsSubtype
CHECK_DEADLOCK FALSE
