\* Checks CleanSwitch alone; the handshake may end, so deadlock is not checked.
CONSTANTS
    MaxRecords = 5
    MaxDecoy = 3
SPECIFICATION Spec
INVARIANT CleanSwitch
CHECK_DEADLOCK FALSE
