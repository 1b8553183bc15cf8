\* One direction of a lazy-TLS session across the switch to raw bytes,
\* received by either endpoint, when each raw read holds at most one TLS record.
\* The session ends once every chunk is forwarded, so deadlock is not checked.
CONSTANTS
    ReadModel = "record"
    MaxChunks = 4
    SC = SC
SPECIFICATION Spec
INVARIANT StreamIntact
PROPERTY Delivery
CHECK_DEADLOCK FALSE
