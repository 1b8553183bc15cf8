\* One direction of a lazy-TLS session received by either endpoint, when a raw
\* read may return any run of the bytes sent so far.
CONSTANTS
    ReadModel = "any"
    MaxChunks = 3
    SC = SC
SPECIFICATION Spec
INVARIANT StreamIntact
CHECK_DEADLOCK FALSE
