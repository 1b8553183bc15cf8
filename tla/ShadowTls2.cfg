\* A genuine shadowTLS client or a probe against the v2 server: enough
\* records for the fallback after four application-data records and for the
\* step limit; the decoy answers up to three records.
\* The handshake ends in real mode, fallback or an error: deadlock is not checked.
CONSTANTS
    MaxRecords = 9
    MaxDecoy = 3
SPECIFICATION Spec
INVARIANT AuthRecordHidden FallbackTransparent
CHECK_DEADLOCK FALSE
