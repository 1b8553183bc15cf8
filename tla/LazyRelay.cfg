\* Client endpoint; a session runs with secure mode off or on.  Off, both
\* directions sniff, W may hit the recorder index error and rawWRC may be
\* nil; on, the remote TLS dial is deferred to R's first read and handed to
\* W over waitWRC_CreateChan.
CONSTANTS
    IsClient = TRUE
    SecureModes = {FALSE, TRUE}
    MaxChunks = 2
SPECIFICATION Spec
\* A finished session is a final state of the relay.
CHECK_DEADLOCK FALSE
INVARIANT NoReadBeforeDial
PROPERTY PlainTermination
