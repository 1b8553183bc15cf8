\* Client endpoint in secure mode: does the session still end once the
\* remote has closed?
CONSTANTS
    IsClient = TRUE
    SecureModes = {TRUE}
    MaxChunks = 2
SPECIFICATION Spec
\* The stuck state is what Termination reports; as a deadlock it would be
\* reported first and hide the property.
CHECK_DEADLOCK FALSE
PROPERTY Termination
