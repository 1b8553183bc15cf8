\* Three plain servers and one client; ListenSer may fail; up to five
\* listeners over the behaviour.  The machine may sit idle.
CONSTANTS
    Srv = {s1, s2, s3}
    TunSrv = {}
    TproxySrv = {}
    Cli = {c1}
    MaxListeners = 5
    ListenMayFail = TRUE
    TproxyNet = "dual"
SPECIFICATION Spec
INVARIANT StoppedIsQuiet
CHECK_DEADLOCK FALSE
