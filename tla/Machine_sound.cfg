\* A plain, a tun and a tproxy server, one client, and the interactive
\* mode's own lists beside the machine: does every holder of servers keep
\* every Stop and removal safe and every open listener in its hands?
CONSTANTS
    Srv = {s1, s2, s3}
    TunSrv = {s2}
    TproxySrv = {s3}
    Cli = {c1}
    MaxListeners = 5
    ListenMayFail = TRUE
    TproxyNet = "dual"
    ISrv = {t1, t2}
    ICli = {d1}
SPECIFICATION RuntimeSpec
INVARIANT RuntimeSound
CHECK_DEADLOCK FALSE
