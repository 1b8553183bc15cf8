\* Any TCP segmentation of the client writes, against the Trojan server
\* (TCP, UDP and mux clients, probes) and an HTTP proxy server without
\* users; a handshake ends, a UDP stream then waits for more packets.
CONSTANTS
    Segmentation = "any"
    ReadMaxLen = 1500
    HttpAuth = FALSE
    UdpSizes = {1, 2}
    SocksAtyps = {"ipv4"}
    Nil = Nil
SPECIFICATION Spec
INVARIANT NoProbeAccepted SuccessKeepsPayload UdpFramesIntact SocksUdpIntact SsAddrRoundTrip
    UrlRoundTrip
CHECK_DEADLOCK FALSE
