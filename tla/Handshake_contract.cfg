\* Any TCP segmentation, an HTTP proxy server with a user: is every
\* handshake that read bytes accepted with its payload (genuine) or a
\* fallback carrying the bytes read (anything else)?  Does a Trojan UDP
\* association survive an empty datagram?
CONSTANTS
    Segmentation = "any"
    ReadMaxLen = 1500
    HttpAuth = TRUE
    UdpSizes = {0, 1}
    SocksAtyps = {"ipv4", "ipv6"}
    Nil = Nil
SPECIFICATION Spec
INVARIANT HandshakeContract
CHECK_DEADLOCK FALSE
