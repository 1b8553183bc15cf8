--------------------------- MODULE Handshake ---------------------------------
(***************************************************************************)
(* The two inbound handshakes that can fall back to a decoy: the Trojan   *)
(* server (Server.Handshake, proxy/trojan/server.go) and the HTTP proxy   *)
(* server (Server.Handshake, proxy/http/server.go).  Each connection      *)
(* meets one of them.                                                      *)
(*                                                                         *)
(* Trojan reads the connection into one buffer until a chunk it just read *)
(* contains CRLF at an index above 0 (or the buffer is full), then parses *)
(* hash, CRLF, command, address and CRLF out of what it read.  A parse    *)
(* failure is a fallback (utils.ErrBuffer holding every byte read); a     *)
(* read error, or fewer than 17 bytes, is a plain error.  On success the  *)
(* rest of the buffer is served before the connection.                    *)
(*                                                                         *)
(* HTTP reads once, n bytes, parses the request, checks the               *)
(* Proxy-Authorization header when a user is configured, and returns the  *)
(* connection for CONNECT, or for GET a ProxyConn that first replays      *)
(* bs[:n]; every error after the read is wrapped, by a deferred function, *)
(* into an ErrBuffer holding bs[:n].                                       *)
(*                                                                         *)
(* Bytes are abstracted to classes, at their real positions: "H" a byte  *)
(* of a registered user's hash, "X" a byte of another hash, "C" CR, "L"  *)
(* LF, "A" a byte of a well-formed address, "D" payload, "G" text; "K"   *)
(* and "T" start a CONNECT and a GET request line, "a" and "u" are bytes  *)
(* of an authority and of an absolute URL, "B" and "W" of a              *)
(* Proxy-Authorization header with the right and a wrong user:pass, "h"  *)
(* of another header; a command byte is its value.  The client writes     *)
(* its message in given writes; Segmentation says what a Read may return. *)
(***************************************************************************)
EXTENDS Naturals, Sequences, SequencesExt, SsAddr, UrlConf

CONSTANTS
    Segmentation,  \* "writes": a Read returns whole writes; "any": any bytes
    ReadMaxLen,    \* readMaxLen (utils.MTU)
    HttpAuth,      \* the HTTP server has a user configured (UserPass.Valid)
    UdpSizes,      \* payload lengths of the UDP packets a Trojan client relays
    SocksAtyps     \* address types a SOCKS5 server puts in its CONNECT reply

ASSUME Segmentation \in {"writes", "any"} /\ ReadMaxLen \in Nat
ASSUME HttpAuth \in BOOLEAN /\ UdpSizes \subseteq 0..2
ASSUME SocksAtyps \subseteq {"ipv4", "ipv6"}

passStrLen == 56                \* hex SHA-224
MinHttpLen == 17                \* "HTTP的最小长度"
AddrLen    == 7                 \* ATYP IPv4, 4 bytes, port
CmdConnect == "0x01"
CmdUDPAssociate == "0x03"
CmdMux     == "0x7f"
CRLF       == <<"C", "L">>

Rep(c, n) == [i \in 1..n |-> c]

(* hash CRLF cmd addr CRLF                                                 *)
Header(h, cmd) == Rep(h, passStrLen) \o CRLF \o <<cmd>> \o Rep("A", AddrLen) \o CRLF
HeaderLen == passStrLen + 2 + 1 + AddrLen + 2

(* The byte values a length field takes; a byte of any other class is   *)
(* read as a value above every packet size.                               *)
HexByte == <<"0x00", "0x01", "0x02">>
ByteNum(b) == IF \E i \in 1..3 : HexByte[i] = b
                THEN CHOOSE i \in 0..2 : HexByte[i + 1] = b ELSE 99

(* UDPConn.WriteMsgTo: ATYP, address and port, the length as two bytes,  *)
(* CRLF, the payload.                                                      *)
Frame(p) == Rep("A", AddrLen) \o <<"0x00", HexByte[Len(p) + 1]>> \o CRLF \o p

(* A Trojan UDP client's writes: WriteMsgTo sends its handshakeBuf, the   *)
(* header, in front of the first frame, and each later frame alone.       *)
UdpWrites(ps) == << Header("H", CmdUDPAssociate) \o Frame(ps[1]) >>
                 \o [i \in 1..(Len(ps) - 1) |-> Frame(ps[i + 1])]

(* Two packets, told apart by their payload bytes.                        *)
UdpPackets == { << Rep("p", a), Rep("q", b) >> : a, b \in UdpSizes }

(* What clients send, as the sequence of their writes.                    *)
TrojanGenuine == {
    << Header("H", CmdConnect) \o Rep("D", 2), Rep("D", 2) >>,
    << Header("H", CmdMux) \o Rep("D", 1) >> }
TrojanProbes == {
    << Header("X", CmdConnect) \o Rep("D", 2) >>,           \* wrong password
    << Header("H", "0x09") >>,                                   \* unknown command
    << Rep("G", 14) \o CRLF \o Rep("G", 10) \o CRLF >>,     \* an HTTP request
    << Rep("G", 14) \o CRLF >>,                             \* HTTP/0.9-sized
    << Rep("G", 20) >> }                                    \* random bytes

(* An HTTP proxy request: request line, the credentials header when one  *)
(* is given, another header, and the empty line.                         *)
ReqLine(m, t) == <<m>> \o Rep(t, 8) \o CRLF
HttpReq(m, t, auth) ==
    ReqLine(m, t) \o (IF auth = "none" THEN << >> ELSE Rep(auth, 12) \o CRLF)
    \o Rep("h", 6) \o CRLF \o CRLF
CredLen == 9                    \* len("user:pass") after base64 decoding

Cred == IF HttpAuth THEN "B" ELSE "none"
HttpGenuine == {
    << HttpReq("K", "a", Cred) >>,                          \* CONNECT host:port
    << HttpReq("T", "u", Cred) >> }                         \* GET http://host/
HttpProbes ==
    { << Rep("G", 20) >> } \cup
    IF HttpAuth THEN { << HttpReq("T", "u", "W") >>,         \* wrong password
                       << HttpReq("K", "a", "none") >> }     \* no credentials
                ELSE {}

(* The SOCKS5 client (Client.Handshake and Client_EstablishUDPAssociate, *)
(* proxy/socks5) meets a SOCKS5 server.  Its configurations: with or     *)
(* without user and password, CONNECT or UDP ASSOCIATE (never with auth). *)
SocksClients == [auth : BOOLEAN, cmd : {"connect"}] \cup [auth : {FALSE}, cmd : {"udp"}]
V5 == "0x05"
SocksMethod(c) == IF c.auth THEN "0x02" ELSE "0x00"   \* AuthPassword, AuthNone

(* A reply: VER REP RSV ATYP BND.ADDR BND.PORT.  "zero" is the reply to  *)
(* UDP ASSOCIATE the spec prescribes, IPv4 0.0.0.0 and a port.            *)
SocksReply(atyp) ==
    CASE atyp = "ipv4" -> <<V5, "0x00", "0x00", "0x01">> \o Rep("A", 6)
      [] atyp = "ipv6" -> <<V5, "0x00", "0x00", "0x04">> \o Rep("A", 18)
      [] atyp = "zero" -> <<V5, "0x00", "0x00", "0x01">> \o Rep("0x00", 4) \o Rep("A", 2)

(* What a server writes to client c, one write per reply, each sent once *)
(* the request it answers has arrived, then the target's data.           *)
SocksServer(c, atyp) ==
    << <<V5, SocksMethod(c)>> >>
    \o (IF c.auth THEN << <<"0x01", "0x00">> >> ELSE << >>)
    \o << SocksReply(atyp) >>
    \o (IF c.cmd = "connect" THEN << Rep("D", 2), Rep("D", 1) >> ELSE << >>)
SocksGenuine(c) ==
    IF c.cmd = "udp" THEN { SocksServer(c, "zero") }
                     ELSE { SocksServer(c, a) : a \in SocksAtyps }
SocksRefusals(c) ==
    { << <<V5, "0xff">> >>,                                 \* no acceptable method
      << <<V5, SocksMethod(c)>> >>
      \o (IF c.auth THEN << <<"0x01", "0x00">> >> ELSE << >>)
      \o << <<V5, "0x05", "0x00", "0x01">> \o Rep("A", 6) >> } \* request refused
    \cup IF c.auth THEN { << <<V5, "0x02">>, <<"0x01", "0x01">> >> } ELSE {}

(* A gRPC client over h2c (grpcSimple server): the client preface with   *)
(* its SETTINGS ("S") in one write, then a request: "Q", the path ("s"  *)
(* the service's, "o" another), the content type ("g" application/grpc, *)
(* "j" another), and body bytes.                                          *)
prefaceLen == 24                \* len(http2.ClientPreface)
Preface == Rep("P", prefaceLen)
GrpcReq(path, ct) == <<"Q", path, ct>> \o Rep("D", 2)
GrpcGenuine == { << Preface \o <<"S">>, GrpcReq("s", "g") >> }
GrpcProbes ==
    { << Rep("G", 20) >>,                                    \* HTTP/1 request
      << Preface \o <<"S">>, GrpcReq("o", "g") >>,           \* wrong path
      << Preface \o <<"S">>, GrpcReq("s", "j") >> }          \* wrong type

(* Client_RequestUDP: RSV RSV FRAG, ATYP, the address, the port as two  *)
(* bytes ("o"), the data; a SOCKS5 server relays its answers to the      *)
(* client's UDP socket in the same structure, a domain as its length    *)
(* byte and name.                                                         *)
AtypByte  == [ipv4 |-> "0x01", ipv6 |-> "0x04", domain |-> "0x03"]
AddrBytes == [ipv4 |-> Rep("A", 4), ipv6 |-> Rep("A", 16),
              domain |-> <<"0x02">> \o Rep("n", 2)]
UdpTarget(t) == <<AtypByte[t]>> \o AddrBytes[t] \o <<"o", "o">>
UdpDatagram(t, data) == <<"0x00", "0x00", "0x00">> \o UdpTarget(t) \o data

(* Datagrams the client's UDP socket may receive: whole answers from the *)
(* server's port, one from another source, one cut before its port, a    *)
(* fragment (FRAG 1).                                                     *)
SocksDatagrams ==
    [src : {"server"}, kind : {"whole"}, t : {"ipv4", "ipv6", "domain"},
     data : {<<"D">>}]
    \cup [src : {"other"}, kind : {"whole"}, t : {"ipv4"}, data : {<<"D">>}]
    \cup [src : {"server"}, kind : {"truncated", "fragment"}, t : {"ipv4"},
          data : {<<"D">>}]
Bytes(g) == CASE g.kind = "whole"     -> UdpDatagram(g.t, g.data)
              [] g.kind = "truncated" -> SubSeq(UdpDatagram(g.t, g.data), 1, 8)
              [] OTHER -> <<"0x00", "0x00", "0x01">> \o UdpTarget(g.t) \o g.data

Genuine == UNION { SocksGenuine(c) : c \in SocksClients }
           \cup TrojanGenuine \cup HttpGenuine \cup GrpcGenuine
           \cup { UdpWrites(ps) : ps \in UdpPackets }

Flat(ws) == FoldLeft(LAMBDA acc, w : acc \o w, << >>, ws)

VARIABLES
    proto,    \* the handshake: "trojan", "http" or "grpc" server, "socks5" client
    client,   \* the SOCKS5 client's configuration, "none" for the others
    writes,   \* the client's writes
    nw,       \* writes sent so far
    whole,    \* wholeReadLen
    pc,       \* "loop", "parse", "serve" (gRPC), "done";
              \* SOCKS5: "greet", "auth", "req", "done"
    result,   \* "tcp", "udp", "mux", "connect", "get", "socks", "associate",
              \* "grpc", "fallback", "h2fallback", "error"
    fbBuf,    \* the ErrBuffer's bytes on fallback
    relayIn,  \* on success: what the returned conn yields, buffer then socket
    pkts,     \* the UDP packets of a Trojan UDP client, << >> for others
    uoff,     \* bytes of relayIn that UDPConn.ReadMsgFrom has consumed
    delivered,\* payloads ReadMsgFrom returned, in order
    ustate,   \* "open", or "invalid" once ReadMsgFrom failed
    dgram,    \* SOCKS5 UDP: the last datagram read and what it gave
    ssRead,   \* shadowsocks: the packet GetAddrFrom read and what it gave
    sclosed,  \* grpcSimple: the Server's closed field
    gconn,    \* grpcSimple: the underlay "new", in the ConnList "listed", or "closed"
    gstop,    \* grpcSimple: Server.Stop has run during this connection
    urlRead   \* URL format: the conf written, its URL and what reading it gave

udpVars == <<pkts, uoff, delivered, ustate, dgram, ssRead>>
srvVars == <<sclosed, gconn, gstop>>
vars == <<proto, client, writes, nw, whole, pc, result, fbBuf, relayIn, udpVars, srvVars, urlRead>>

Stream == Flat(writes)
Sent    == Flat(SubSeq(writes, 1, nw))
Bound(k) == \E i \in 0..nw : Len(Flat(SubSeq(writes, 1, i))) = k

Init ==
    /\ \/ proto = "trojan" /\ writes \in TrojanGenuine \cup TrojanProbes /\ pkts = << >>
       \/ proto = "trojan" /\ pkts \in UdpPackets /\ writes = UdpWrites(pkts)
       \/ proto = "http" /\ writes \in HttpGenuine \cup HttpProbes /\ pkts = << >>
       \/ proto = "grpc" /\ writes \in GrpcGenuine \cup GrpcProbes /\ pkts = << >>
       \/ proto = "shadowsocks" /\ writes = << >> /\ pkts = << >>
       \/ proto = "config" /\ writes = << >> /\ pkts = << >>
       \/ proto = "socks5" /\ pkts = << >>
          /\ \E c \in SocksClients :
                client = c /\ writes \in SocksGenuine(c) \cup SocksRefusals(c)
    /\ proto # "socks5" => client = "none"
    /\ nw = 0 /\ whole = 0
    /\ pc = CASE proto = "socks5" -> "greet" [] proto = "grpc" -> "start"
              [] proto = "shadowsocks" -> "packet" [] proto = "config" -> "config"
              [] OTHER -> "loop"
    /\ sclosed = FALSE /\ gconn = "new" /\ gstop = FALSE
    /\ result = "none" /\ fbBuf = << >> /\ relayIn = << >>
    /\ uoff = 0 /\ delivered = << >> /\ ustate = "open" /\ dgram = << >> /\ ssRead = << >>
    /\ urlRead = Nil

(* Requests the SOCKS5 client has written, and the server's writes that *)
(* answer a request rather than carry data.                              *)
SocksRequests == CASE pc = "greet" -> 1
                   [] pc = "auth"  -> 2
                   [] pc = "req"   -> IF client.auth THEN 3 ELSE 2
                   [] OTHER        -> 3
SocksReplies == Len(SelectSeq(writes, LAMBDA w : w[1] # "D"))

(* The peer writes its next message; a SOCKS5 server answers a request   *)
(* only once it has arrived.                                              *)
PeerWrite ==
    /\ nw < Len(writes)
    /\ proto = "socks5" => nw < SocksRequests \/ nw >= SocksReplies
    /\ nw' = nw + 1
    /\ UNCHANGED <<proto, client, writes, whole, pc, result, fbBuf, relayIn, udpVars, srvVars, urlRead>>

(* bytes.Index(s, crlf): index of the first CRLF in s, or -1.            *)
IndexCRLF(s) ==
    LET is == {i \in 1..(Len(s) - 1) : s[i] = "C" /\ s[i + 1] = "L"} IN
    IF is = {} THEN -1 ELSE Min(is) - 1

(* One Read: for Trojan one pass of the loop, underlay.Read(readbs[      *)
(* wholeReadLen:]) and the search for CRLF in what it returned; for HTTP  *)
(* the single underlay.Read(bs).                                          *)
ServerRead ==
    /\ pc = "loop" /\ gconn # "closed"
    /\ \E k \in 1..(Len(Sent) - whole) :
          /\ whole + k <= ReadMaxLen
          /\ Segmentation = "writes" => Bound(whole + k)
          /\ whole' = whole + k
          /\ LET chunk == SubSeq(Sent, whole + 1, whole + k) IN
             pc' = IF proto \in {"http", "grpc"} \/ IndexCRLF(chunk) > 0
                      \/ whole + k >= ReadMaxLen
                     THEN "parse" ELSE "loop"
    /\ UNCHANGED <<proto, client, writes, nw, result, fbBuf, relayIn, udpVars, srvVars, urlRead>>

(* The Trojan loop's Read fails: the read deadline passes while the      *)
(* client, done with its request, waits for an answer.  The error is     *)
(* returned as it is.                                                     *)
ServerReadErr ==
    /\ pc = "loop"
    /\ nw = Len(writes) /\ whole = Len(Sent)
    /\ pc' = "done" /\ result' = "error"
    /\ UNCHANGED <<proto, client, writes, nw, whole, fbBuf, relayIn, udpVars, srvVars, urlRead>>

(* GetAddrFrom on the buffer after the command byte (a ShortRead when it  *)
(* runs out).                                                             *)
AddrOK(bs, i) == Len(bs) >= i + AddrLen - 1
                 /\ \A j \in i..(i + AddrLen - 1) : bs[j] = "A"

(* Mutant: ok set whenever 56 bytes were there, the user not looked up.  *)
HashOKLenOnly(bs) == Len(bs) >= passStrLen

(* AuthUserByStr(hash): the hash is a registered user's.                  *)
HashOK(bs) == \A j \in 1..passStrLen : bs[j] = "H"

(* The checks of realPart on bs = readbs[:wholeReadLen], in order; a     *)
(* ReadByte past the end of the buffer yields 0.                          *)
ByteAt(bs, i) == IF i <= Len(bs) THEN bs[i] ELSE "0x00"

Verdict(bs) ==
    LET p == passStrLen
        cmd == ByteAt(bs, p + 3)
        a == p + 4
        e == a + AddrLen
    IN CASE Len(bs) < MinHttpLen                      -> "error"
         [] Len(bs) < p + 8 + 1                       -> "fallback"
         [] ~HashOK(bs)                               -> "fallback"
         [] <<ByteAt(bs, p + 1), ByteAt(bs, p + 2)>> # CRLF -> "fallback"
         [] cmd \notin {CmdConnect, CmdUDPAssociate, CmdMux} -> "fallback"
         [] ~AddrOK(bs, a)                            -> "fallback"
         [] Len(bs) < e + 1                           -> "fallback"
         [] <<bs[e], bs[e + 1]>> # CRLF               -> "fallback"
         [] cmd = CmdMux                              -> "mux"
         [] cmd = CmdUDPAssociate                     -> "udp"
         [] OTHER                                     -> "tcp"

(* errorPart: a new buffer over readbs[:wholeReadLen].                    *)
FallbackBuf(bs) == bs

(* Mutant: the connection returned without the buffer's remainder.       *)
RelayStreamNoRemainder(bs, rest) == rest

(* On success the returned conn reads the rest of readbuf, then the      *)
(* underlying connection: io.MultiReader(readbuf, underlay).              *)
RelayStream(bs, rest) == SubSeq(bs, HeaderLen + 1, Len(bs)) \o rest

TrojanParse ==
    /\ pc = "parse" /\ proto = "trojan"
    /\ LET bs == SubSeq(Sent, 1, whole)
           v == Verdict(bs)
       IN /\ result' = v
          /\ fbBuf' = IF v = "fallback" THEN FallbackBuf(bs) ELSE << >>
          /\ relayIn' = IF v \in {"tcp", "udp", "mux"}
                          THEN RelayStream(bs, SubSeq(Stream, whole + 1, Len(Stream)))
                          ELSE << >>
    /\ pc' = "done"
    /\ UNCHANGED <<proto, client, writes, nw, whole, udpVars, srvVars, urlRead>>

(* httpLayer.ParseH1Request(bs[:n], true), whose code is outside src/:   *)
(* it succeeds on a request line with a method, followed by headers up    *)
(* to the empty line.                                                     *)
ParseH1Request(bs) ==
    /\ ByteAt(bs, 1) \in {"K", "T"}
    /\ Len(bs) >= 4
    /\ SubSeq(bs, Len(bs) - 3, Len(bs)) = CRLF \o CRLF

(* The value of the Proxy-Authorization header among the parsed headers, *)
(* "B" or "W", or "none".                                                 *)
AuthHeader(bs) ==
    LET has(c) == \E i \in 1..(Len(bs) - 13) :
                    SubSeq(bs, i, i + 13) = Rep(c, 12) \o CRLF
    IN CASE has("B") -> "B" [] has("W") -> "W" [] OTHER -> "none"

(* n after the credential check: base64.StdEncoding.Decode, writing into *)
(* the inner bs, assigns the decoded length to the n of the Read.        *)
HttpReadLen(bs) ==
    IF HttpAuth /\ AuthHeader(bs) # "none" THEN CredLen ELSE Len(bs)

(* The rest of Server.Handshake after the Read: parse, check the        *)
(* credentials when a user is configured, and return underlay after      *)
(* writing "200 Connection established" for CONNECT, a ProxyConn that    *)
(* replays bs[:n] for GET; every error is wrapped into an ErrBuffer over *)
(* bs[:n] by the deferred function.                                       *)
HttpParse ==
    /\ pc = "parse" /\ proto = "http"
    /\ LET bs == SubSeq(Sent, 1, whole)
           n == HttpReadLen(bs)
           v == CASE ~ParseH1Request(bs)                 -> "fallback"
                  [] HttpAuth /\ AuthHeader(bs) # "B"    -> "fallback"
                  [] ByteAt(bs, 1) = "K"                 -> "connect"
                  [] OTHER                               -> "get"
           rest == SubSeq(Stream, whole + 1, Len(Stream))
       IN /\ result' = v
          /\ fbBuf' = IF v = "fallback" THEN SubSeq(bs, 1, n) ELSE << >>
          /\ relayIn' = CASE v = "connect" -> rest
                          [] v = "get"     -> SubSeq(bs, 1, n) \o rest
                          [] OTHER         -> << >>
    /\ pc' = "done"
    /\ UNCHANGED <<proto, client, writes, nw, whole, udpVars, srvVars, urlRead>>

(* Server.StartHandle of grpcSimple after its single underlay.Read(bs):  *)
(* fewer bytes than the preface, or other bytes, is not h2c and goes to  *)
(* fallbackFunc with H1RequestBuf = bs[:n], whether ParseH1Request       *)
(* succeeds or not; otherwise http2 ServeConn serves a ReadWrapper that  *)
(* replays bs[:n] before the connection.                                  *)
GrpcParse ==
    /\ pc = "parse" /\ proto = "grpc"
    /\ LET bs == SubSeq(Sent, 1, whole)
           notH2c == Len(bs) < prefaceLen \/ SubSeq(bs, 1, prefaceLen) # Preface
       IN IF notH2c
            THEN /\ result' = "fallback" /\ fbBuf' = bs /\ pc' = "done"
                 /\ UNCHANGED relayIn
            ELSE /\ pc' = "serve"
                 /\ relayIn' = bs \o SubSeq(Stream, whole + 1, Len(Stream))
                 /\ UNCHANGED <<result, fbBuf>>
    /\ UNCHANGED <<proto, client, writes, nw, whole, udpVars, srvVars, urlRead>>

(* The request the http2 server hands the handler, once its HEADERS have *)
(* arrived: path and content type.                                        *)
H2Request == LET i == CHOOSE j \in 1..Len(Stream) : Stream[j] = "Q" IN
             [path |-> Stream[i + 1], ct |-> Stream[i + 2]]

(* The handler: it returns at once when s.closed (it checks again before *)
(* fallbackFunc and before newSubConnFunc, with nothing between that a   *)
(* Stop could not also precede); a path other than s.path, or a content  *)
(* type other than application/grpc, goes to fallbackFunc with the h2    *)
(* request; otherwise 200 with the gRPC content type, and newSubConnFunc *)
(* gets a ServerConn over the request body.  The http2 server may have   *)
(* started it before a Stop closed the underlay.                          *)
GrpcServe ==
    /\ pc = "serve" /\ nw = Len(writes)
    /\ result' = CASE sclosed -> "error"
                    [] H2Request.path = "s" /\ H2Request.ct = "g" -> "grpc"
                    [] OTHER -> "h2fallback"
    /\ pc' = "done"
    /\ UNCHANGED <<proto, client, writes, nw, whole, fbBuf, relayIn, udpVars, srvVars, urlRead>>

(* StartHandle's first lines: s.closed = false, and the underlay joins    *)
(* the ConnList.                                                          *)
GrpcStart ==
    /\ pc = "start"
    /\ pc' = "loop" /\ sclosed' = FALSE /\ gconn' = "listed"
    /\ UNCHANGED <<proto, client, writes, nw, whole, result, fbBuf, relayIn, udpVars, gstop, urlRead>>

(* Server.Stop, from another goroutine while a connection is being        *)
(* handled: unless s.closed, set it and close every conn of the ConnList  *)
(* (CloseDeleteAll).                                                      *)
GrpcStop ==
    /\ proto = "grpc" /\ pc # "done" /\ ~sclosed
    /\ sclosed' = TRUE /\ gstop' = TRUE
    /\ gconn' = IF gconn = "listed" THEN "closed" ELSE gconn
    /\ UNCHANGED <<proto, client, writes, nw, whole, pc, result, fbBuf, relayIn, udpVars, urlRead>>

(* A read of the closed underlay fails: the preface Read returns its      *)
(* error and StartHandle returns, or ServeConn ends before the handler.   *)
GrpcClosedRead ==
    /\ pc \in {"loop", "serve"} /\ gconn = "closed"
    /\ pc' = "done" /\ result' = "error"
    /\ UNCHANGED <<proto, client, writes, nw, whole, fbBuf, relayIn, udpVars, srvVars, urlRead>>

(* GetAddrFrom on one shadowsocks packet, a bytes.Buffer: what            *)
(* makeWriteBuf wrote for an address and a payload, cut at any length,   *)
(* or a malformed header.                                                  *)
SsPacketRead ==
    /\ proto = "shadowsocks" /\ pc = "packet"
    /\ \/ \E a \in Addrs, d \in Payloads :
            \E k \in 0..Len(makeWriteBuf(d, a)) :
               LET b == SubSeq(makeWriteBuf(d, a), 1, k) IN
               ssRead' = [sent |-> <<a, d>>, buf |-> b, r |-> GetAddrFrom(b)]
       \/ \E m \in Malformed : ssRead' = [sent |-> "junk", buf |-> m, r |-> GetAddrFrom(m)]
    /\ pc' = "done"
    /\ UNCHANGED <<proto, client, writes, nw, whole, result, fbBuf, relayIn, pkts, uoff,
                   delivered, ustate, dgram, srvVars, urlRead>>

(* Confs for the URL format: every combination of address (an IP, a     *)
(* host, or both: the IP to dial and the host for SNI), path, network and *)
(* TLS options; then one base conf at a time with one more field set.     *)
UrlAddrs == {<<"1.2.3.4", "">>, <<"::1", "">>, <<"", "a.com">>, <<"1.2.3.4", "a.com">>}
UrlBase(p, a) == [ZeroConf EXCEPT !.protocol = p, !.uuid = "u", !.ip = a[1], !.host = a[2],
                                  !.port = 443]
UrlVaried(protos) ==
    { [UrlBase(p, a) EXCEPT !.path = pa, !.network = n, !.tls = t,
                            !.insecure = t /\ i, !.tlsType = IF t /\ i THEN "utls" ELSE ""] :
        p \in protos, a \in UrlAddrs, pa \in {"", "/ws"}, n \in {"", "udp"},
        t \in BOOLEAN, i \in BOOLEAN }
Req(hs) == [request |-> [method |-> "GET", version |-> "1.1", path |-> << "" >>,
                         headers |-> hs], response |-> Nil]
DialConfs ==
    LET b == UrlBase("socks5", <<"1.2.3.4", "">>) IN
    UrlVaried({"socks5"}) \cup {[ZeroConf EXCEPT !.protocol = DirectName]} \cup
    { [b EXCEPT !.version = 1], [b EXCEPT !.fullcone = TRUE], [b EXCEPT !.tag = "t"],
      [b EXCEPT !.adv = "ws"], [b EXCEPT !.mux = TRUE], [b EXCEPT !.sendThrough = "1.2.3.4:0"],
      [b EXCEPT !.extra = ("k" :> "x")], [b EXCEPT !.http = Req(<< >>)],
      [b EXCEPT !.http = Req("Host" :> << "a.com" >>)] }
ListenConfs ==
    LET b == UrlBase("trojan", <<"1.2.3.4", "">>) IN
    UrlVaried({"trojan", "http"}) \cup
    { [b EXCEPT !.fallback = "f"], [b EXCEPT !.noroute = TRUE], [b EXCEPT !.version = 1],
      [b EXCEPT !.network = "udp", !.target = [net |-> "udp", host |-> "1.2.3.4", port |-> "53"]],
      [b EXCEPT !.target = [net |-> "udp", host |-> "1.2.3.4", port |-> "53"]],
      [b EXCEPT !.target = [net |-> "tcp", host |-> "a.com", port |-> "80"]],
      [b EXCEPT !.http = [request |-> Nil, response |->
                  [status |-> "200", version |-> "1.1", reason |-> "OK", headers |-> << >>]]] }
(* URLs a user writes: without a port, with one past 65535, with a       *)
(* scheme no creator has.                                                 *)
UserUrl(sc, port) == [scheme |-> sc, user |-> "u", host |-> [name |-> "1.2.3.4", port |-> port],
                      path |-> "", query |-> << >>, fragment |-> ""]
UserUrls == {UserUrl("trojan", Nil), UserUrl("trojans", 70000), UserUrl("vless", 443)}

(* A conf written by ToStandardUrl and read back by ClientFromURL or     *)
(* ServerFromURL, or a URL a user wrote read by ServerFromURL.            *)
UrlLoad ==
    /\ proto = "config" /\ pc = "config"
    /\ \/ \E c \in DialConfs :
            LET u == ToStandardUrl(c, c, Nil) IN
            urlRead' = [conf |-> c, url |-> u, r |-> IF u = Nil THEN Nil ELSE ClientFromURL(u)]
       \/ \E c \in ListenConfs :
            LET u == ToStandardUrl(c, Nil, c) IN
            urlRead' = [conf |-> c, url |-> u, r |-> IF u = Nil THEN Nil ELSE ServerFromURL(u)]
       \/ \E u \in UserUrls : urlRead' = [conf |-> Nil, url |-> u, r |-> ServerFromURL(u)]
    /\ pc' = "done"
    /\ UNCHANGED <<proto, client, writes, nw, whole, result, fbBuf, relayIn, udpVars, srvVars>>

(* Bytes of relayIn the client has sent so far.                          *)
Avail == Len(Sent) - HeaderLen

(* Mutant: the CR and LF after the length left in the buffer.            *)
ReadMsgFromNoCRLF(s, o, a) ==
    LET e == o + AddrLen
        n == 256 * ByteNum(s[e + 1]) + ByteNum(s[e + 2])
    IN CASE a < e + 2 \/ a < e + 2 + n -> [out |-> "block"]
         [] OTHER -> [out |-> "msg", msg |-> SubSeq(s, e + 3, e + 2 + n),
                      next |-> e + 2 + n]

(* UDPConn.ReadMsgFrom on the bufio.Reader over relayIn from offset o,    *)
(* with a bytes arrived: GetAddrFrom, the two length bytes (0 is          *)
(* ErrInvalidData), CR and LF (else ErrInvalidData), io.ReadFull of the   *)
(* payload.  Each ReadByte and the ReadFull block until their bytes are   *)
(* there; the client keeps the connection open.                           *)
ReadMsgFrom(s, o, a) ==
    LET e == o + AddrLen
        n == 256 * ByteNum(s[e + 1]) + ByteNum(s[e + 2])
    IN CASE a < e                                   -> [out |-> "block"]
         [] \E j \in (o + 1)..e : s[j] # "A"        -> [out |-> "invalid"]
         [] a < e + 2                               -> [out |-> "block"]
         [] n = 0                                   -> [out |-> "invalid"]
         [] a < e + 4                               -> [out |-> "block"]
         [] <<s[e + 3], s[e + 4]>> # CRLF           -> [out |-> "invalid"]
         [] a < e + 4 + n                           -> [out |-> "block"]
         [] OTHER -> [out |-> "msg", msg |-> SubSeq(s, e + 5, e + 4 + n),
                      next |-> e + 4 + n]

(* The caller of the UDPConn that Handshake returned for CmdUDPAssociate *)
(* (NewUDPConn over io.MultiReader(readbuf, underlay)) reads a message;  *)
(* an error ends the relay.                                               *)
UdpRead ==
    /\ pc = "done" /\ result = "udp" /\ ustate = "open"
    /\ LET r == ReadMsgFrom(relayIn, uoff, Avail) IN
       /\ r.out # "block"
       /\ \/ r.out = "msg" /\ delivered' = Append(delivered, r.msg)
             /\ uoff' = r.next /\ UNCHANGED ustate
          \/ r.out = "invalid" /\ ustate' = "invalid"
             /\ UNCHANGED <<uoff, delivered>>
    /\ UNCHANGED <<proto, client, writes, nw, whole, pc, result, fbBuf, relayIn, pkts,
                   dgram, ssRead, srvVars, urlRead>>

(* The check of one reply read into ba [10]byte: n = 2 and the adopted   *)
(* method; n = 2 and auth status 0; for CONNECT n >= 10 and VER REP RSV  *)
(* 5 0 0; for UDP ASSOCIATE n = 10 and 5 0 0, IPv4, 0.0.0.0.              *)
SocksReplyOK(ba) ==
    CASE pc = "greet" -> ba = <<V5, SocksMethod(client)>>
      [] pc = "auth"  -> ba = <<"0x01", "0x00">>
      [] client.cmd = "connect" ->
             Len(ba) >= 10 /\ SubSeq(ba, 1, 3) = <<V5, "0x00", "0x00">>
      [] OTHER ->
             Len(ba) = 10 /\ SubSeq(ba, 1, 8) = <<V5, "0x00", "0x00", "0x01">> \o Rep("0x00", 4)

SocksNext == CASE pc = "greet" /\ client.auth -> "auth"
               [] pc \in {"greet", "auth"}     -> "req"
               [] OTHER                        -> "done"

(* One underlay.Read(ba[:]) of the SOCKS5 client and the check of what it *)
(* returned; a failed check returns an error.  After the last reply the  *)
(* client writes firstPayload and returns underlay itself, for CONNECT,   *)
(* or the UDP port from the reply.                                        *)
SocksRead ==
    /\ proto = "socks5" /\ pc \in {"greet", "auth", "req"}
    /\ \E k \in 1..Min({10, Len(Sent) - whole}) :
          /\ Segmentation = "writes" => Bound(whole + k)
          /\ whole' = whole + k
          /\ LET ok == SocksReplyOK(SubSeq(Sent, whole + 1, whole + k)) IN
             /\ pc' = IF ok THEN SocksNext ELSE "done"
             /\ result' = CASE ~ok                      -> "error"
                             [] SocksNext # "done"      -> result
                             [] client.cmd = "connect"  -> "socks"
                             [] OTHER                   -> "associate"
             /\ relayIn' = IF ok /\ SocksNext = "done"
                             THEN SubSeq(Stream, whole + k + 1, Len(Stream))
                             ELSE relayIn
    /\ UNCHANGED <<proto, client, writes, nw, fbBuf, udpVars, srvVars, urlRead>>

(* bytes.Buffer Read of k bytes from position i into a zeroed slice.     *)
BufRead(d, i, k) == [j \in 1..k |-> ByteAt(d, i + j - 1)]

(* Mutant: the datagram's source not compared with the server's port.   *)
ReadUDPResponseAnySource(g) ==
    LET d == Bytes(g)
        atyp == ByteAt(d, 4)
        alen == CASE atyp = "0x01" -> 4 [] atyp = "0x04" -> 16
                  [] OTHER -> 1 + ByteNum(ByteAt(d, 5))
        e == 4 + alen
    IN CASE Len(d) < 6                                 -> [out |-> "error"]
         [] SubSeq(d, 1, 3) # <<"0x00", "0x00", "0x00">> -> [out |-> "error"]
         [] atyp \notin {"0x01", "0x04", "0x03"}       -> [out |-> "error"]
         [] OTHER -> [out |-> "msg",
                      target |-> <<atyp>> \o BufRead(d, 5, alen) \o BufRead(d, e + 1, 2),
                      data |-> SubSeq(d, e + 3, Len(d))]

(* Client_ReadUDPResponse on datagram g: fewer than 6 bytes, a source    *)
(* other than the server's UDP port, RSV or FRAG not 0, or an unknown    *)
(* ATYP is an error; otherwise the address is read from a bytes.Buffer   *)
(* (a Read short of bytes leaves zeros, a ReadByte past the end gives 0, *)
(* and neither error is looked at), then the port, and the rest is data. *)
ReadUDPResponse(g) ==
    LET d == Bytes(g)
        atyp == ByteAt(d, 4)
        alen == CASE atyp = "0x01" -> 4 [] atyp = "0x04" -> 16
                  [] OTHER -> 1 + ByteNum(ByteAt(d, 5))
        e == 4 + alen
    IN CASE Len(d) < 6                                 -> [out |-> "error"]
         [] g.src # "server"                           -> [out |-> "error"]
         [] SubSeq(d, 1, 3) # <<"0x00", "0x00", "0x00">> -> [out |-> "error"]
         [] atyp \notin {"0x01", "0x04", "0x03"}       -> [out |-> "error"]
         [] OTHER -> [out |-> "msg",
                      target |-> <<atyp>> \o BufRead(d, 5, alen) \o BufRead(d, e + 1, 2),
                      data |-> SubSeq(d, e + 3, Len(d))]

(* The relay reads the MsgConn EstablishUDPChannel returned, a           *)
(* ClientUDPConn already associated: ReadMsgFrom takes one datagram,     *)
(* whichever arrives (UDP may lose, repeat or reorder them); an error    *)
(* ends the relay.                                                        *)
SocksUdpRead ==
    /\ pc = "done" /\ result = "associate" /\ ustate = "open"
    /\ \E g \in SocksDatagrams :
          LET r == ReadUDPResponse(g) IN
          /\ dgram' = <<g, r>>
          /\ ustate' = IF r.out = "error" THEN "invalid" ELSE "open"
    /\ UNCHANGED <<proto, client, writes, nw, whole, pc, result, fbBuf, relayIn,
                   pkts, uoff, delivered, ssRead, srvVars, urlRead>>

Next == PeerWrite \/ ServerRead \/ ServerReadErr \/ TrojanParse \/ HttpParse
        \/ UdpRead \/ SocksRead \/ GrpcParse \/ GrpcServe \/ SocksUdpRead
        \/ GrpcStart \/ GrpcStop \/ GrpcClosedRead \/ SsPacketRead \/ UrlLoad

Spec == Init /\ [][Next]_vars

-----------------------------------------------------------------------------
Accepted == {"tcp", "udp", "mux", "connect", "get", "socks", "associate", "grpc"}

(* What the connection handed on must yield: the bytes after the Trojan  *)
(* header; for CONNECT the bytes after the request; for GET the request  *)
(* itself and what follows, as a plain HTTP proxy forwards it.            *)
Payload ==
    CASE result = "connect" -> SubSeq(Stream, Len(writes[1]) + 1, Len(Stream))
      [] result \in {"get", "grpc"} -> Stream
      [] proto = "socks5"   -> Flat(SelectSeq(writes, LAMBDA w : w[1] = "D"))
      [] OTHER              -> SubSeq(Stream, HeaderLen + 1, Len(Stream))

(* Only a genuine client gets through: under every TCP segmentation, a  *)
(* Trojan header with another user's hash or an unknown command, an HTTP *)
(* request sent to the Trojan server, a gRPC request on another path or  *)
(* with another content type, and a SOCKS5 server that refuses never end *)
(* in a connection handed on to the relay, only in a fallback or error.  *)
NoProbeAccepted ==
    result \in Accepted => writes \in Genuine

(* A successful handshake loses no payload: the returned connection      *)
(* yields exactly the client's bytes it is to relay.                      *)
SuccessKeepsPayload ==
    result \in Accepted => relayIn = Payload

(* The UDP framing over the Trojan stream: ReadMsgFrom returns the        *)
(* client's packets in order and never fails on what WriteMsgTo wrote;   *)
(* once the client has written everything and the reader waits for more, *)
(* every packet has come out, the one sent with the header included.     *)
UdpFramesIntact ==
    result = "udp" =>
        /\ ustate = "open"
        /\ IsPrefix(delivered, pkts)
        /\ nw = Len(writes) /\ ReadMsgFrom(relayIn, uoff, Avail).out = "block"
             => delivered = pkts

(* The SOCKS5 client's UDP channel: a whole datagram from the server's   *)
(* UDP port is read as the target and data the server put in it, over    *)
(* every address type; a datagram from any other source is refused, so   *)
(* that nobody else can inject answers into the association.              *)
SocksUdpIntact ==
    dgram # << >> =>
        LET g == dgram[1]
            r == dgram[2]
        IN /\ g.src = "server" /\ g.kind = "whole" =>
                 r = [out |-> "msg", target |-> UdpTarget(g.t), data |-> g.data]
           /\ g.src # "server" => r.out = "error"

(* The shadowsocks address header against spec 4.1: makeWriteBuf writes  *)
(* the spec's framing (ATYP, address, port big-endian); GetAddrFrom reads *)
(* a whole header back as the address written, leaving the payload in    *)
(* the buffer, or refuses a zero port; a header cut short is an error,    *)
(* never an address; a header spec 4.1 calls InvalidData is refused.      *)
SsAddrRoundTrip ==
    ssRead # << >> =>
        IF ssRead.sent = "junk" THEN ssRead.r.err = "invalid"
        ELSE LET a == ssRead.sent[1]
                 d == ssRead.sent[2]
                 w == makeWriteBuf(d, a)
             IN /\ w = EncodeAddress(a) \o d
                /\ ssRead.buf = w =>
                      ssRead.r = IF ValidAddr(a) THEN [err |-> "none", addr |-> a, rest |-> d]
                                 ELSE Fail("invalid")
                /\ Len(ssRead.buf) < Len(w) - Len(d) => ssRead.r.err # "none"

(* The fields a conf is dialled or served by, with an empty network as  *)
(* the "tcp" the listener then uses.                                      *)
UrlKept(c) ==
    [p |-> c.protocol, tls |-> c.tls, addr |-> IF c.ip # "" THEN c.ip ELSE c.host,
     port |-> c.port, path |-> c.path, uuid |-> c.uuid, tag |-> c.tag, adv |-> c.adv,
     net |-> IF c.network = "" THEN "tcp" ELSE c.network, fullcone |-> c.fullcone,
     insecure |-> c.insecure, tlsType |-> c.tlsType, mux |-> c.mux, http |-> c.http # Nil]

(* A DialConf or ListenConf that ToStandardUrl writes without panicking   *)
(* reads back, through the scheme's trailing "s" and the creator maps,   *)
(* as a conf with the same protocol, TLS, address to dial, port, path,    *)
(* network, user, tag, layer and TLS options; a URL with a port past      *)
(* 65535 or a scheme no creator has is refused.                           *)
UrlRoundTrip ==
    urlRead # Nil =>
        IF urlRead.conf = Nil
        THEN urlRead.url.host.port # Nil => urlRead.r.err # "none"
        ELSE urlRead.url # Nil =>
               urlRead.r.err = "none" /\ UrlKept(urlRead.r.conf) = UrlKept(urlRead.conf)

(* Spec 4.2, 4.3 and the error taxonomy: once bytes have been read, a    *)
(* genuine exchange with a server that is not stopped is accepted with    *)
(* its payload intact.  On a server,                                     *)
(* anything else, credentials that are not a user's included, falls back *)
(* carrying exactly the bytes read, never a plain error; the SOCKS5      *)
(* client fails on a server that refuses.  Spec 6: a truncated frame is  *)
(* rejected, never read as a partial address.  And, as the handler's own *)
(* s.closed checks intend, a grpcSimple server stopped during the         *)
(* handshake hands on no sub-connection.  A Trojan UDP association       *)
(* survives every datagram its client relays, an empty one included:     *)
(* WriteMsgTo frames whatever it is given and ReadMsgFrom must read it.   *)
(* ToStandardUrl converts a DialConf or a ListenConf, and "cc must not be *)
(* nil or it will panic": given a conf, it returns a URL; and spec 2's   *)
(* port in [1,65535] holds of every conf a URL gives a proxy that dials   *)
(* or listens on one.                                                      *)
HandshakeContract ==
    /\ urlRead # Nil /\ urlRead.conf # Nil => urlRead.url # Nil
    /\ urlRead # Nil /\ urlRead.r # Nil /\ urlRead.r.err = "none" =>
          urlRead.r.conf.protocol = DirectName \/ urlRead.r.conf.port \in 1..65535
    /\ result = "udp" => ustate = "open"
    /\ dgram # << >> /\ dgram[1].kind # "whole" => dgram[2].out = "error"
    /\ result = "grpc" => ~gstop
    /\ pc = "done" /\ whole > 0 /\ ~gstop =>
        IF writes \in Genuine
          THEN result \in Accepted /\ relayIn = Payload
          ELSE IF proto = "socks5" THEN result = "error"
          ELSE \/ result = "fallback" /\ fbBuf = SubSeq(Stream, 1, whole)
               \/ result = "h2fallback"
=============================================================================
