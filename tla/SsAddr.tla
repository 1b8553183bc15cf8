------------------------------- MODULE SsAddr -------------------------------
(***************************************************************************)
(* The shadowsocks address header (proxy/shadowsocks/shadowsocks.go):      *)
(* makeWriteBuf writes ATYP, the address bytes and the port in front of a *)
(* payload into a bytes.Buffer, and GetAddrFrom reads them back from a     *)
(* utils.ByteReader, here that bytes.Buffer.                               *)
(*                                                                         *)
(* Bytes are naturals 0..255 and a buffer is the sequence of its unread   *)
(* bytes.  An address is a record: ip is 4 or 16 bytes, or empty, name is *)
(* the domain's bytes, or empty, and port a natural.                      *)
(***************************************************************************)
EXTENDS Naturals, Sequences

ATypIP4    == 1
ATypDomain == 3
ATypIP6    == 4

(* netLayer.Addr.AddressBytes: the address bytes and the internal type;  *)
(* a domain goes out with its length byte in front.                       *)
AddressBytes(a) ==
    IF a.name # << >>
    THEN [abs |-> <<Len(a.name) % 256>> \o a.name, atype |-> "domain"]
    ELSE [abs |-> a.ip, atype |-> IF Len(a.ip) = 4 THEN "ip4" ELSE "ip6"]

(* netLayer.ATypeToSocks5Standard                                          *)
ATypeToSocks5Standard(t) == [ip4 |-> ATypIP4, domain |-> ATypDomain, ip6 |-> ATypIP6][t]

(* makeWriteBuf: ATYP, address, byte(Port >> 8), byte(Port << 8 >> 8), bs *)
makeWriteBuf(bs, addr) ==
    LET ab == AddressBytes(addr) IN
    << ATypeToSocks5Standard(ab.atype) >> \o ab.abs
        \o << (addr.port \div 256) % 256, addr.port % 256 >> \o bs

(* bytes.Buffer.Read(p) with len(p) = k: the bytes copied and the buffer  *)
(* left; io.EOF when the buffer is empty and k > 0.                        *)
BufferRead(buf, k) ==
    LET n == IF k < Len(buf) THEN k ELSE Len(buf) IN
    [eof |-> buf = << >> /\ k > 0, bs |-> SubSeq(buf, 1, n), rest |-> SubSeq(buf, n + 1, Len(buf))]

Fail(e) == [err |-> e]

(* The two port bytes after the address, as the end of GetAddrFrom reads  *)
(* them; the address read so far is ip and name.                          *)
ReadPort(buf, ip, name) ==
    IF Len(buf) < 2 THEN Fail("eof")
    ELSE LET port == buf[1] * 256 + buf[2] IN
         IF port = 0 THEN Fail("invalid")
         ELSE [err |-> "none", addr |-> [ip |-> ip, name |-> name, port |-> port],
               rest |-> SubSeq(buf, 3, Len(buf))]

(* A Read of exactly k address bytes, or ErrShortRead.                      *)
ReadFull(buf, k) ==
    LET r == BufferRead(buf, k) IN
    IF r.eof THEN Fail("eof") ELSE IF Len(r.bs) # k THEN Fail("short")
    ELSE [err |-> "none", bs |-> r.bs, rest |-> r.rest]

(* Mutant: a domain length of 0 let through.                              *)
GetAddrFromZeroLen(buf) ==
    IF buf = << >> THEN Fail("eof")
    ELSE LET b1 == Head(buf) rest == Tail(buf) IN
    CASE b1 = ATypDomain ->
            IF rest = << >> THEN Fail("eof")
            ELSE LET r == ReadFull(Tail(rest), Head(rest)) IN
                 IF r.err # "none" THEN r ELSE ReadPort(r.rest, << >>, r.bs)
      [] b1 \in {ATypIP4, ATypIP6} ->
            LET r == ReadFull(rest, IF b1 = ATypIP4 THEN 4 ELSE 16) IN
            IF r.err # "none" THEN r ELSE ReadPort(r.rest, r.bs, << >>)
      [] OTHER -> Fail("invalid")

(* GetAddrFrom: ATYP; for a domain its length byte, which must not be 0,  *)
(* and one Read of that many bytes; for an IP one Read of 4 or 16 bytes;  *)
(* any other ATYP is ErrInvalidData.  Then the port, which must not be 0. *)
GetAddrFrom(buf) ==
    IF buf = << >> THEN Fail("eof")
    ELSE LET b1 == Head(buf) rest == Tail(buf) IN
    CASE b1 = ATypDomain ->
            IF rest = << >> THEN Fail("eof")
            ELSE IF Head(rest) = 0 THEN Fail("invalid")
            ELSE LET r == ReadFull(Tail(rest), Head(rest)) IN
                 IF r.err # "none" THEN r ELSE ReadPort(r.rest, << >>, r.bs)
      [] b1 \in {ATypIP4, ATypIP6} ->
            LET r == ReadFull(rest, IF b1 = ATypIP4 THEN 4 ELSE 16) IN
            IF r.err # "none" THEN r ELSE ReadPort(r.rest, r.bs, << >>)
      [] OTHER -> Fail("invalid")

-----------------------------------------------------------------------------
(* The reference: spec 4.1's address framing, and the inputs it is       *)
(* checked over.                                                           *)

(* EncodeAddress: ATYP, the address (a domain behind its length), and    *)
(* the port big-endian.                                                    *)
EncodeAddress(a) ==
    IF a.name # << >> THEN << 3, Len(a.name) >> \o a.name \o << a.port \div 256, a.port % 256 >>
    ELSE << IF Len(a.ip) = 4 THEN 1 ELSE 4 >> \o a.ip \o << a.port \div 256, a.port % 256 >>

Ports    == {0, 1, 255, 256, 65535}
Payloads == {<< >>, << 0 >>, << 3, 1 >>}
Addrs    == [ip : {<< 127, 0, 0, 1 >>, [i \in 1..16 |-> i]}, name : {<< >>}, port : Ports]
            \cup [ip : {<< >>}, name : {<< 97 >>, << 97, 0 >>}, port : Ports]

(* A valid address (spec, Address): a port in 1..65535.                   *)
ValidAddr(a) == a.port \in 1..65535

(* Headers spec 4.1 calls InvalidData: a domain length of 0, an unknown   *)
(* ATYP, a zero port.                                                      *)
Malformed == { << 3, 0, 0, 80 >>, << 3, 0, 97, 0, 80 >>, << 2, 1, 2, 3, 4, 0, 80 >>,
               << 0, 1, 2, 3, 4, 0, 80 >>, << 1, 1, 2, 3, 4, 0, 0 >> }

=============================================================================
