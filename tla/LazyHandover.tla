---------------------------- MODULE LazyHandover ----------------------------
(***************************************************************************)
(* The byte stream of one direction of a lazy-TLS session across the      *)
(* switch from TLS to raw forwarding (tls_lazy.go).                        *)
(*                                                                         *)
(* The sending endpoint (client R, or server W) forwards each chunk of    *)
(* its peer inside a TLS record until its sniffer reports the inner       *)
(* stream as TLS; it then writes the special command in a TLS record,     *)
(* writes that chunk raw, and splices the rest raw.                        *)
(*                                                                         *)
(* The receiving endpoint (server R, or client W) reads TLS records.  Its *)
(* TLS layer pulls raw segments from the socket, each recorded by the     *)
(* Recorder.  When the record it decodes is the special command it stops  *)
(* using TLS: the raw bytes the TLS layer had already pulled past that    *)
(* record are recovered from the LAST recorded segment, starting at the   *)
(* index GetTlsRecordNextIndex computes for it, and written out; then it  *)
(* splices the socket.                                                     *)
(*                                                                         *)
(* The wire is a sequence of cells: the header and body of a record, or a *)
(* raw chunk.  A raw read returns a run of cells; ReadModel says which    *)
(* runs the network and TLS layer may return.                             *)
(***************************************************************************)
EXTENDS Naturals, Sequences, SequencesExt

CONSTANTS
    ReadModel,  \* "record": a raw read holds at most one record, at its start;
                \* "any": a raw read returns any run of the cells sent so far
    MaxChunks,  \* chunks the sender's peer sends
    SC          \* the special command (the user's auth bytes)

ASSUME ReadModel \in {"record", "any"}
ASSUME MaxChunks \in Nat \ {0} /\ SC \notin Nat

VARIABLES
    isClient, \* the receiver is the client (W direction), not the server (R)
    spc,     \* sender: "enc" (TLS records) or "raw" (after the special command)
    next,    \* next chunk the sender's peer provides
    wire,    \* cells written to the socket, in order
    pos,     \* cells the receiver has pulled from the socket
    tlsBuf,  \* cells pulled by the TLS layer and not yet decoded
    last,    \* the Recorder's last buffer: the last segment the TLS layer pulled
    rpc,     \* receiver: "tls", "splice", "closed" or "panic"
    out      \* what the receiver wrote to its destination, in order

vars == <<isClient, spc, next, wire, pos, tlsBuf, last, rpc, out>>

Cell == [kind : {"hdr", "body"}, r : (1..MaxChunks) \cup {SC}]
        \cup [kind : {"raw"}, r : 1..MaxChunks]

Record(r) == << [kind |-> "hdr", r |-> r], [kind |-> "body", r |-> r] >>
Raw(d)    == [kind |-> "raw", r |-> d]

(* Bytes that reach the destination: a raw chunk is data, anything cut    *)
(* out of a TLS record is ciphertext: Garbage to the destination.          *)
Garbage == 0
CellOut(c)   == IF c.kind = "raw" THEN c.r ELSE Garbage
CellsOut(cs) == [i \in 1..Len(cs) |-> CellOut(cs[i])]

Sent == [i \in 1..(next - 1) |-> i]

Init ==
    /\ isClient \in BOOLEAN
    /\ spc = "enc" /\ next = 1 /\ wire = <<>> /\ pos = 0
    /\ tlsBuf = <<>> /\ last = <<>> /\ rpc = "tls" /\ out = <<>>

(* The sender forwards one chunk.  Before the switch it goes in a record, *)
(* unless the sniffer now reports TLS: then the special command goes in a *)
(* record and the chunk itself raw, through rawWRC.                       *)
Send ==
    /\ next <= MaxChunks
    /\ IF spc = "enc"
         THEN \E isTls \in BOOLEAN :
                IF isTls
                  THEN /\ wire' = wire \o Record(SC) \o << Raw(next) >>
                       /\ spc' = "raw"
                  ELSE /\ wire' = wire \o Record(next)
                       /\ UNCHANGED spc
         ELSE /\ wire' = Append(wire, Raw(next))
              /\ UNCHANGED spc
    /\ next' = next + 1
    /\ UNCHANGED <<isClient, pos, tlsBuf, last, rpc, out>>

(* Runs of cells a raw read may return.                                   *)
ReadOK(seg) ==
    \/ ReadModel = "any"
    \/ \A i \in 1..Len(seg) : seg[i].kind = "raw"
    \/ /\ Len(seg) >= 2
       /\ SubSeq(seg, 1, 2) = Record(seg[1].r)
       /\ \A i \in 3..Len(seg) : seg[i].kind = "raw"

HasRecord(b) == Len(b) >= 2 /\ b[1].kind = "hdr" /\ b[2].kind = "body"

(* The TLS layer lacks a whole record and pulls a segment; the TeeConn    *)
(* records it as the Recorder's newest buffer.                            *)
TlsPull ==
    /\ rpc = "tls"
    /\ ~HasRecord(tlsBuf)
    /\ \E k \in 1..(Len(wire) - pos) :
          LET seg == SubSeq(wire, pos + 1, pos + k) IN
          /\ ReadOK(seg)
          /\ tlsBuf' = tlsBuf \o seg
          /\ last' = seg
          /\ pos' = pos + k
    /\ UNCHANGED <<isClient, spc, next, wire, rpc, out>>

(* GetTlsRecordNextIndex(bs): the index just past the record whose header *)
(* starts bs.  Past len(bs) when that record is cut off; when bs does not *)
(* start with a header, its first bytes are read as one, so the result is *)
(* -1 (fewer than a header's bytes) or any length.                        *)
NextIndexes(bs) ==
    IF bs # <<>> /\ bs[1].kind = "hdr"
      THEN IF HasRecord(bs) THEN {2} ELSE {Len(bs) + 1}
      ELSE {-1} \cup 1..(Len(bs) + 1)

Tail0(bs, i) == SubSeq(bs, i + 1, Len(bs))   \* bs[i:]

(* Mutant forms of the server's take-over: every buffer taken as TLS 1.3  *)
(* 0-RTT (the whole of bs written), and the recorder's tail dropped.      *)
ServerTakeOverWhole(bs) == out' = out \o CellsOut(bs) /\ rpc' = "splice"
ServerTakeOverNoTail(bs) == UNCHANGED out /\ rpc' = "splice"

(* Server R, on IsTls: len(bs) < nextI is taken for TLS 1.3 0-RTT and    *)
(* the whole buffer is written; nextI < 0 writes nothing; otherwise       *)
(* bs[nextI:] is written.  Then the Recorder is released.                 *)
ServerTakeOver(bs) ==
    \E nextI \in NextIndexes(bs) :
        /\ out' = out \o CASE Len(bs) < nextI -> CellsOut(bs)
                           [] nextI < 0       -> << >>
                           [] OTHER           -> CellsOut(Tail0(bs, nextI))
        /\ rpc' = "splice"

(* Client W, on IsTls: nextI > len(bs) closes the connections and        *)
(* returns; nextI < len(bs) writes bs[nextI:] (a negative index panics);  *)
(* otherwise nothing is left to write.                                    *)
ClientTakeOver(bs) ==
    \E nextI \in NextIndexes(bs) :
        CASE nextI > Len(bs) -> rpc' = "closed" /\ UNCHANGED out
          [] nextI < 0       -> rpc' = "panic" /\ UNCHANGED out
          [] nextI < Len(bs) -> rpc' = "splice" /\ out' = out \o CellsOut(Tail0(bs, nextI))
          [] OTHER           -> rpc' = "splice" /\ UNCHANGED out

TakeOver(bs) == IF isClient THEN ClientTakeOver(bs) ELSE ServerTakeOver(bs)

(* The receiver's sniffing loop decodes one record: data is passed on;   *)
(* the special command switches it to raw forwarding.                     *)
Receive ==
    /\ rpc = "tls"
    /\ HasRecord(tlsBuf)
    /\ tlsBuf' = Tail0(tlsBuf, 2)
    /\ IF tlsBuf[1].r = SC
         THEN TakeOver(last)
         ELSE out' = Append(out, tlsBuf[1].r) /\ UNCHANGED rpc
    /\ UNCHANGED <<isClient, spc, next, wire, pos, last>>

(* The splice: raw bytes from the socket straight to the destination.    *)
Splice ==
    /\ rpc = "splice"
    /\ pos < Len(wire)
    /\ out' = Append(out, CellOut(wire[pos + 1]))
    /\ pos' = pos + 1
    /\ UNCHANGED <<isClient, spc, next, wire, tlsBuf, last, rpc>>

Next == Send \/ TlsPull \/ Receive \/ Splice

Spec == Init /\ [][Next]_vars /\ WF_vars(Send) /\ WF_vars(TlsPull)
        /\ WF_vars(Receive) /\ WF_vars(Splice)

-----------------------------------------------------------------------------
(* What reaches the destination is always a prefix of what the sender's  *)
(* peer sent: the switch from records to raw bytes neither reorders,      *)
(* duplicates, drops a middle chunk, nor lets ciphertext through; and    *)
(* the receiver's take-over does not panic on the index it computes from  *)
(* the recorded segment (client W slices bs[nextI:]).                     *)
StreamIntact == IsPrefix(out, Sent) /\ rpc # "panic"

(* Every chunk the sender's peer sends eventually reaches the destination, *)
(* including those the TLS layer had pulled past the special command.    *)
Delivery == <>(out = [i \in 1..MaxChunks |-> i])
=============================================================================
