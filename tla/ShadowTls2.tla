----------------------------- MODULE ShadowTls2 -----------------------------
(***************************************************************************)
(* The server side of shadowTLS v2 (tlsLayer/shadow.go): shadowTls2 and   *)
(* shadowCopyHandshakeClientToFake, with the client's first write         *)
(* (shadowClientConn.Write) on the other end.                             *)
(*                                                                         *)
(* The server dials a decoy TLS server.  A goroutine copies the decoy's   *)
(* bytes to the client through a HashWriter, which hashes what it writes. *)
(* The sniffing loop reads the client's records and forwards each one to  *)
(* the decoy, until an application-data record starts with the HMAC of   *)
(* what the HashWriter has written so far: then the decoy connection is   *)
(* closed, and the record minus its 8 bytes becomes the first payload.    *)
(* After more than three application-data records that do not match, it  *)
(* falls back: hashing stops, a second goroutine copies the client to the *)
(* decoy, and the connection must not be closed.                           *)
(*                                                                         *)
(* Records are abstracted to their content type and, for the tagged      *)
(* first write of a genuine client, the number of decoy messages it had   *)
(* received when it computed the tag: a tag matches the server's HMAC     *)
(* exactly when both cover the same decoy bytes.                          *)
(***************************************************************************)
EXTENDS Naturals, Sequences, SequencesExt

CONSTANTS
    MaxRecords,   \* records a client sends
    MaxDecoy      \* messages the decoy server sends

ASSUME MaxRecords \in Nat /\ MaxDecoy \in Nat

maxAppDataCount == 3    \* shadowCopyHandshakeClientToFake
maxStep         == 8    \* "shadowTls2 copy loop > 8"
NoTag           == -1   \* a record that carries no HMAC prefix

VARIABLES
    genuine,     \* the client is a shadowTLS client, not a probe
    sumPending,  \* genuine client: shadowClientConn.sum not yet written
    fromClient,  \* records the client has sent, in order
    consumed,    \* records the server has read
    spc,         \* server: "sniff", "real", "fallback" or "error"
    step,        \* step of the sniffing loop
    appCount,    \* applicationDataCount
    first,       \* the record that became the first payload
    toDecoy,     \* records the decoy received, in order
    produced,    \* messages the decoy has sent
    cpc,         \* decoy-to-client copier: "read", "write" or "done"
    hashing,     \* the HashWriter still hashes (no StopHashing yet)
    hashed,      \* decoy messages the HashWriter has hashed
    fakeClosed,  \* fakeConn.Close was called
    toClient,    \* what the client received: "decoy" or "real" messages
    realSent     \* the caller wrote its first real bytes to the client

vars == <<genuine, sumPending, fromClient, consumed, spc, step, appCount,
          first, toDecoy, produced, cpc, hashing, hashed, fakeClosed,
          toClient, realSent>>

Record == [type : {"hs", "app"}, tag : {NoTag} \cup 0..MaxDecoy]

Received == Len(SelectSeq(toClient, LAMBDA m : m = "decoy"))

Init ==
    /\ genuine \in BOOLEAN /\ sumPending = genuine
    /\ fromClient = <<>> /\ consumed = 0
    /\ spc = "sniff" /\ step = 0 /\ appCount = 0 /\ first = NoTag
    /\ toDecoy = <<>> /\ produced = 0 /\ cpc = "read"
    /\ hashing = TRUE /\ hashed = 0 /\ fakeClosed = FALSE
    /\ toClient = <<>> /\ realSent = FALSE

-----------------------------------------------------------------------------
(* The client.  A probe sends any records.  A genuine client runs a TLS  *)
(* handshake with the decoy through the server, and its first write      *)
(* after the handshake goes out with the HMAC of what it received.       *)
ClientSendAny ==
    /\ ~genuine
    /\ Len(fromClient) < MaxRecords
    /\ \E t \in {"hs", "app"} :
          fromClient' = Append(fromClient, [type |-> t, tag |-> NoTag])
    /\ UNCHANGED <<genuine, sumPending, consumed, spc, step, appCount, first,
                   toDecoy, produced, cpc, hashing, hashed, fakeClosed,
                   toClient, realSent>>

ClientHandshake ==
    /\ genuine /\ sumPending
    /\ fromClient = <<>> \/ Received > 0
    /\ Len(fromClient) < MaxRecords
    /\ fromClient' = Append(fromClient, [type |-> "hs", tag |-> NoTag])
    /\ UNCHANGED <<genuine, sumPending, consumed, spc, step, appCount, first,
                   toDecoy, produced, cpc, hashing, hashed, fakeClosed,
                   toClient, realSent>>

(* shadowClientConn.Write: the first write is prefixed with sum, which   *)
(* is then cleared; later writes go out as they are.  The handshake is    *)
(* over once the client has sent a record and heard from the decoy.       *)
ClientWrite ==
    /\ genuine
    /\ fromClient # <<>> /\ Received > 0
    /\ Len(fromClient) < MaxRecords
    /\ fromClient' = Append(fromClient,
                        [type |-> "app", tag |-> IF sumPending THEN Received ELSE NoTag])
    /\ sumPending' = FALSE
    /\ UNCHANGED <<genuine, consumed, spc, step, appCount, first, toDecoy,
                   produced, cpc, hashing, hashed, fakeClosed, toClient, realSent>>

(* The decoy answers forwarded records, at most once each.               *)
DecoyReply ==
    /\ ~fakeClosed
    /\ produced < Len(toDecoy) /\ produced < MaxDecoy
    /\ produced' = produced + 1
    /\ UNCHANGED <<genuine, sumPending, fromClient, consumed, spc, step,
                   appCount, first, toDecoy, cpc, hashing, hashed, fakeClosed,
                   toClient, realSent>>

-----------------------------------------------------------------------------
(* go io.Copy(hashW, fakeConn): a Read of the decoy connection, which     *)
(* fails once it is closed, then a Write through the HashWriter.         *)
CopierRead ==
    /\ cpc = "read"
    /\ \/ /\ ~fakeClosed /\ Received < produced
          /\ cpc' = "write"
       \/ /\ fakeClosed
          /\ cpc' = "done"
    /\ UNCHANGED <<genuine, sumPending, fromClient, consumed, spc, step,
                   appCount, first, toDecoy, produced, hashing, hashed,
                   fakeClosed, toClient, realSent>>

CopierWrite ==
    /\ cpc = "write"
    /\ toClient' = Append(toClient, "decoy")
    /\ hashed' = IF hashing THEN hashed + 1 ELSE hashed
    /\ cpc' = "read"
    /\ UNCHANGED <<genuine, sumPending, fromClient, consumed, spc, step,
                   appCount, first, toDecoy, produced, hashing, fakeClosed,
                   realSent>>

-----------------------------------------------------------------------------
(* hashW.Written() && length >= 8 && first8 == hashW.Sum()               *)
Authenticates(r) == r.type = "app" /\ hashed > 0 /\ r.tag = hashed

(* Mutant: the decoy handed the record only after the fallback decision. *)
ForwardLate(r) ==
    LET n == appCount + (IF r.type = "app" THEN 1 ELSE 0) IN
    /\ toDecoy' = IF n > maxAppDataCount THEN toDecoy ELSE Append(toDecoy, r)
    /\ appCount' = n
    /\ step' = step + 1
    /\ spc' = CASE n > maxAppDataCount -> "fallback"
                [] step + 1 > maxStep  -> "error"
                [] OTHER               -> "sniff"
    /\ hashing' = (n <= maxAppDataCount)
    /\ UNCHANGED <<fakeClosed, first>>

(* One pass of the sniffing loop over a record that does not            *)
(* authenticate: forward it with its header, count it if it is app data, *)
(* then fail over after maxAppDataCount, or give up after maxStep.  The   *)
(* ErrFailed return makes shadowTls2 stop hashing.                        *)
Forward(r) ==
    LET n == appCount + (IF r.type = "app" THEN 1 ELSE 0) IN
    /\ toDecoy' = Append(toDecoy, r)
    /\ appCount' = n
    /\ step' = step + 1
    /\ spc' = CASE n > maxAppDataCount -> "fallback"
                [] step + 1 > maxStep  -> "error"
                [] OTHER               -> "sniff"
    /\ hashing' = (n <= maxAppDataCount)
    /\ UNCHANGED <<fakeClosed, first>>

(* Mutant: the record forwarded to the decoy before it is checked.      *)
AcceptForwarded(r) ==
    /\ first' = r
    /\ spc' = "real"
    /\ fakeClosed' = TRUE
    /\ toDecoy' = Append(toDecoy, r)
    /\ UNCHANGED <<appCount, step, hashing>>

(* The authenticated record: shadowTls2 closes the decoy connection and  *)
(* returns the record, minus its 8 bytes, as the first payload.           *)
Accept(r) ==
    /\ first' = r
    /\ spc' = "real"
    /\ fakeClosed' = TRUE
    /\ UNCHANGED <<toDecoy, appCount, step, hashing>>

ServerRecord ==
    /\ spc = "sniff"
    /\ consumed < Len(fromClient)
    /\ consumed' = consumed + 1
    /\ LET r == fromClient[consumed + 1] IN
         IF Authenticates(r) THEN Accept(r) ELSE Forward(r)
    /\ UNCHANGED <<genuine, sumPending, fromClient, produced, cpc, hashed,
                   toClient, realSent>>

(* io.ReadFull of the header times out: a hard error.                     *)
ServerTimeout ==
    /\ spc = "sniff"
    /\ consumed = Len(fromClient)
    /\ spc' = "error"
    /\ UNCHANGED <<genuine, sumPending, fromClient, consumed, step, appCount,
                   first, toDecoy, produced, cpc, hashing, hashed, fakeClosed,
                   toClient, realSent>>

(* Fallback: go io.Copy(fakeConn, clientConn).                            *)
FallbackCopy ==
    /\ spc = "fallback"
    /\ consumed < Len(fromClient)
    /\ toDecoy' = Append(toDecoy, fromClient[consumed + 1])
    /\ consumed' = consumed + 1
    /\ UNCHANGED <<genuine, sumPending, fromClient, spc, step, appCount, first,
                   produced, cpc, hashing, hashed, fakeClosed, toClient, realSent>>

(* The caller relays real data to the client over the returned conn.     *)
RealWrite ==
    /\ spc = "real" /\ ~realSent
    /\ toClient' = Append(toClient, "real")
    /\ realSent' = TRUE
    /\ UNCHANGED <<genuine, sumPending, fromClient, consumed, spc, step,
                   appCount, first, toDecoy, produced, cpc, hashing, hashed,
                   fakeClosed>>

Next == \/ ClientSendAny \/ ClientHandshake \/ ClientWrite \/ DecoyReply
        \/ CopierRead \/ CopierWrite
        \/ ServerRecord \/ ServerTimeout \/ FallbackCopy \/ RealWrite

Spec == Init /\ [][Next]_vars

-----------------------------------------------------------------------------
(* Once the server switches to real mode, the decoy has received exactly *)
(* the client's records before the authenticated one, in order, and the  *)
(* authenticated record is the first payload: it never reaches the decoy *)
(* and nothing the client sent before it is lost.                         *)
AuthRecordHidden ==
    spc = "real" =>
        /\ toDecoy = SubSeq(fromClient, 1, consumed - 1)
        /\ first = fromClient[consumed]

(* On fallback the decoy connection stays open and has received every   *)
(* record the server read, in order, including the one that failed it:   *)
(* to the decoy the server is a transparent pipe.                         *)
FallbackTransparent ==
    spc = "fallback" =>
        /\ ~fakeClosed
        /\ toDecoy = SubSeq(fromClient, 1, consumed)

(* Spec 4.4: for a genuine client the switch to real data is clean: its *)
(* HMAC-tagged first record is accepted and never forwarded to the decoy, *)
(* and no decoy bytes follow real data on the client connection.  Both    *)
(* depend on the decoy copier goroutine, which runs until fakeConn.Close. *)
(* A handshake that gives up leaves no decoy connection behind: the step  *)
(* limit, spec 4.4's fallback, and a read error end with fakeConn closed. *)
CleanSwitch ==
    /\ \A i \in 1..Len(toDecoy) : toDecoy[i].tag = NoTag
    /\ \A i, j \in 1..Len(toClient) :
          i < j /\ toClient[i] = "real" => toClient[j] # "decoy"
    /\ spc = "error" => fakeClosed
=============================================================================
