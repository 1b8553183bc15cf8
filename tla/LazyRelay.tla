----------------------------- MODULE LazyRelay -----------------------------
(***************************************************************************)
(* Control of one endpoint of the lazy-TLS relay, tryTlsLazyRawRelay in   *)
(* tls_lazy.go.  The function runs two copy directions of one session:    *)
(*                                                                         *)
(*   R, a goroutine, reads the local connection wlc (a SniffConn) and     *)
(*     writes to the remote connection wrc;                                *)
(*   W, the calling goroutine, reads wrc and writes to wlc.               *)
(*                                                                         *)
(* Each direction sniffs what it forwards.  When its sniffer says "this   *)
(* is TLS" it switches to a raw splice; when it says "definitely not TLS" *)
(* it degrades to a plain copy.  In secure mode (client only) the remote  *)
(* TLS dial is deferred until R has read the first local bytes, and W     *)
(* waits for it on the unbuffered channel waitWRC_CreateChan.  Only W's   *)
(* return runs the deferred wlc.Close and wrc.Close.                      *)
(*                                                                         *)
(* Byte contents are abstracted: a peer offers a bounded number of        *)
(* chunks, and the verdict of the sniffer after a read (SniffConn, whose  *)
(* code is outside src/) is a nondeterministic choice.                    *)
(***************************************************************************)
EXTENDS Naturals

CONSTANTS
    IsClient,   \* isclient: this endpoint is the proxy client
    SecureModes, \* values useSecureMethod (tls_lazy_secure, client only) may take
    MaxChunks    \* chunks each peer may send before it goes idle

ASSUME IsClient \in BOOLEAN /\ SecureModes \subseteq BOOLEAN
ASSUME TRUE \in SecureModes => IsClient
ASSUME MaxChunks \in Nat

VARIABLES
    useSecure,     \* useSecureMethod of this session
    rpc,           \* R goroutine: "idle","read","dial","handoff","splice","copy","done"
    wpc,           \* W (caller):  "start","wait","read","splice","copy","done"
    rsniff,        \* wlcdc.R verdict: "sniff", "tls" (IsTls), "nottls" (DefinitelyNotTLS)
    wsniff,        \* wlcdc.W verdict
    dialed,        \* secure mode: the TLS dial and proxy handshake succeeded
    localLeft,     \* chunks the local application will still send
    remoteLeft,    \* chunks the remote will still send
    localEOF,      \* the local application closed its side
    remoteEOF,     \* the remote closed its side
    closedLocal,   \* this endpoint closed wlc
    closedRemote   \* this endpoint closed wrc

vars == <<useSecure, rpc, wpc, rsniff, wsniff, dialed, localLeft, remoteLeft,
          localEOF, remoteEOF, closedLocal, closedRemote>>

Verdicts == {"sniff", "tls", "nottls"}

(* A Read on a connection returns data, returns an error, or blocks.      *)
LocalHasData  == localLeft > 0 /\ ~localEOF /\ ~closedLocal
LocalReadErr  == localEOF \/ closedLocal
RemoteHasData == remoteLeft > 0 /\ ~remoteEOF /\ ~closedRemote
RemoteReadErr == remoteEOF \/ closedRemote

Init ==
    /\ useSecure \in SecureModes
    /\ rpc = "idle" /\ wpc = "start"
    /\ rsniff = "sniff" /\ wsniff = "sniff"
    /\ dialed = FALSE
    /\ localLeft = MaxChunks /\ remoteLeft = MaxChunks
    /\ localEOF = FALSE /\ remoteEOF = FALSE
    /\ closedLocal = FALSE /\ closedRemote = FALSE

(* Mutant: secure mode without W waiting for the handoff.                 *)
StartNoWait ==
    /\ wpc = "start"
    /\ rpc' = "read" /\ wpc' = "read"
    /\ UNCHANGED <<useSecure, rsniff, wsniff, dialed, localLeft, remoteLeft,
                   localEOF, remoteEOF, closedLocal, closedRemote>>

(* The set-up before the two directions run.  Outside secure mode the raw *)
(* remote TCPConn may come out nil (rawWRC == nil); the function then     *)
(* degrades to two plain copies.  Otherwise R is started, and in secure   *)
(* mode W first waits on the handoff channel.                             *)
Start ==
    /\ wpc = "start"
    /\ \/ /\ ~useSecure
          /\ \E rawNil \in BOOLEAN :
                IF rawNil THEN rpc' = "copy" /\ wpc' = "copy"
                          ELSE rpc' = "read" /\ wpc' = "read"
       \/ /\ useSecure
          /\ rpc' = "read" /\ wpc' = "wait"
    /\ UNCHANGED <<useSecure, rsniff, wsniff, dialed, localLeft, remoteLeft,
                   localEOF, remoteEOF, closedLocal, closedRemote>>

(* One iteration of R's sniffing loop.  A read error breaks the loop with *)
(* neither isgood nor isbad, and the goroutine just returns.  In secure   *)
(* mode the first successful read triggers the deferred dial; otherwise   *)
(* IsTls selects the splice and DefinitelyNotTLS the plain copy.          *)
RRead ==
    /\ rpc = "read"
    /\ \/ /\ LocalHasData
          /\ localLeft' = localLeft - 1
          /\ \E v \in Verdicts :
                /\ rsniff' = IF rsniff = "sniff" THEN v ELSE rsniff
                /\ rpc' = CASE useSecure /\ ~dialed -> "dial"
                            [] rsniff' = "tls"      -> "splice"
                            [] rsniff' = "nottls"   -> "copy"
                            [] OTHER                -> "read"
       \/ /\ LocalReadErr
          /\ rpc' = "done"
          /\ UNCHANGED <<localLeft, rsniff>>
    /\ UNCHANGED <<useSecure, wpc, wsniff, dialed, remoteLeft, localEOF, remoteEOF,
                   closedLocal, closedRemote>>

(* Secure mode: TLS handshake over rawWRC, then the proxy handshake.  On  *)
(* either error the goroutine logs and returns.                           *)
RDial ==
    /\ rpc = "dial"
    /\ \/ rpc' = "handoff" /\ dialed' = TRUE
       \/ rpc' = "done" /\ UNCHANGED dialed
    /\ UNCHANGED <<useSecure, wpc, rsniff, wsniff, localLeft, remoteLeft, localEOF,
                   remoteEOF, closedLocal, closedRemote>>

(* waitWRC_CreateChan <- 1 meets W's <-waitWRC_CreateChan (unbuffered).   *)
Handoff ==
    /\ rpc = "handoff" /\ wpc = "wait"
    /\ rpc' = "read" /\ wpc' = "read"
    /\ UNCHANGED <<useSecure, rsniff, wsniff, dialed, localLeft, remoteLeft, localEOF,
                   remoteEOF, closedLocal, closedRemote>>

(* R after the loop: rawWRC.ReadFrom(wlccc_raw) or TryCopy(wrc, wlc).     *)
(* Both forward until reading wlc fails or writing wrc fails.             *)
RRelay ==
    /\ rpc \in {"splice", "copy"}
    /\ \/ /\ LocalHasData
          /\ localLeft' = localLeft - 1
          /\ rpc' = IF closedRemote THEN "done" ELSE rpc
       \/ /\ LocalReadErr
          /\ rpc' = "done"
          /\ UNCHANGED localLeft
    /\ UNCHANGED <<useSecure, wpc, rsniff, wsniff, dialed, remoteLeft, localEOF,
                   remoteEOF, closedLocal, closedRemote>>

(* Mutant: the return without the deferred wlc.Close.                     *)
WReturnKeepLocal ==
    /\ wpc' = "done"
    /\ closedLocal' = closedLocal
    /\ closedRemote' = TRUE

(* Every return of tryTlsLazyRawRelay runs the deferred closes.           *)
WReturn ==
    /\ wpc' = "done"
    /\ closedLocal' = TRUE
    /\ closedRemote' = TRUE

(* One iteration of W's loop.  On W.IsTls the client takes the bytes that *)
(* follow the server's special command from the recorder; when the index *)
(* it computes exceeds the buffer (nextI > len(bs)) it closes localConn   *)
(* and rawWRC and returns.                                                 *)
WRead ==
    /\ wpc = "read"
    /\ \/ /\ RemoteHasData
          /\ remoteLeft' = remoteLeft - 1
          /\ \E v \in Verdicts, badIndex \in BOOLEAN :
                /\ wsniff' = IF wsniff = "sniff" THEN v ELSE wsniff
                /\ IF wsniff' = "tls" /\ IsClient /\ badIndex
                     THEN WReturn
                     ELSE /\ wpc' = CASE wsniff' = "tls"    -> "splice"
                                      [] wsniff' = "nottls" -> "copy"
                                      [] OTHER              -> "read"
                          /\ UNCHANGED <<closedLocal, closedRemote>>
       \/ /\ RemoteReadErr
          /\ WReturn
          /\ UNCHANGED <<remoteLeft, wsniff>>
    /\ UNCHANGED <<useSecure, rpc, rsniff, dialed, localLeft, localEOF, remoteEOF>>

(* W after the loop: wlccc_raw.ReadFrom(rawWRC) or TryCopy(wlc, wrc), and *)
(* then the return.                                                        *)
WRelay ==
    /\ wpc \in {"splice", "copy"}
    /\ \/ /\ RemoteHasData
          /\ remoteLeft' = remoteLeft - 1
          /\ IF closedLocal THEN WReturn
                            ELSE UNCHANGED <<wpc, closedLocal, closedRemote>>
       \/ /\ RemoteReadErr
          /\ WReturn
          /\ UNCHANGED remoteLeft
    /\ UNCHANGED <<useSecure, rpc, rsniff, wsniff, dialed, localLeft, localEOF, remoteEOF>>

(* The peers: each may send its chunks and close its side at any time.   *)
LocalClose ==
    /\ ~localEOF
    /\ localEOF' = TRUE
    /\ UNCHANGED <<useSecure, rpc, wpc, rsniff, wsniff, dialed, localLeft, remoteLeft,
                   remoteEOF, closedLocal, closedRemote>>

RemoteClose ==
    /\ ~remoteEOF
    /\ remoteEOF' = TRUE
    /\ UNCHANGED <<useSecure, rpc, wpc, rsniff, wsniff, dialed, localLeft, remoteLeft,
                   localEOF, closedLocal, closedRemote>>

Relay == RRead \/ RDial \/ Handoff \/ RRelay \/ WRead \/ WRelay

Next == Start \/ Relay \/ LocalClose \/ RemoteClose

(* Runnable goroutines get scheduled; the peers are under no obligation.  *)
Spec == Init /\ [][Next]_vars
        /\ WF_vars(Start) /\ WF_vars(RRead) /\ WF_vars(RDial)
        /\ WF_vars(Handoff) /\ WF_vars(RRelay) /\ WF_vars(WRead)
        /\ WF_vars(WRelay)

-----------------------------------------------------------------------------
Finished == rpc = "done" /\ wpc = "done" /\ closedLocal /\ closedRemote

(* Once the remote has closed, both goroutines of the session finish and  *)
(* both connections are closed, even if the local application stays open *)
(* and idle: W's read fails, its deferred closes fail R's pending read.   *)
Termination == remoteEOF ~> Finished

(* The same, for sessions outside secure mode.                            *)
PlainTermination == (remoteEOF /\ ~useSecure) ~> Finished

(* Secure mode: W never reads the remote connection before R has         *)
(* finished the deferred dial and handed the new wrc over.               *)
NoReadBeforeDial ==
    useSecure /\ wpc \in {"read", "splice", "copy"} => dialed
=============================================================================
