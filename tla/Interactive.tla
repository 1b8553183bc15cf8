----------------------------- MODULE Interactive -----------------------------
(***************************************************************************)
(* The interactive mode of cmd/verysimple (cli.go, cmd.go): its own       *)
(* process-wide allServers, listenCloserList, allClients and              *)
(* defaultOutClient, which the menu entries "hot load a config file" and  *)
(* "hot remove a server or client" change.  The interactive loop runs one *)
(* entry at a time, so each entry is one step.                            *)
(*                                                                         *)
(* A server listens at most once here (every configuration makes a fresh  *)
(* one), so its listener is named by the server.  Removal closes          *)
(* listenCloserList[i] for allServers[i]: like the machine, the mode      *)
(* takes the two lists to be index-aligned.  Which of NewServer,          *)
(* ServerFromURL, NewClient, ClientFromURL and ListenSer (all outside     *)
(* src/) fail is a choice.  The mode starts with no configuration loaded. *)
(***************************************************************************)
EXTENDS Naturals, Sequences, SequencesExt

CONSTANTS
    ISrv,   \* the servers a loaded file can describe
    ICli    \* the clients a loaded file can describe

VARIABLES
    iServers,   \* allServers
    iLcl,       \* listenCloserList: the servers whose listener it holds
    iClients,   \* allClients
    iDefault,   \* defaultOutClient: "nil", "direct" or a client
    iOpen,      \* servers whose listener is open
    iListened,  \* servers that ever got a listener
    iUsed,      \* servers and clients a file has described so far
    iCrashed    \* an index out of range panicked

ivars == <<iServers, iLcl, iClients, iDefault, iOpen, iListened, iUsed, iCrashed>>

IInit ==
    /\ iServers = << >> /\ iLcl = << >> /\ iClients = << >> /\ iDefault = "nil"
    /\ iOpen = {} /\ iListened = {} /\ iUsed = {} /\ iCrashed = FALSE

Fresh(S) == S \ iUsed

(* The servers of a listen conf that hotLoadListenConfForRuntime keeps:   *)
(* it returns at the first one NewServer fails on, and keeps those        *)
(* ListenSer listened; each is appended to both lists.                     *)
Kept(lc, bad, nolis) ==
    LET stop == {i \in 1..Len(lc) : lc[i] \in bad}
        last == IF stop = {} THEN Len(lc) ELSE Min(stop) - 1
    IN SelectSeq(SubSeq(lc, 1, last), LAMBDA s : s \notin nolis)

(* hotLoadDialConfForRuntime: append each client NewClient creates; if    *)
(* defaultOutClient is nil, make it the first client, or DirectClient.    *)
DialLoaded(dc, bad) ==
    LET all == iClients \o SelectSeq(dc, LAMBDA c : c \notin bad) IN
    [clients |-> all,
     default |-> IF iDefault # "nil" THEN iDefault
                 ELSE IF all # << >> THEN all[1] ELSE "direct"]

(* interactively_hotLoadConfigFile on a standard config: its dial         *)
(* entries if it has any, then its listen entries.                         *)
HotLoadStandard(dc, lc, badC, badS, nolis) ==
    LET d == IF dc = << >> THEN [clients |-> iClients, default |-> iDefault]
             ELSE DialLoaded(dc, badC)
        k == Kept(lc, badS, nolis)
    IN /\ iClients' = d.clients /\ iDefault' = d.default
       /\ iServers' = iServers \o k /\ iLcl' = iLcl \o k
       /\ iOpen' = iOpen \cup ToSet(k) /\ iListened' = iListened \cup ToSet(k)
       /\ iUsed' = iUsed \cup ToSet(dc) \cup ToSet(lc)
       /\ UNCHANGED iCrashed

(* loadSimpleServer: the server ServerFromURL made goes to allServers.   *)
SimpleServerLoaded(s) == Append(iServers, s)

(* loadSimpleClient: the client ClientFromURL made, if it made one, goes *)
(* to allClients.                                                          *)
SimpleClientLoaded(c, ok) == IF ok THEN Append(iClients, c) ELSE iClients

(* interactively_hotLoadConfigFile on a simple config: loadSimpleServer,  *)
(* then loadSimpleClient, whose failure returns; then ListenSer(ser,     *)
(* cli), whose listener, if any, is appended to listenCloserList.  (A    *)
(* failing ServerFromURL returns before anything changes.)                *)
HotLoadSimple(s, c, cliOk, lisOk) ==
    LET listened == cliOk /\ lisOk IN
    /\ iServers' = SimpleServerLoaded(s)
    /\ iClients' = SimpleClientLoaded(c, cliOk)
    /\ iLcl' = IF listened THEN Append(iLcl, s) ELSE iLcl
    /\ iOpen' = IF listened THEN iOpen \cup {s} ELSE iOpen
    /\ iListened' = IF listened THEN iListened \cup {s} ELSE iListened
    /\ iUsed' = iUsed \cup {s, c}
    /\ UNCHANGED <<iDefault, iCrashed>>

(* interactively_hotRemoveServerOrClient, listen: the index is checked    *)
(* against allServers only; listenCloserList[i].Close(), Stop, and both   *)
(* lists trimmed.  An index past listenCloserList panics.                 *)
HotRemoveListen(i) ==
    /\ IF i > Len(iLcl)
         THEN iCrashed' = TRUE /\ UNCHANGED <<iServers, iLcl, iOpen>>
         ELSE /\ iOpen' = iOpen \ {iLcl[i]}
              /\ iServers' = RemoveAt(iServers, i) /\ iLcl' = RemoveAt(iLcl, i)
              /\ UNCHANGED iCrashed
    /\ UNCHANGED <<iClients, iDefault, iListened, iUsed>>

(* interactively_hotRemoveServerOrClient, dial: Stop the client, trim it. *)
HotRemoveDial(i) ==
    /\ iClients' = RemoveAt(iClients, i)
    /\ UNCHANGED <<iServers, iLcl, iDefault, iOpen, iListened, iUsed, iCrashed>>

(* The menu: a config file of at most one fresh client and two fresh      *)
(* servers, or a simple config of one of each; or the removal of a server *)
(* (any index below len(allServers)) or of a client.                       *)
INext ==
    /\ ~iCrashed
    /\ \/ \E dc \in {<< >>} \cup {<< c >> : c \in Fresh(ICli)},
            lc \in {<< >>} \cup {<< s >> : s \in Fresh(ISrv)}
                   \cup {<< s, t >> : s, t \in Fresh(ISrv)},
            badC \in SUBSET ICli, badS \in SUBSET ISrv, nolis \in SUBSET ISrv :
          /\ Len(lc) = 2 => lc[1] # lc[2]
          /\ badC \subseteq ToSet(dc) /\ badS \subseteq ToSet(lc) /\ nolis \subseteq ToSet(lc)
          /\ HotLoadStandard(dc, lc, badC, badS, nolis)
       \/ \E s \in Fresh(ISrv), c \in Fresh(ICli), cliOk, lisOk \in BOOLEAN :
          HotLoadSimple(s, c, cliOk, lisOk)
       \/ \E i \in 1..Len(iServers) : HotRemoveListen(i)
       \/ \E i \in 1..Len(iClients) : HotRemoveDial(i)

ISpec == IInit /\ [][INext]_ivars

-----------------------------------------------------------------------------
(* The interactive mode keeps its handles sound: no removal panics, and   *)
(* of the servers that got a listener, exactly those still in allServers  *)
(* have it open, so that removing a server closes its own listener and    *)
(* no other.                                                               *)
InteractiveSound ==
    /\ ~iCrashed
    /\ \A s \in iListened : s \in iOpen <=> s \in ToSet(iServers)
=============================================================================
