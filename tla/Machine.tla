------------------------------- MODULE Machine -------------------------------
(***************************************************************************)
(* The proxy machine (machine/machine.go, machine/load.go): its list of   *)
(* servers, allServers, the list of their listeners, listenCloserList,    *)
(* and its list of clients, under Start, Stop, the loading of listen,     *)
(* dial and URL configurations and the deletion of servers and clients,   *)
(* as the GUI and API drive them; with the servers that listen by         *)
(* themselves, tun (proxy/tun/tun.go) and tproxy                          *)
(* (proxy/tproxy/server_linux.go), whose StartListen and Stop the machine *)
(* runs through ListenSer, Stop and listener.Close.                        *)
(*                                                                         *)
(* HotDeleteServer(i) stops allServers[i] and closes listenCloserList[i]: *)
(* it takes the two lists to be index-aligned.  A listener is identified  *)
(* by the order in which it was opened, and remembers the server it       *)
(* accepts for.  Each operation holds the machine from its first line to  *)
(* its last (Start and Stop under m.Lock; the others run on the one GUI   *)
(* or API goroutine), so each is one step.  ListenSer, outside src/, may *)
(* fail (lis == nil); it always fails for a server that is listening      *)
(* already, whose port or device is taken.  A tun or tproxy server's      *)
(* listener is the server itself: closing it runs its Stop.  A panic      *)
(* (a method called on a nil stackCloser or tm) ends the process, and the *)
(* operating system closes every socket.                                   *)
(***************************************************************************)
EXTENDS Naturals, Sequences, SequencesExt

CONSTANTS
    Srv,            \* the servers any configuration can create
    TunSrv,         \* those of them that are tun servers
    TproxySrv,      \* those of them that are tproxy servers
    Cli,            \* the clients any configuration can create
    MaxListeners,   \* listeners the machine may open in a behaviour
    ListenMayFail,  \* ListenSer may fail for a server whose port is free
    TproxyNet       \* the network of the tproxy servers: "dual" (the default) or "udp"

ASSUME TunSrv \subseteq Srv /\ TproxySrv \subseteq Srv /\ TunSrv \cap TproxySrv = {}
ASSUME MaxListeners \in Nat /\ ListenMayFail \in BOOLEAN
ASSUME TproxyNet \in {"dual", "udp"}

Kind(s) == IF s \in TunSrv THEN "tun" ELSE IF s \in TproxySrv THEN "tproxy" ELSE "plain"

VARIABLES
    running,        \* m.running
    allServers,     \* m.allServers
    lcl,            \* m.listenCloserList: listener ids
    lisSrv,         \* lisSrv[l]: the server listener l accepts for
    openLis,        \* listeners not closed yet
    stopped,        \* plain servers whose Stop has run
    flag,           \* tun: s.stopped; tproxy: s.Once has run
    handle,         \* tun: s.stackCloser; tproxy: s.tm (a listener id, 0 = nil)
    crashed,        \* the process has panicked
    created,        \* servers some configuration has produced
    allClients,     \* m.allClients
    defaultClient,  \* m.DefaultOutClient ("direct": v2ray_simple.DirectClient)
    cstopped,       \* clients whose Stop has run
    stopPc,         \* the Stop goroutine: "idle", "srv" (its server loop), "lis"
    stopIdx,        \* the index its loop is at
    stopArr         \* the allServers slice its range loop evaluated

srvVars == <<running, allServers, lcl, lisSrv, openLis, stopped, flag, handle,
             crashed, created>>
cliVars == <<allClients, defaultClient, cstopped>>
stopVars == <<stopPc, stopIdx, stopArr>>
vars == <<srvVars, cliVars, stopVars>>

(* m.Lock is held by a Stop still running; Start waits for it.           *)
Stopping == stopPc # "idle"

Init ==
    /\ running = FALSE
    /\ allServers = << >> /\ lcl = << >> /\ lisSrv = << >>
    /\ openLis = {} /\ stopped = {} /\ created = {}
    /\ flag = [s \in Srv |-> FALSE] /\ handle = [s \in Srv |-> 0]
    /\ crashed = FALSE
    /\ allClients = << >> /\ defaultClient = "direct" /\ cstopped = {}
    /\ stopPc = "idle" /\ stopIdx = 0 /\ stopArr = << >>

-----------------------------------------------------------------------------
(* The server state as one record, so that the loops of an operation are *)
(* folds over it.  got is the listener the last ListenSer returned.       *)
Now == [srv |-> allServers, lcl |-> lcl, lisSrv |-> lisSrv, open |-> openLis,
        stopped |-> stopped, flag |-> flag, handle |-> handle,
        crashed |-> crashed, got |-> 0]

SetTo(w) ==
    /\ allServers' = w.srv /\ lcl' = w.lcl /\ lisSrv' = w.lisSrv
    /\ openLis' = IF w.crashed THEN {} ELSE w.open
    /\ stopped' = w.stopped /\ flag' = w.flag /\ handle' = w.handle
    /\ crashed' = w.crashed
    /\ Len(w.lisSrv) <= MaxListeners

Listening(w, s) == \E l \in w.open : w.lisSrv[l] = s

(* What ListenSer(s) may come to.  plain: a listener or nil.  tun        *)
(* StartListen: tun.Open fails, tun.Listen fails, or a stack.  tproxy     *)
(* StartListen: both sockets fail, the UDP one fails after the TCP one    *)
(* came up, or both come up.  A server listening already fails in the    *)
(* first way.                                                             *)
(* tproxy SelfListen: a dual network listens on TCP and UDP, a UDP one   *)
(* on UDP only; only a TCP listener can be left behind by a failed UDP    *)
(* socket.                                                                 *)
TproxyOutcomes(net) ==
    IF net = "dual" THEN {"ok", "fail", "udpFail"} ELSE {"ok", "fail"}

Outcomes(w, s) ==
    LET all == CASE Kind(s) = "plain" -> {"ok", "fail"}
                 [] Kind(s) = "tun"   -> {"ok", "fail", "listenFail"}
                 [] OTHER             -> TproxyOutcomes(TproxyNet)
    IN CASE Listening(w, s) -> {"fail"}
         [] ListenMayFail   -> all
         [] OTHER           -> {"ok"}

(* tun.Listen (netLayer/tun/tun.go) on an opened device: stack.New, then *)
(* the stack options and the NIC, either of which may fail, and it        *)
(* returns the StackCloser with the error.  StartListen then closes the   *)
(* device and returns nil, dropping the closer: the stack stays open and  *)
(* nothing holds it.  On success the stack is s.stackCloser and s itself  *)
(* is the listener.  opened is the state with the stack as listener got.  *)
TunListen(opened, s, ok) ==
    IF ok THEN [opened EXCEPT !.flag[s] = FALSE, !.handle[s] = opened.got]
          ELSE [opened EXCEPT !.flag[s] = FALSE, !.got = 0]

(* ListenSer(s) with outcome o.  tun StartListen clears s.stopped first, *)
(* sets it again when tun.Open fails, and keeps stackCloser when          *)
(* tun.Listen fails; tproxy StartListen leaves its TCP listener open and  *)
(* s.tm unset when the UDP socket fails.                                  *)
ListenSer(w, s, o) ==
    LET l == Len(w.lisSrv) + 1
        opened == [w EXCEPT !.lisSrv = Append(@, s), !.open = @ \cup {l}, !.got = l]
        w0 == [w EXCEPT !.got = 0]
    IN CASE o = "ok" /\ Kind(s) = "plain"  -> opened
         [] o = "ok" /\ Kind(s) = "tun"    -> TunListen(opened, s, TRUE)
         [] o = "ok"                       -> [opened EXCEPT !.handle[s] = l]
         [] o = "fail" /\ Kind(s) = "tun"  -> [w0 EXCEPT !.flag[s] = TRUE]
         [] o = "listenFail"               -> TunListen(opened, s, FALSE)
         [] o = "udpFail"                  -> [opened EXCEPT !.got = 0]
         [] OTHER                          -> w0

(* ser.Stop().  tun: once s.stopped is set, nothing; else set it, close  *)
(* stackCloser (a panic when it is nil) and clear it.  tproxy: under      *)
(* s.Once, s.tm.Stop() (a panic when tm is nil).                          *)
StopSrv(w, s) ==
    CASE w.crashed          -> w
      [] Kind(s) = "plain"  -> [w EXCEPT !.stopped = @ \cup {s}]
      [] w.flag[s]          -> w
      [] w.handle[s] = 0    -> [w EXCEPT !.flag[s] = TRUE, !.crashed = TRUE]
      [] Kind(s) = "tun"    -> [w EXCEPT !.flag[s] = TRUE, !.open = @ \ {w.handle[s]},
                                         !.handle[s] = 0]
      [] OTHER              -> [w EXCEPT !.flag[s] = TRUE, !.open = @ \ {w.handle[s]}]

(* listener.Close(): a plain listener closes; a tun or tproxy server's   *)
(* Close is its Stop.                                                     *)
CloseLis(w, l) ==
    CASE w.crashed                     -> w
      [] Kind(w.lisSrv[l]) = "plain"   -> [w EXCEPT !.open = @ \ {l}]
      [] OTHER                         -> StopSrv(w, w.lisSrv[l])

(* A listener ListenSer returned goes to the end of listenCloserList.    *)
Keep(r) == IF r.got # 0 THEN [r EXCEPT !.lcl = Append(@, r.got)] ELSE r

AnyOutcome == {"ok", "fail", "listenFail", "udpFail"}

(* A choice of outcome for each of the servers ss, in order.             *)
ListenChoices(w, ss) ==
    {o \in [1..Len(ss) -> AnyOutcome] : \A i \in 1..Len(ss) : o[i] \in Outcomes(w, ss[i])}

-----------------------------------------------------------------------------
(* Start: with a default client (never nil: New sets one) and at least   *)
(* one server, set running and ListenSer every server, keeping the        *)
(* listeners that came up.  Nothing stops a second Start.                  *)
Start ==
    /\ ~crashed /\ ~Stopping /\ Len(allServers) > 0
    /\ running' = TRUE
    /\ \E o \in ListenChoices(Now, allServers) :
          SetTo(FoldLeft(LAMBDA w, i : Keep(ListenSer(w, w.srv[i], o[i])),
                         Now, [i \in 1..Len(allServers) |-> i]))
    /\ UNCHANGED <<created, cliVars, stopVars>>

(* stopF (gui.go) runs Stop on a goroutine and stops waiting for it     *)
(* after two seconds; the GUI goes on while Stop holds m.Lock.  Stop:     *)
(* lock, clear running, range over allServers calling Stop, range over    *)
(* listenCloserList calling Close (the list is kept as it is), unlock.    *)
StopBegin ==
    /\ ~crashed /\ ~Stopping
    /\ running' = FALSE
    /\ stopPc' = "srv" /\ stopIdx' = 1 /\ stopArr' = allServers
    /\ UNCHANGED <<allServers, lcl, lisSrv, openLis, stopped, flag, handle,
                   crashed, created, cliVars>>

(* One pass of for _, ser := range m.allServers.  The range evaluated    *)
(* the slice once; a HotDeleteServer that trims the live slice meanwhile  *)
(* races the read of element i (TrimSlice is outside src/), which gives   *)
(* the server evaluated or the one now at i.                              *)
StopServer ==
    /\ ~crashed /\ stopPc = "srv"
    /\ IF stopIdx > Len(stopArr)
         THEN /\ stopPc' = "lis" /\ stopIdx' = 1
              /\ UNCHANGED <<allServers, lcl, lisSrv, openLis, stopped, flag,
                             handle, crashed>>
         ELSE /\ \E s \in {stopArr[stopIdx]} \cup
                          {allServers[j] : j \in {stopIdx} \cap DOMAIN allServers} :
                    SetTo(StopSrv(Now, s))
              /\ stopIdx' = stopIdx + 1 /\ UNCHANGED stopPc
    /\ UNCHANGED <<running, created, stopArr, cliVars>>

(* Mutant: the listener loop stops one short of the end.                 *)
StopListenerShort ==
    /\ ~crashed /\ stopPc = "lis"
    /\ IF stopIdx >= Len(lcl)
         THEN /\ stopPc' = "idle" /\ stopIdx' = 0 /\ stopArr' = << >>
              /\ UNCHANGED <<allServers, lcl, lisSrv, openLis, stopped, flag,
                             handle, crashed>>
         ELSE /\ SetTo(CloseLis(Now, lcl[stopIdx]))
              /\ stopIdx' = stopIdx + 1 /\ UNCHANGED <<stopPc, stopArr>>
    /\ UNCHANGED <<running, created, cliVars>>

(* One pass of for _, listener := range m.listenCloserList, or the       *)
(* Unlock after the last.  Nothing changes the list meanwhile: running is *)
(* false and Start waits for the lock.                                    *)
StopListener ==
    /\ ~crashed /\ stopPc = "lis"
    /\ IF stopIdx > Len(lcl)
         THEN /\ stopPc' = "idle" /\ stopIdx' = 0 /\ stopArr' = << >>
              /\ UNCHANGED <<allServers, lcl, lisSrv, openLis, stopped, flag,
                             handle, crashed>>
         ELSE /\ SetTo(CloseLis(Now, lcl[stopIdx]))
              /\ stopIdx' = stopIdx + 1 /\ UNCHANGED <<stopPc, stopArr>>
    /\ UNCHANGED <<running, created, cliVars>>

(* LoadListenConf(conf, hot) for a conf of fresh servers, each of which  *)
(* NewServer may fail to create.  Hot on a running machine, each created *)
(* server is listened at once and kept only if ListenSer succeeds;       *)
(* otherwise the created servers are appended only if none failed.        *)
LoadListenConf(conf, hot) ==
    /\ ~crashed
    /\ created' = created \cup ToSet(conf)
    /\ \E badConf \in SUBSET ToSet(conf) :
          LET made == SelectSeq(conf, LAMBDA s : s \notin badConf)
              listenKeep(w, s, o) ==
                  LET r == ListenSer(w, s, o) IN
                  IF r.got # 0 THEN [Keep(r) EXCEPT !.srv = Append(@, s)] ELSE r
          IN IF hot /\ running
               THEN \E o \in ListenChoices(Now, made) :
                       SetTo(FoldLeft(LAMBDA w, i : listenKeep(w, made[i], o[i]),
                                      Now, [i \in 1..Len(made) |-> i]))
               ELSE /\ allServers' = IF badConf = {} THEN allServers \o made
                                                    ELSE allServers
                    /\ UNCHANGED <<lcl, lisSrv, openLis, stopped, flag, handle, crashed>>
    /\ UNCHANGED <<running, cliVars, stopVars>>

(* HotDeleteServer(index), as a function of the state (index from 1).   *)
(* Out of range, or running with no listener at index: nothing.  Else    *)
(* Stop allServers[index] and trim it; when running, Close and trim      *)
(* listenCloserList[index].                                               *)
DeleteServer(w, i) ==
    IF i > Len(w.srv) \/ (running /\ i > Len(w.lcl)) THEN w
    ELSE LET w1 == [StopSrv(w, w.srv[i]) EXCEPT !.srv = RemoveAt(@, i)] IN
         IF running THEN [CloseLis(w1, w.lcl[i]) EXCEPT !.lcl = RemoveAt(@, i)]
                    ELSE w1

HotDeleteServer(i) ==
    /\ ~crashed
    /\ i \in 1..Len(allServers)
    /\ ~running \/ i <= Len(lcl)
    /\ SetTo(DeleteServer(Now, i))
    /\ UNCHANGED <<running, created, cliVars, stopVars>>

(* RemoveAllServer: HotDeleteServer(0) as many times as there were       *)
(* servers when it began.                                                  *)
RECURSIVE DeleteFirst(_, _)
DeleteFirst(w, n) == IF n = 0 THEN w ELSE DeleteFirst(DeleteServer(w, 1), n - 1)

RemoveAllServer ==
    /\ ~crashed
    /\ allServers # << >>
    /\ SetTo(DeleteFirst(Now, Len(allServers)))
    /\ UNCHANGED <<running, created, cliVars, stopVars>>

(* HotLoadListenUrl / HotLoadListenConfStr: a parse error returns before *)
(* anything changes; a parsed entry is loaded hot.                        *)
HotLoadListen(s) == LoadListenConf(<<s>>, TRUE)

-----------------------------------------------------------------------------
(* LoadDialConf for a conf of fresh clients, each of which NewClient may *)
(* fail to create: append the created ones, then make allClients[0] the  *)
(* default client, or DirectClient when there is none.                    *)
LoadDialConf(conf) ==
    /\ ~crashed
    /\ \E badConf \in SUBSET ToSet(conf) :
          LET all == allClients \o SelectSeq(conf, LAMBDA c : c \notin badConf) IN
          /\ allClients' = all
          /\ defaultClient' = IF all # << >> THEN all[1] ELSE "direct"
    /\ UNCHANGED <<cstopped, srvVars, stopVars>>

(* HotLoadDialUrl / HotLoadDialConfStr: a parse error returns before     *)
(* anything changes; a parsed entry goes to LoadDialConf.                 *)
HotLoadDial(c) == LoadDialConf(<<c>>)

(* HotDeleteClient(index): Stop the client and trim it.  The default     *)
(* client is left as it is.                                                *)
HotDeleteClient(i) ==
    /\ ~crashed
    /\ i \in 1..Len(allClients)
    /\ cstopped' = cstopped \cup {allClients[i]}
    /\ allClients' = RemoveAt(allClients, i)
    /\ UNCHANGED <<defaultClient, srvVars, stopVars>>

(* RemoveAllClient: HotDeleteClient(0) once per client.                   *)
RemoveAllClient ==
    /\ ~crashed
    /\ allClients # << >>
    /\ cstopped' = cstopped \cup ToSet(allClients)
    /\ allClients' = << >>
    /\ UNCHANGED <<defaultClient, srvVars, stopVars>>

(* loadUrlConf(hot) of a share-URL pair: loadUrlServer appends the       *)
(* server unless ServerFromURL fails, then loadUrlClient appends the      *)
(* client unless ClientFromURL fails; hot, the server is listened with    *)
(* that client and only its listener is kept, else the client becomes the *)
(* default.  A failure after the server was appended leaves it there.     *)
LoadUrlConf(hot, s, c) ==
    /\ ~crashed
    /\ created' = created \cup {s}
    /\ LET withSrv == [Now EXCEPT !.srv = Append(@, s)] IN
       \/ UNCHANGED <<allServers, lcl, lisSrv, openLis, stopped, flag, handle,
                      crashed, cliVars>>
       \/ /\ SetTo(withSrv)
          /\ UNCHANGED cliVars
       \/ /\ allClients' = Append(allClients, c)
          /\ IF hot
               THEN /\ \E o \in Outcomes(Now, s) : SetTo(Keep(ListenSer(withSrv, s, o)))
                    /\ UNCHANGED defaultClient
               ELSE /\ SetTo(withSrv)
                    /\ defaultClient' = c
          /\ UNCHANGED cstopped
    /\ UNCHANGED <<running, stopVars>>

(* The GUI and API: start, stop, load configurations at start-up or hot, *)
(* load a share-URL pair, delete a server or a client, clear them all.   *)
Next ==
    \/ Start
    \/ StopBegin \/ StopServer \/ StopListener
    \/ \E s \in Srv \ created : HotLoadListen(s)
    \/ \E s, t \in Srv \ created :
          \/ LoadListenConf(<<s>>, FALSE)
          \/ s # t /\ LoadListenConf(<<s, t>>, FALSE)
    \/ \E i \in 1..Len(allServers) : HotDeleteServer(i)
    \/ RemoveAllServer
    \/ \E c \in Cli \ (ToSet(allClients) \cup cstopped) : HotLoadDial(c)
    \/ \E i \in 1..Len(allClients) : HotDeleteClient(i)
    \/ RemoveAllClient
    \/ \E s \in Srv \ created, c \in Cli \ (ToSet(allClients) \cup cstopped),
          hot \in {FALSE, running} :
          LoadUrlConf(hot, s, c)

Spec == Init /\ [][Next]_vars

-----------------------------------------------------------------------------
(* A stopped machine accepts nothing: once the Stop goroutine has       *)
(* unlocked, every listener that Start or a hot load opened is closed,    *)
(* whatever the GUI deleted or loaded before or while Stop ran.           *)
StoppedIsQuiet == ~running /\ ~Stopping => openLis = {}

(* The life cycle keeps the machine's handles sound: no Stop it issues   *)
(* panics on a server that holds nothing, and every open listener is one *)
(* the machine holds in listenCloserList, for a server still in           *)
(* allServers while it runs, so that Stop or a deletion can close it (a   *)
(* Stop under way will close it from the list); and the default client   *)
(* the next Start listens with is never one HotDeleteClient stopped.     *)
LifecycleSound ==
    /\ ~crashed
    /\ defaultClient \notin cstopped
    /\ \A l \in openLis :
          /\ l \in ToSet(lcl)
          /\ Stopping \/ (running /\ lisSrv[l] \in ToSet(allServers))
=============================================================================
