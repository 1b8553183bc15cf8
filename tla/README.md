# TLA+ models of v2ray_simple

This directory holds TLA+ models of the concurrent and protocol-level parts
of v2ray_simple (the sources are under `src/`). TLC checks them. Each
module models one component. Each `.cfg` instantiates one module for one
question, and `PROJECT.json` lists these things:

- the components;
- the runs and what they are expected to show;
- the map from every modelling definition to the source lines it translates;
- the mutants that show each checked property can fail;
- the findings and the hazards.

## The system

v2ray_simple is a proxy. A *machine* (`machine/`) owns lists of servers
(listening protocols) and clients (dialing protocols) and starts a listener
for each server. Each accepted connection goes through this pipeline:

1. Optional TLS: `tlsLayer/server.go`, plus the shadowTLS v1/v2 camouflage
   in `tlsLayer/shadow.go`.
2. The server protocol's `Handshake`: Trojan, HTTP, SOCKS5, shadowsocks,
   tun or tproxy. On a malformed request, some of these return
   `utils.ErrBuffer`, which holds the bytes read so far, for a *fallback*
   to a decoy server.
3. A client protocol (direct, SOCKS5, …) dials the target.
4. The relay copies both directions.

When both ends use the *lazy TLS* mode (`tls_lazy.go`), the relay sniffs the
inner traffic. When that traffic is itself TLS, each endpoint stops wrapping
it in the outer TLS and splices raw bytes. The two endpoints agree on the
switch with a *special command*: the user's auth bytes, sent in the last
outer TLS record. Users are looked up in a `utils.MultiUserMap` by identity
or by auth string.

The servers and clients come from configuration: a TOML file or share URLs
in the standard format of `proxy/config_url.go`. `ServerFromURL` and
`ClientFromURL` read a URL into a conf and `ToStandardUrl` writes one back.

## Inventory

| component | source | state | operations | hard behaviour |
|---|---|---|---|---|
| lazy relay | tls_lazy.go | R goroutine, W loop, sniff verdicts, the handoff channel, the Recorder | setup, R read/dial/relay, W read/relay, the deferred closes | two goroutines; an unbuffered channel; peers that close at any time; byte stream across the switch |
| shadowTLS | tlsLayer/shadow.go | client conn, decoy conn, HashWriter, first payload | handshake relay, app-data scan, fallback | decoy copier racing the switch; short reads; the count of app-data records |
| user map | utils/user.go | IDMap, AuthMap | AddUser, DelUser, LoadUsers, lookups | two maps updated together under a RWMutex |
| Trojan, HTTP, gRPC servers | proxy/trojan/server.go, udpConn.go, proxy/http/server.go, advLayer/grpcSimple/server.go | bytes read so far | read loop, checks, dispatch, UDP frames | arbitrary TCP segmentation; fallback with every byte read |
| SOCKS5 client | proxy/socks5/client*.go | handshake step | greeting, auth, connect, UDP associate | replies cut by TCP; reply lengths |
| UDP framings | trojan/udpConn.go, simplesocks/udpConn.go, shadowsocks.go | — | encode/decode of address + length + payload | zero lengths, port edges |
| machine | machine/machine.go, load.go | allServers, listenCloserList, running | Start, Stop, LoadListenConf, HotDeleteServer, RemoveAllServer | two lists kept index-aligned across hot reloads |
| grpcSimple | advLayer/grpcSimple/server.go | closed flag, the listed connection | StartHandle, Stop, the handler's closed check | stop racing new streams and a handler already running |
| shadowsocks address | proxy/shadowsocks/shadowsocks.go | — | makeWriteBuf, GetAddrFrom | zero domain length, zero port, a header cut short |
| interactive mode | cmd/verysimple/cli.go, cmd.go | its own allServers, listenCloserList, allClients, defaultOutClient | hot load (standard and simple config), hot remove | two lists kept index-aligned by hand |
| tun / tproxy | proxy/tun, proxy/tproxy, netLayer/tun | stack, stopped flag | StartListen, Stop, tun.Listen | a Stop after a failed start; a stack left open by a failed Listen |
| URL configuration | proxy/config_url.go | — | ToStandardUrl, ServerFromURL, ClientFromURL, URLToCommonConf, URLToDialConf, URLToListenConf | a conversion meant to be read back; a URL without a port |

What is left out, and why, is listed under "Not modelled" below.

## Modules

### LazyRelay: control of one endpoint of tryTlsLazyRawRelay

Variables:

- `rpc` and `wpc`: the program counters of R and W.
- `rsniff` and `wsniff`: the verdicts of the SniffConn. Its code is outside
  `src/`, so a verdict is a nondeterministic choice after each read.
- `dialed`: whether R has dialed, in secure mode.
- `localLeft` and `remoteLeft`: what each peer will still send.
- The EOF flags of the two peers.
- `closedLocal` and `closedRemote`: whether the endpoint has closed each
  connection. The only thing that sets them is W's return, which runs the
  deferred `wlc.Close`/`wrc.Close`.

Actions:

| action | models |
|---|---|
| `Start` | lines 62-154; includes the `rawWRC == nil` fallback to two TryCopy |
| `RRead` | one pass of R's sniff loop |
| `RDial` | the deferred secure dial |
| `Handoff` | the channel rendezvous |
| `RRelay` and `WRelay` | the splice or copy after the loop |
| `WRead` | one pass of W's loop, with the client's bad-index return at lines 396-407 |

The two peers are `LocalClose` and `RemoteClose`, and they get no fairness.
Weak fairness on the goroutine actions is justified: a goroutine that can
run is eventually scheduled, and a Read with data or an error ready returns.

### LazyHandover: one direction of the byte stream across the switch

Variables:

- `wire`: the cells on the TCP connection. A cell is a record header, a
  record body, or a raw chunk.
- `tlsBuf` and `last`: what the receiver's TLS layer has pulled, and the
  Recorder's last buffer.
- `out`: what the receiver wrote to its destination.

Actions:

| action | models |
|---|---|
| `Send` | client R's write path: a record per chunk, then the special command record and the chunk raw |
| `TlsPull` | the TLS layer reading one raw segment through the TeeConn |
| `Receive` | one decoded record: passed on, or the special command, which triggers `ServerTakeOver` (lines 225-302) or `ClientTakeOver` (lines 386-418) |
| `Splice` | the raw copy after the switch |

`GetTlsRecordNextIndex` is outside `src/` and is modelled from its use. It
returns the end of the first record when the buffer starts with a header.
Otherwise it returns -1 or any length.

The constant `ReadModel` says what a raw read may return:

- `"record"`: at most one record, at the start of the read, followed by raw
  cells. This is what the code assumes.
- `"any"`: any run of the bytes sent. This is what TCP allows.

### ShadowTls2: the server side of shadowTLS v2

`shadowTls2` and `shadowCopyHandshakeClientToFake` in `tlsLayer/shadow.go`,
with the genuine client's first write (`shadowClientConn.Write`) on the
other end.

- `fromClient`, `consumed`: the records the client sent and the server read.
- `toDecoy`, `produced`: what the decoy received and has answered.
- `cpc`, `hashing`, `hashed`: the `go io.Copy(hashW, fakeConn)` copier
  (read, then write), whether the HashWriter still hashes, and how many decoy
  messages it hashed.
- `toClient`: what reaches the client, decoy or real bytes, in order.
- A record is its content type and, for the genuine client's first
  application-data record, the number of decoy messages it had received when
  it computed its tag. It authenticates exactly when the server's HMAC covers
  the same messages.

`ServerRecord` is one pass of the sniffing loop: `Accept` (close the decoy,
return the payload) or `Forward` (forward, count, fall back after more than
`maxAppDataCount`, give up after `maxStep`). `ServerTimeout` is the
`io.ReadFull` deadline, `FallbackCopy` the client-to-decoy copy after
fallback. The client and decoy actions get no fairness; the properties are
all safety.

### UserMap and UserRegistry: the MultiUserMap

`UserRegistry` is the abstract promise: a set of registered users with add,
delete and load. `UserMap` models `utils.MultiUserMap`'s two maps, keyed by
identity string and by auth string. Its operations `AddUser`, `DelUser` and
`LoadUsers` are translated from `user.go`, and the lookups from
`AuthUserByStr`/`HasUserByBytes`. It is shown to implement `UserRegistry`
through `INSTANCE UserRegistry WITH registered <- Authenticated`, where
`Authenticated` is the set of users the auth lookup finds. A history variable
`lastOp` makes a step that should change the registry but leaves the maps
alone visible as a violation, not a stutter. `IdIsAuth` says whether a user's
identity and auth strings coincide: TRUE for UUID users (VLESS), FALSE for
users whose auth differs (user:pass users, Trojan's plain password vs hash).
The lock is not modelled. Every operation holds the mutex for its whole
body, so each one is a single atomic step.

### Handshake: the inbound handshakes that can fall back, and the SOCKS5 client

One module for four byte-level handshakes. They share one picture: a peer
writes a message in given writes, the code reads it with `Read`s that TCP
may cut anywhere, and the outcome either hands on a connection or gives up.
`proto` says which handshake a behaviour is:

| proto | code | outcome |
|---|---|---|
| `"trojan"` | `Server.Handshake`, proxy/trojan/server.go; `UDPConn`, proxy/trojan/udpConn.go | tcp, udp or mux; fallback (ErrBuffer) or error |
| `"http"` | `Server.Handshake`, proxy/http/server.go | connect or get; fallback |
| `"grpc"` | `Server.StartHandle`, advLayer/grpcSimple/server.go | grpc sub-connection; HTTP/1 fallback or h2 fallback |
| `"socks5"` | `Client.Handshake` and `Client_EstablishUDPAssociate`, proxy/socks5 | socks (CONNECT) or associate; error |
| `"shadowsocks"` | the address header of a packet, proxy/shadowsocks/shadowsocks.go, through `SsAddr` | address and payload, or an error |
| `"config"` | a conf written as a URL and read back, proxy/config_url.go, through `UrlConf` | the conf read, or an error, or a panic |

The bytes are classes at their real positions, as the header comment of the
module lists: 56 hash bytes, CRLF, the command, 7 address bytes and CRLF for
Trojan; request line, headers and the empty line for HTTP; the 24-byte h2c
preface for gRPC; the SOCKS5 replies byte by byte, with BND.ADDR of 4 or 16
bytes.

Variables:

- `writes` and `nw`: the peer's writes and how many it has sent.
- `whole`: the bytes the code has read (`wholeReadLen` for Trojan, `n` for
  the single Reads).
- `pc`, `result`: where the handshake is and how it ended.
- `fbBuf`: the bytes a fallback hands on.
- `relayIn`: what the connection handed on yields, buffer then socket.
- `client`: the SOCKS5 client's configuration (user/pass or not, CONNECT
  or UDP ASSOCIATE).
- `pkts`, `uoff`, `delivered`, `ustate`: a Trojan UDP association, its
  client's packets and what `ReadMsgFrom` returned.
- `dgram`: the last datagram the SOCKS5 client's UDP conn read, and what
  `ReadUDPResponse` made of it.
- `sclosed`, `gconn` and `gstop`: the grpcSimple server's `closed` flag,
  the connection `StartHandle` put in its list (new, listed, closed), and
  whether `Stop` has run.
- `ssRead`: a shadowsocks header sent, the prefix of it the reader got,
  and what `GetAddrFrom` returned.

Actions:

| action | models |
|---|---|
| `PeerWrite` | the peer's next write; a SOCKS5 server answers a request only once it has arrived |
| `ServerRead` | one pass of the Trojan read loop (Read, CRLF search); the single Read of HTTP and gRPC |
| `ServerReadErr` | the Trojan read deadline, once the client waits for an answer |
| `TrojanParse` | the checks of `realPart`, in order, through `errorPart` or the success return |
| `HttpParse` | parse, credential check, CONNECT or GET, and the deferred ErrBuffer |
| `GrpcParse` | the preface check after the single Read; HTTP/1 fallback or `ServeConn` |
| `GrpcServe` | the handler: path and content type, then `newSubConnFunc` or the h2 fallback |
| `UdpRead` | `UDPConn.ReadMsgFrom` on `io.MultiReader(readbuf, underlay)` |
| `SocksRead` | one `underlay.Read(ba[:])` of the SOCKS5 client and the check of that reply |
| `SocksUdpRead` | `ClientUDPConn.ReadMsgFrom` after a UDP ASSOCIATE: one datagram (whole, truncated or a fragment, from the relay or another host), through `ReadUDPResponse` |
| `GrpcStart` | the start of `StartHandle`: `closed = false`, the connection put in the list |
| `GrpcStop` | `Server.Stop`: `closed = true`, every listed connection closed; it may run before `StartHandle` |
| `GrpcClosedRead` | the Read or the handler on a connection Stop closed: an error |
| `SsPacketRead` | `makeWriteBuf` of an address and payload, cut at any length, or a malformed header, read back by `GetAddrFrom` |

`GrpcServe` also checks `s.closed` first, as the handler does: a handler
started before a Stop returns an error after it.

`UdpDatagram` is the SOCKS5 UDP header that `ClientUDPConn.WriteMsgTo`
builds (RSV, FRAG, ATYP, address, port), and `ReadUDPResponse` is its
parser, with its checks in order: length, source, RSV and FRAG, ATYP.

`Frame` is `WriteMsgTo`, and `UdpWrites` sends the Trojan header from
`handshakeBuf` with the first frame, as the Trojan client does. The
following are outside `src/` and are modelled from their use:

- Trojan's `GetAddrFrom`: a fixed-length address check.
- `httpLayer.ParseH1Request`: a method, then headers up to the empty line.
- The http2 server's request parsing (`H2Request`).

`Segmentation` says what a Read may return:

- `"writes"`: whole writes;
- `"any"`: any run of the bytes sent.

### SsAddr: the shadowsocks address header

Pure operators from `proxy/shadowsocks/shadowsocks.go`. Bytes are naturals
0..255. `makeWriteBuf` writes ATYP, the address bytes (a domain behind its
length byte), the port big-endian and the payload. `GetAddrFrom` reads them
back from a `bytes.Buffer`, which `BufferRead` models: a Read copies at most
what is left and returns EOF only on an empty buffer. Its checks are in
order: ATYP, a domain length of 0, one Read of the address (`ReadFull` says
EOF or short), and a zero port. `AddressBytes` and `ATypeToSocks5Standard`
are in `netLayer`, outside `src/`, and are modelled from the spec.

The second half of the module is the reference: spec 4.1's framing
(`EncodeAddress`), the addresses (two IPs and two domains, one with a NUL
byte, with ports 0, 1, 255, 256 and 65535), three payloads, and five
headers the spec calls invalid. `Handshake`'s `SsPacketRead` draws from
them.

### UrlConf: the standard URL format

Pure operators from `proxy/config_url.go`. A URL is the record that
`url.URL.String` and `url.Parse` agree on: scheme, user, host (hostname and
port, `Nil` when there is none), path, query and fragment. The query is
`url.Values`, a function from a key to its list of values, with `Add` and
`Get`. A conf is one record with the fields of `CommonConf`, `DialConf` and
`ListenConf` that these functions touch.

- `ToStandardUrl(cc, dc, lc)` writes the scheme (with "s" under TLS), the
  IP or else the host, the port, the path and the query keys, in the
  code's order. Under TLS it reads `dc.TlsType` even when `dc` is nil: the
  result is then `Nil`, a panic.
- `GetRealProtocolFromServerUrl` and `GetRealProtocolFromClientUrl` look
  the scheme up in the creators of `src/`, then trim one trailing "s" and
  set TLS (`RealProtocol`).
- `URLToCommonConf`, `URLToDialConf`, `URLToListenConf` and `setHeaders`
  follow the code line by line: the port only when the host has one, a
  port past 65535 refused, the `extra.*` and `header.*` keys, and a
  listener's target built from `target.ip` and `target.port` on the conf's
  network.
- `ServerFromURL` and `ClientFromURL` run these on a zero conf. The
  creators' own `URLTo*Conf` in `src/` hand the conf back unchanged in the
  standard format. `newServer` and `newClient` are not modelled.

`Handshake`'s `UrlLoad` (proto `"config"`) draws a conf, writes it with
`ToStandardUrl` and reads the URL back. It can also read one of three URLs
a user writes: one without a port, one with port 70000, and one with an
unknown scheme. The confs are every combination of address (IP, host, or
both), path, network and TLS options for socks5, trojan and http, the
direct client, and a base conf with one more field set each.
`NewAddrFromAny`, `QueryPositive` and `net.ParseIP` are outside `src/` and
are modelled by their use: a domain target's IP prints as `<nil>`, and
"true" is the positive value.

### Machine: the machine's life cycle, hot loading, tun and tproxy

`machine/machine.go` and `machine/load.go`, with the servers that listen by
themselves: tun (`proxy/tun/tun.go`) and tproxy
(`proxy/tproxy/server_linux.go`). `Kind(s)` says which a server is.

Variables:

- `running`, `allServers`, `lcl` (listenCloserList), `allClients` and
  `defaultClient`: the machine's fields.
- `lisSrv`: the server each listener accepts for.
- `openLis`: the listeners still open.
- `stopped`, `flag` and `handle`: the tun server's `stopped` and
  `stackCloser`, and the tproxy server's `sync.Once` and `tm`.
- `crashed`: a nil-pointer panic ended the process.
- `stopPc`, `stopIdx` and `stopArr`: where a running `Stop` is. It walks
  the `allServers` slice it read at entry and then `listenCloserList`,
  one element per step.
- `created` and `cstopped`: the servers and clients created and stopped
  so far, so that each configuration entry makes a fresh one.

The actions are the machine's API calls, as the GUI (`gui.go`, whose
callbacks `Next` maps) and the API drive them:

- `Start` and `Stop`, the latter split as `StopBegin`, `StopServer`
  (one server) and `StopListener` (one listener);
- `LoadListenConf`, cold and hot, and `HotLoadListen`;
- `HotDeleteServer` and `RemoveAllServer`;
- `HotLoadDial` (`LoadDialConf`), `HotDeleteClient` and `RemoveAllClient`;
- `LoadUrlConf`, cold and hot.

Every call except Stop is one step. Start holds `m.Lock`, and the others
run on the single GUI or API goroutine. The GUI's `stopF` (gui.go) runs
`Stop` on a goroutine of its own and stops waiting for it after two
seconds, so a Stop slowed by a server's `Stop` interleaves with the GUI's
next calls: a hot delete or a URL load may change both slices under it.
Start waits for Stop, as both take `m.Lock`.

`ListenSer` is outside `src/`. Its outcome is a choice:

- a plain server may get a listener or not;
- a tun server may succeed, fail at `tun.Open`, or fail at `tun.Listen`;
- a tproxy server on a dual network may succeed, fail, or fail on its UDP
  socket after its TCP listener came up.

A server that is listening already always fails. This reflects its port
or device being busy.

`TunListen` is `tun.Listen` (`netLayer/tun/tun.go`) on an opened device. It
creates the stack, then sets its options and NIC, either of which may fail,
and returns the `StackCloser` together with the error. On that failure
`StartListen` closes the device and returns nil, dropping the closer: the
stack stays open with nothing holding it.

The tproxy `Machine.Stop` is outside `src/`. A Stop of a tproxy server whose
`tm` is nil is taken to panic, as a method call on a nil `*tproxy.Machine`
that dereferences it does.

Hot `loadUrlConf` is taken to be called on a running machine only; its
callers are outside `src/`.

### Interactive and Runtime: the interactive mode next to the machine

`Interactive` models the interactive mode of `cmd/verysimple`. It keeps its
own package globals `allServers`, `listenCloserList`, `allClients` and
`defaultOutClient`, which the machine does not share. Each menu entry is one
step, since the interactive loop runs one at a time:

- `HotLoadStandard`: `hotLoadDialConfForRuntime` (`DialLoaded`), then
  `hotLoadListenConfForRuntime` (`Kept`), which stops at the first server
  `NewServer` rejects and drops the ones `ListenSer` did not listen.
- `HotLoadSimple`: `loadSimpleServer`, `loadSimpleClient`, then
  `ListenSer`. The server goes to `allServers` even when no listener is
  appended.
- `HotRemoveListen` and `HotRemoveDial`: the hot remove. The index is
  checked against `allServers` only, so one past `listenCloserList` panics
  (`iCrashed`).

`iOpen`, `iListened` and `iUsed` are history: the open listeners, the
servers that ever listened, and the names a file has used. The
constructors and `ListenSer` are outside `src/`, so whether they fail is a
choice. `Runtime` composes `Machine` and `Interactive` by interleaving, as
the process runs either the machine API or the interactive mode on its one
main goroutine.

## Runs

| run | expect | what it shows |
|---|---|---|
| lazy_relay | pass | for a client endpoint, with secure mode off or on: in secure mode W never reads wrc before R dialed it (`NoReadBeforeDial`); outside secure mode, once the remote closes, both goroutines finish and both connections close, even while the local app stays idle (`PlainTermination`) |
| lazy_secure_termination | violation | in secure mode, when the local side closes before sending, or the deferred dial fails, R exits without signalling the channel and W waits forever (finding) |
| handover | pass | with record-aligned reads, the receiver (server R or client W) forwards exactly the sent chunks, in order, and client W's take-over never panics on the index it computes (`StreamIntact`); and eventually all of them (`Delivery`) |
| handover_split_reads | violation | with raw reads that return any run of the bytes sent: the special command's record split between two reads (header, then body) leaves only its body in the Recorder's last buffer, and the branch at tls_lazy.go:280-283 writes that ciphertext to the target; and when the last recorded segment is shorter than a record header, client W slices `bs[-1:]` and panics (`StreamIntact`, two findings) |
| shadow_handshake | pass | on the switch the decoy has seen exactly the records before the authenticated one, which becomes the payload (`AuthRecordHidden`); on fallback the decoy connection is open and has seen every record read (`FallbackTransparent`) |
| shadow_switch | violation | the decoy copier races the switch: a decoy message hashed after the client computed its tag gets the genuine record forwarded to the decoy, and decoy bytes read before `fakeConn.Close` reach the client after real data; and the step limit, the fallback of spec 4.4 and a read error return without closing the decoy connection (`CleanSwitch`, three findings) |
| usermap_uuid | pass | for UUID users the two maps stay consistent (`MapsAgree`) and the map implements the abstract registry (`RegistrySpec`) |
| usermap_trojan | violation | for users whose identity and auth strings differ, `DelUser` deletes nothing (swapped keys), so a deleted user still authenticates (finding) |
| handshake | pass | under any TCP segmentation: no probe (another user's Trojan hash, an unknown command, an HTTP request to the Trojan server, a gRPC request on another path or with another content type, a refusing SOCKS5 server) is ever handed on to the relay (`NoProbeAccepted`); every accepted handshake (Trojan, HTTP without users, gRPC, SOCKS5 with IPv4 replies) hands on exactly its payload (`SuccessKeepsPayload`); a Trojan UDP association reads back the client's packets in order, none lost, the one sent with the header included (`UdpFramesIntact`); the SOCKS5 client's UDP reader returns the target and data of every whole datagram from the relay and rejects one from any other host (`SocksUdpIntact`); the shadowsocks header reads back the address and payload `makeWriteBuf` wrote, rejects port 0, a zero domain length and an unknown ATYP, and never accepts a header cut short (`SsAddrRoundTrip`); a conf that `ToStandardUrl` writes without panicking reads back through `ServerFromURL` or `ClientFromURL` with the same protocol, TLS, address to dial, port, path, network, user, tag, layer and TLS options, and a port past 65535 or an unknown scheme is refused (`UrlRoundTrip`) |
| handshake_contract | violation | with an HTTP user, SOCKS5 servers that reply with IPv4 or IPv6, and truncated SOCKS5 UDP datagrams: not every genuine exchange is accepted with its payload, and not every probe of a server falls back and a gRPC server stopped before a handler ran still hands on a sub-connection; an empty Trojan UDP datagram ends the association; `ToStandardUrl` panics on a TLS `ListenConf`, although its comment says only a nil `cc` makes it panic, and a URL without a port gives port 0 (`HandshakeContract`, twelve findings; see below) |
| machine_lifecycle | pass | plain servers, any sequence of API calls, failing ListenSer, Stop interleaved with the GUI's calls after its timeout: once Stop has finished, no listener is open (`StoppedIsQuiet`) |
| machine_lifecycle_sound | violation | the machine with a tun and a tproxy server, beside the interactive mode: some sequence of API calls or menu entries panics or leaves a listener open that its owner no longer holds, or listens with a client that was deleted (`RuntimeSound` in `Runtime`, eight findings) |

`handshake_contract` has several causes, and TLC reports the first one it
reaches, one step deep: a TLS `ListenConf` for which `ToStandardUrl` panics
at config_url.go:371. Each of the other causes was checked on
its own, by restricting the initial messages:

- Trojan and HTTP fallbacks: the bytes handed to the decoy are checked
  here, with an HTTP user, and not in the `handshake` run. With no user,
  the fallback buffer is the read buffer by construction.
- Trojan:
  - a genuine header split after the hash;
  - a short request line, which gets a plain error.
- HTTP:
  - a request split by TCP falls back;
  - an authorised GET hands on `bs[:9]`, because `n` is overwritten at
    server.go:125.
- SOCKS5:
  - a reply cut by TCP is judged on what one Read returned;
  - an IPv6 reply leaks its last 12 bytes into the relayed stream.
- gRPC: a preface split by TCP goes to the HTTP/1 fallback.
- SOCKS5 UDP: a datagram cut inside its port is read as a message to port
  0 (client_udp.go:275 checks only for 6 bytes).
- gRPC: `Stop` before `StartHandle`, whose `closed = false` undoes it, so
  the stopped server serves a stream.
- Trojan UDP: `WriteMsgTo` frames an empty datagram with length 0, which
  `ReadMsgFrom` rejects, so the association becomes invalid
  (`UdpSizes = {0, 1}`).
- URL format: `trojan://u@1.2.3.4` reads as a server on port 0, where
  spec 2 wants a port in [1,65535].

Nothing in `src/` promises that a URL written by `ToStandardUrl` reads back
field for field, so the contract does not ask it. `UrlRoundTrip` checks the
fields a proxy dials or listens by. A field-for-field comparison, run with
TLC one conf kind at a time while the model was built, shows what the round
trip loses; no run keeps it:

- the host of a conf that also has an IP (its SNI);
- `Version`, `Fallback`, `NoRoute`, `Extra`, `SendThrough` and the
  response header;
- `target.network`, which is not read: a UDP target on a conf without a
  network comes back as TCP;
- a domain target, which is written as `target.ip=<nil>`.

`machine_lifecycle_sound` reports the shortest cause: a tun server loaded
cold and then Stop, which calls `Close` on a nil `stackCloser`. Each of the
other causes was checked the same way:

- a second Start on a tun server;
- a tproxy restart, which hits the `sync.Once` in Stop;
- a tproxy UDP failure, which leaks the TCP listener;
- a deletion after a restart, which closes a stale entry of
  `listenCloserList`;
- in the interactive mode, a simple config whose `ListenSer` failed, then
  a hot remove: the index misses `listenCloserList`, or closes another
  server's listener;
- `HotDeleteClient` of the default client, then Start: the servers listen
  with the stopped client, as `DefaultOutClient` still points to it;
- a tun server whose `tun.Listen` fails after creating the stack: the
  stack stays open and nothing holds it.

`shadow_switch` reports the shortest cause, a decoy connection left open by
a read that times out. The switch races and the step limit were each checked on
their own. `handover_split_reads` reports ciphertext to the target first; the
panic of client W was checked on its own.

A divergence was read in the code and not given a run. The spec says an
incorrect checksum after 1 to 3 application-data records makes shadowTLS
fall back. `shadow.go:241` falls back only when the count exceeds 3, that
is, on the fourth record. `FallbackTransparent` holds either way.

## Bounds

- **LazyRelay**: 2 chunks per peer. That is enough for a read before and
  after each verdict, and for the dial at the first read.
- **LazyHandover**: 4 chunks. That gives at least one record before the
  switch, the switch chunk, and raw chunks after it, both pulled by TLS and
  spliced.
- **ShadowTls2**: 9 client records and 3 decoy messages. That covers the
  fallback after four application-data records plus handshake records, and
  the step limit of 8. The violation run needs only 5 records.
- **UserMap**: 4 users and no symmetry. The refinement's `lastOp` names the
  user, so the users are not interchangeable under the property.
- **Handshake**: the real byte positions, so every split of every message
  is reachable in `"any"` mode:
  - a 68-byte Trojan header;
  - the 24-byte preface;
  - 10- and 22-byte SOCKS5 replies.

  Two UDP packets of 1 or 2 bytes cover a frame split between `readbuf`
  and the socket, and a frame followed by another. The pass run leaves a
  zero length out; the contract run has sizes 0 and 1 and finds that an
  empty datagram ends the association.
- **UrlConf** (in `Handshake`): four addresses, two paths, two networks
  and three TLS settings, for socks5, trojan and http, plus the direct
  client and sixteen confs that each set one more field. Every field
  `ToStandardUrl` writes or the readers read is set in at least one conf.
- **Machine**: three servers, one client and up to five listeners. That
  allows a restart (two listeners per server), a hot load next to cold
  ones, and each server kind once. With Stop interleaved the run reaches
  about 8 million states in under two minutes. Two clients multiply the states by
  about 130 and change no outcome: the client only decides the default.
- **Interactive** (in `Runtime`, violation run only): two servers and one
  client, enough for a simple load whose listener failed next to one that
  listened, and a removal after each.
- **SsAddr**: every address of the reference set cut at every length, and
  the five malformed headers; the handshake run reaches 4442 states.

## Fairness

Only `LazyRelay` and `LazyHandover` check liveness. Their goroutine actions
are weakly fair, because Go schedules a runnable goroutine and a Read with
data ready returns. Peers, clients, decoys and servers get no fairness.

The other modules check safety only, so no fairness is assumed there.
`Handshake`, `Machine` and `ShadowTls2` disable deadlock checking. Each of
them has legitimate final states:

- a handshake has ended;
- a UDP reader waits for more packets;
- the machine sits idle.

## Not modelled

- **The interactive prompts, the GUI layout and the flags** (`cli.go`,
  `gui.go`): text and widgets. Only the state changes of the menu entries
  are modelled, in `Interactive`.
- **The text of URLs** (`proxy/config_url.go`): percent-encoding and
  `url.Parse`'s syntax. `UrlConf` takes the URL as its parts. The other
  URL formats (`UrlFormat` other than standard) have no reader in `src/`.
- **shadowsocks beyond the address header**: its cipher and `MethodPass`
  are crypto; the stream reader's single Read is listed as a hazard.
- **simplesocks**: its `UDPConn` is the same code as the Trojan one, which
  is modelled.
- **The websocket creator, netLayer constants and the direct client.**
  They have no state.
- **shadowTLS v1 and plain TLS** (`shadowTls1`, `tlsLayer.Server`). Their
  handshake copying (`CopyTls12Handshake`) and `crypto/tls` are outside
  `src/`.
- **The tun device adapter** (`netLayer/tun`), beyond `tun.Listen`. The
  rest drives the vendored userspace stack: its TCP and UDP forwarders and
  the `UdpMsgConn` of each UDP flow.
- **The crypto.** Ciphertext is an opaque cell.

## Plan

Done:

- the lazy relay and handover;
- shadowTLS v2;
- the user map;
- the handshakes (Trojan with UDP, HTTP, gRPC, the SOCKS5 client);
- the machine with tun and tproxy;
- grpcSimple's Stop against StartHandle;
- the shadowsocks address header;
- the interactive mode's hot load and remove, composed with the machine;
- the standard URL format, written and read back.

Next, in order of importance:

1. shadowTLS v1, once `CopyTls12Handshake` can be modelled from the spec.
2. The shadowsocks TCP stream reader, whose header is read with one Read.
3. The grpcSimple data path (`Write` racing `Close`).
