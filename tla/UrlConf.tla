------------------------------ MODULE UrlConf ------------------------------
(***************************************************************************)
(* The standard URL format of proxy/config_url.go: ToStandardUrl writes a  *)
(* DialConf or ListenConf as a URL, ServerFromURL and ClientFromURL read   *)
(* one back through GetRealProtocolFrom*Url and URLToListenConf or         *)
(* URLToDialConf, which both start with URLToCommonConf.                   *)
(*                                                                         *)
(* A URL is the record url.URL.String() and url.Parse agree on: scheme,    *)
(* user, host (the hostname and the port, Nil when the URL gives none), *)
(* path, the query as url.Values (a function from a key to its list of     *)
(* values) and the fragment.  Percent-encoding round-trips and is left     *)
(* out; the paths are "" and ones that start with "/", which String keeps  *)
(* as they are.  A conf is a record of the fields these functions touch;   *)
(* EncryptAlgo, TLSCert and TLSKey are copied like AdvancedLayer and are   *)
(* left out.  Strings are TLA+ strings, ports are naturals.                *)
(***************************************************************************)
EXTENDS Naturals, Sequences, SequencesExt

(* Nil: a nil pointer, the empty TargetAddr, a URL without a port.       *)
CONSTANT Nil

DirectName == "direct"

(* The creator maps: RegisterServer and RegisterClient calls of src/.     *)
ServerCreators == {"trojan", "http", "tun", "tproxy"}
ClientCreators == {"socks5", DirectName}

(* The hostnames net.ParseIP accepts, of those the model uses.            *)
IPLiterals == {"1.2.3.4", "::1"}

(* The zero DialConf{} / ListenConf{}.                                     *)
ZeroConf ==
    [protocol |-> "", tls |-> FALSE, uuid |-> "", ip |-> "", host |-> "",
     port |-> 0, path |-> "", network |-> "", fullcone |-> FALSE, tag |-> "",
     adv |-> "", version |-> 0, http |-> Nil, extra |-> << >>,
     insecure |-> FALSE, tlsType |-> "", mux |-> FALSE, sendThrough |-> "",
     noroute |-> FALSE, fallback |-> "", target |-> Nil]

-----------------------------------------------------------------------------
(* url.Values: Add appends a value to the key's list, Get the first one.  *)
Add(q, k, v) == IF k \in DOMAIN q THEN [q EXCEPT ![k] = Append(@, v)]
                ELSE (k :> << v >>) @@ q
AddIf(q, b, k, v) == IF b THEN Add(q, k, v) ELSE q
Get(q, k) == IF k \in DOMAIN q THEN q[k][1] ELSE ""

(* utils.QueryPositive, as its callers use it: the value "true".          *)
Positive(q, k) == Get(q, k) = "true"

(* strconv.Atoi on the digit strings a URL of the model carries.          *)
Atoi(s) == CHOOSE n \in 0..9 : ToString(n) = s

HasPrefix(s, p) == Len(s) >= Len(p) /\ SubSeq(s, 1, Len(p)) = p
TrimPrefix(s, p) == SubSeq(s, Len(p) + 1, Len(s))

(* strings.TrimSuffix(s, "s")                                              *)
TrimSuffixS(s) == IF s # "" /\ SubSeq(s, Len(s), Len(s)) = "s"
                  THEN SubSeq(s, 1, Len(s) - 1) ELSE s

(* strings.Join(list, ", ")                                                *)
Join(list) == IF list = << >> THEN ""
              ELSE FoldLeft(LAMBDA a, v : a \o ", " \o v, Head(list), Tail(list))

(* netLayer.NewAddrFromAny on a TargetAddr "network://host:port", and     *)
(* Addr.IP.String(): a domain target has no IP, which prints as "<nil>".  *)
NewAddrFromAny(ta) ==
    [network |-> ta.net, port |-> ta.port,
     ip |-> IF ta.host \in IPLiterals THEN ta.host ELSE "<nil>"]

-----------------------------------------------------------------------------
(* ToStandardUrl(cc, dc, lc): cc is the CommonConf of dc or of lc, the     *)
(* other is nil.  Under TLS it reads dc.TlsType whether or not dc is nil: *)
(* on a ListenConf that is a nil dereference, a panic: the result Nil.  *)
ToStandardUrl(cc, dc, lc) ==
    LET q1 == AddIf(AddIf(<< >>, cc.network # "", "network", cc.network),
                    cc.fullcone, "fullcone", "true")
        a  == IF lc # Nil /\ lc.target # Nil THEN NewAddrFromAny(lc.target) ELSE Nil
        q2 == IF a = Nil THEN q1
              ELSE Add(Add(Add(q1, "target.ip", a.ip), "target.network", a.network),
                       "target.port", a.port)
        q3 == IF dc = Nil THEN q2
              ELSE AddIf(AddIf(q2, dc.sendThrough # "", "sendThrough", dc.sendThrough),
                         dc.mux, "mux", "true")
        q4 == IF cc.tls
              THEN AddIf(AddIf(q3, cc.insecure, "insecure", "true"),
                         dc.tlsType # "", "tls_type", dc.tlsType)
              ELSE q3
        r  == IF cc.http # Nil THEN cc.http.request ELSE Nil
        q5 == IF cc.http = Nil THEN q4
              ELSE IF r = Nil THEN Add(q4, "http", "true")
              ELSE [k \in {"header." \o h : h \in DOMAIN r.headers} |->
                        << Join(r.headers[TrimPrefix(k, "header.")]) >>]
                   @@ AddIf(AddIf(Add(q4, "http", "true"), r.method # "", "http.method", r.method),
                            r.version # "", "http.version", r.version)
        q6 == AddIf(q5, cc.adv # "", "adv", cc.adv)
    IN IF cc.tls /\ dc = Nil THEN Nil
       ELSE [scheme |-> cc.protocol \o (IF cc.tls THEN "s" ELSE ""), user |-> cc.uuid,
             host |-> [name |-> IF cc.ip # "" THEN cc.ip ELSE cc.host, port |-> cc.port],
             path |-> cc.path, query |-> q6, fragment |-> cc.tag]

-----------------------------------------------------------------------------
(* Mutant: the scheme looked up as it is, without trimming the "s".     *)
RealProtocolNoTrim(scheme, creators) ==
    IF scheme \in creators THEN [err |-> "none", name |-> scheme, okTls |-> FALSE]
    ELSE [err |-> "unknown"]

(* GetRealProtocolFrom{Server,Client}Url: the scheme if a creator has     *)
(* that name, else the scheme less one trailing "s", with TLS on.         *)
RealProtocol(scheme, creators) ==
    IF scheme \in creators THEN [err |-> "none", name |-> scheme, okTls |-> FALSE]
    ELSE IF TrimSuffixS(scheme) \in creators
         THEN [err |-> "none", name |-> TrimSuffixS(scheme), okTls |-> TRUE]
         ELSE [err |-> "unknown"]
GetRealProtocolFromServerUrl(u) == RealProtocol(u.scheme, ServerCreators)
GetRealProtocolFromClientUrl(u) == RealProtocol(u.scheme, ClientCreators)

(* The values of the "prefix.*" keys of q, by the key less the prefix;   *)
(* setHeaders keeps the list, the Extra loop its first value.             *)
Prefixed(q, p) == {TrimPrefix(k, p) : k \in {k \in DOMAIN q : HasPrefix(k, p)}}
setHeaders(q) == [h \in Prefixed(q, "header.") |-> q["header." \o h]]

(* URLToCommonConf: hostname and port unless the scheme is direct; a     *)
(* port is any of 0..65535, one past it ErrInvalidData; then the query.   *)
URLToCommonConf(u, conf) ==
    LET hn == u.host.name
        p  == u.host.port
        c1 == IF u.scheme = DirectName THEN conf
              ELSE [conf EXCEPT !.ip   = IF hn \in IPLiterals THEN hn ELSE @,
                                !.host = IF hn \in IPLiterals THEN @ ELSE hn,
                                !.port = IF p = Nil THEN @ ELSE p]
        q  == u.query
    IN IF u.scheme # DirectName /\ p # Nil /\ p > 65535 THEN [err |-> "invalid"]
       ELSE [err |-> "none",
             conf |-> [c1 EXCEPT !.network = Get(q, "network"), !.uuid = u.user,
                         !.fullcone = Positive(q, "fullcone"), !.tag = u.fragment,
                         !.path = u.path, !.adv = Get(q, "adv"),
                         !.version = IF Get(q, "v") # "" THEN Atoi(Get(q, "v")) ELSE @,
                         !.http = IF Positive(q, "http")
                                  THEN [request |-> Nil, response |-> Nil] ELSE @,
                         !.extra = [k \in Prefixed(q, "extra.") |-> q["extra." \o k][1]]]]

(* URLToDialConf: under http the request header, the conf's path as its *)
(* only path; under TLS insecure and tls_type; mux.                       *)
URLToDialConf(u, conf) ==
    LET r  == URLToCommonConf(u, conf)
        q  == u.query
        c  == r.conf
        c1 == IF c.http = Nil THEN c
              ELSE [c EXCEPT !.http.request =
                      [method |-> Get(q, "http.method"), version |-> Get(q, "http.version"),
                       path |-> << c.path >>, headers |-> setHeaders(q)]]
        c2 == IF c1.tls THEN [c1 EXCEPT !.insecure = Positive(q, "insecure"),
                                        !.tlsType = Get(q, "tls_type")]
              ELSE c1
    IN IF r.err # "none" THEN r
       ELSE [err |-> "none", conf |-> [c2 EXCEPT !.mux = @ \/ Positive(q, "mux")]]

(* URLToListenConf: noroute, a non-empty fallback, under http the         *)
(* response header, under TLS insecure; a target from target.ip and      *)
(* target.port on the conf's network, "tcp" when it has none.  The        *)
(* target.network key is not read.                                         *)
URLToListenConf(u, conf) ==
    LET r  == URLToCommonConf(u, conf)
        q  == u.query
        c  == [r.conf EXCEPT !.noroute = Positive(q, "noroute"),
                             !.fallback = IF Get(q, "fallback") # "" THEN Get(q, "fallback") ELSE @]
        c1 == IF c.http = Nil THEN c
              ELSE [c EXCEPT !.http.response =
                      [status |-> Get(q, "http.status_code"), version |-> Get(q, "http.version"),
                       reason |-> Get(q, "http.reason"), headers |-> setHeaders(q)]]
        c2 == [c1 EXCEPT !.insecure = IF c1.tls THEN Positive(q, "insecure") ELSE @]
        net == IF c2.network = "" THEN "tcp" ELSE c2.network
        c3 == IF Get(q, "target.ip") # "" /\ Get(q, "target.port") # ""
              THEN [c2 EXCEPT !.network = net,
                              !.target = [net |-> net, host |-> Get(q, "target.ip"),
                                          port |-> Get(q, "target.port")]]
              ELSE c2
    IN IF r.err # "none" THEN r ELSE [err |-> "none", conf |-> c3]

(* ServerFromURL / ClientFromURL in the standard format: a fresh conf     *)
(* with the protocol and TLS the scheme gave, filled by URLTo*Conf.  The  *)
(* creators' own URLTo*Conf of src/ hand a given conf back unchanged;     *)
(* newServer and newClient are not modelled: the result is the conf.      *)
ServerFromURL(u) ==
    LET p == GetRealProtocolFromServerUrl(u) IN
    IF p.err # "none" THEN p
    ELSE URLToListenConf(u, [ZeroConf EXCEPT !.tls = p.okTls, !.protocol = p.name])

ClientFromURL(u) ==
    LET p == GetRealProtocolFromClientUrl(u) IN
    IF p.err # "none" THEN p
    ELSE URLToDialConf(u, [ZeroConf EXCEPT !.tls = p.okTls, !.protocol = p.name])
====
