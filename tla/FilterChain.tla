---------------------------- MODULE FilterChain -----------------------------
(***************************************************************************)
(* The packet programs: xfw_xdp (bpf/xdp.c), the chain of filters every    *)
(* packet that comes in runs through, and xfw_tc (bpf/tc.c), which follows *)
(* what goes out.  A program keeps a pointer to the configuration element, *)
(* so a filter sees what the manager wrote last: one action per filter,    *)
(* and the configuration may change between any two.  Programs run on all  *)
(* CPUs at once and share the trusted connections and the DNS queries; the *)
(* SYN cookie timers are per CPU.                                          *)
(*                                                                         *)
(* Parsing is reduced to its outcome, except for the walks over VLAN tags  *)
(* and IPv6 extension headers; the rules to the action they give a source, *)
(* a port or a destination; a rate limit to its possible verdicts (see     *)
(* RateLimiter); tcp_auth.h to the state of an entry (see TcpAuth).        *)
(***************************************************************************)
EXTENDS SynCookies, DnsFilter

CONSTANTS NoPeer,
          Setting,     \* what is considered together: see SettingType
          MaxTime      \* bound: last jiffy of a behaviour

Time   == 0..MaxTime
Action == {"block", "allow", "limit"}
Rule   == Action \cup {"none"}

(* verify_syncookie: the updater refuses cookies in evaluation mode. *)
LegalCfg(f) == f.eval => ~f.ck.on

Protocol == {"tcp", "udp", "icmp", "gre", "esp", "none"}
PacketType(p) ==
    /\ p.dir \in {"in", "out"} /\ p.proto \in Protocol
    /\ p.tags \in Nat /\ Len(p.ext) \in Nat
    /\ p.kind \in {"query", "answer"} => p.proto = "udp"
    /\ p.kind = "answer" => p.dns.hdr /\ p.dns.qr = "response"
    /\ (p.l3 = "ip6" /\ p.frag) => \E i \in 1..Len(p.ext) : p.ext[i] = "fragment"

SettingType(s) ==
    /\ s.cpus # {} /\ s.peers # {} /\ NoPeer \notin s.peers \cup s.cpus
    /\ s.host \in BOOLEAN        \* deployment_mode = XFW_MODE_HOST
    /\ s.dns_mode \in BOOLEAN
    /\ s.dns_cap \in Nat \ {0}   \* XFW_MAX_DNS_QRS_TRACKER_BUCKETS
    /\ s.last \in Time           \* bound: last jiffy in this setting
    /\ s.packets # {} /\ \A p \in s.packets : PacketType(p) /\ p.peer \in s.peers
    /\ s.cfgs # {} /\ \A f \in s.cfgs : LegalCfg(f) /\ f.ck.flood \in Nat

ASSUME FilterChainAssumption ==
    /\ MaxTime \in Nat
    /\ \A s \in Setting : SettingType(s)

VARIABLES
    set,        \* the setting of a behaviour
    cfg,        \* the element of MAP_CFG
    now,
    pc, pkt,    \* the program on each CPU and its packet
    jiff,       \* ctx->ts_jiff
    meta,       \* whether there is room for XfwPacketMetadata
    res,        \* the result so far
    stat,       \* what was counted for the packet
    timers,     \* MAP_SYNCOOKIES: [try, gen] of each CPU
    conn,       \* MAP_TCP_CONN, see TcpAuth: "none", "open", "fin" or "old"
    ids,        \* MAP_DNS_EGR_FD
    established,\* external: peers with an established socket
    pending,    \* external: peers whose ACK waits for the TCP stack
    stable,     \* history: the configuration has not changed under the packet
    why,        \* history: the filter that decided
    owed,       \* history: the packet is one the host has to get
    cookie,     \* history: where and when a peer got its latest cookie
    accepted,   \* history: peers that completed a handshake the filter saw
    spoke,      \* history: peers the host has ever sent to
    sent,       \* history: DNS queries sent, not forgotten by the LRU map
    asked       \* history: DNS queries ever sent with the filter on

progVars == <<pc, pkt, jiff, meta, res, stat>>
mapVars  == <<timers, conn, ids>>
hostVars == <<established, pending>>
histVars == <<cookie, accepted, spoke, sent, asked>>
vars == <<set, cfg, now, progVars, mapVars, hostVars, stable, why, owed, histVars>>

CPU  == set.cpus
Peer == set.peers
LongAgo == 0 - MaxTime - 1     \* jiffy 0, when a behaviour starts
NoCookie == [cpu |-> NoPeer, at |-> 0]
SomePacket == CHOOSE p \in set.packets : TRUE
NoStat   == [k \in {"total", "passed", "dropped", "tx"} |-> 0]

Init == /\ set \in Setting
        /\ cfg \in set.cfgs
        /\ now = 0
        /\ pc = [c \in CPU |-> "idle"]
        /\ pkt = [c \in CPU |-> SomePacket]
        /\ jiff = [c \in CPU |-> 0]
        /\ meta = [c \in CPU |-> FALSE]
        /\ res = [c \in CPU |-> "continue"]
        /\ stat = [c \in CPU |-> NoStat]
        /\ timers = [c \in CPU |-> [try |-> LongAgo, gen |-> LongAgo]]
        /\ conn = [p \in Peer |-> "none"]
        /\ ids = {}
        /\ established = {} /\ pending = {}
        /\ stable = [c \in CPU |-> FALSE]
        /\ why = [c \in CPU |-> "none"]
        /\ owed = [c \in CPU |-> FALSE]
        /\ cookie = [p \in Peer |-> NoCookie]
        /\ accepted = {} /\ spoke = {} /\ sent = {} /\ asked = {}

In(c) == pkt[c].dir = "in"

-----------------------------------------------------------------------------
(* Results.  A program goes on with the next filter or, once decided,      *)
(* counts the packet and goes to finalize_result.                          *)

Count(c, what) == stat' = [stat EXCEPT ![c] = [k \in DOMAIN @ |-> @[k] + (IF k \in what THEN 1 ELSE 0)]]

CounterForgetsTx(v) == IF v = "drop" THEN "dropped" ELSE "total"
Counter(v) == IF v = "drop" THEN "dropped" ELSE IF v = "tx" THEN "tx" ELSE "passed"

(* CHAIN and CHAIN_PASS_ALL: filter f returned v. *)
Chain(c, f, v, next) ==
    IF v = "continue"
    THEN pc' = [pc EXCEPT ![c] = next] /\ UNCHANGED <<res, stat, why>>
    ELSE /\ pc' = [pc EXCEPT ![c] = "final"]
         /\ res' = [res EXCEPT ![c] = v]
         /\ why' = [why EXCEPT ![c] = f]
         /\ Count(c, {Counter(v)})

(* A packet owed to the host stays so unless its connection, query or      *)
(* configuration goes away under it.                                       *)
Disown(cpus) == owed' = [c \in CPU |-> owed[c] /\ c \notin cpus]
OfPeer(p) == {c \in CPU : pkt[c].peer = p}
OfAnswer(i) == {c \in CPU : pkt[c].kind = "answer" /\ pkt[c].dns.id = i}

-----------------------------------------------------------------------------
(* Rules. *)

(* What an action may give; a source allowed by a rule of its own passes,  *)
(* everything else goes on.                                                *)
Verdicts(action, on_allow, on_limit) ==
    IF action = "block" THEN {"drop"} ELSE IF action = "allow" THEN {on_allow} ELSE on_limit

(* xfw_is_allowed_by_rlimits *)
Limited == {"continue", "drop"}
(* The bucket of a source is created on demand in an LRU map: XFW_ASSERT   *)
(* passes the packet when that fails.                                      *)
LimitedSource == {"continue", "drop", "assert"}

SrcVerdictsPassDefault(rule, default) ==
    Verdicts(IF rule # "none" THEN rule ELSE default, "pass", LimitedSource)
SrcVerdicts(rule, default) ==
    IF rule # "none" THEN Verdicts(rule, "pass", LimitedSource)
    ELSE Verdicts(default, "continue", LimitedSource)

src_filter_ip(p)   == SrcVerdicts(cfg.src_ip[p.peer], cfg.src_ip_default)
src_filter_port(p) == SrcVerdicts(cfg.src_port[p.peer], cfg.src_port_default)

icmp_filter == Verdicts(IF cfg.icmp # "none" THEN cfg.icmp ELSE cfg.icmp_default,
                        "continue", Limited)

xfw_dst_filter(p) == Verdicts(IF cfg.dst[p.peer] # "none" THEN cfg.dst[p.peer] ELSE cfg.dst_default,
                              "continue", Limited)

(* rst_rlimit, syn_rlimit *)
FlagLimit(flag) == IF flag \in cfg.flag_limits THEN Limited ELSE {"continue"}

-----------------------------------------------------------------------------
(* Headers. *)

VLAN_MAX_DEPTH == 2
IPV6_EXT_MAX_CHAIN == 6

(* The ethertype behind at most VLAN_MAX_DEPTH tags. *)
parse_ethhdr(p) == IF p.tags > VLAN_MAX_DEPTH THEN "vlan" ELSE p.l3

(* p.ext: the extension headers before the L4 header. *)
skip_ip6hdrext(p) ==
    LET frags == {i \in 1..Len(p.ext) : p.ext[i] = "fragment"}
    IN  IF \E i \in frags : i <= IPV6_EXT_MAX_CHAIN THEN "fragment"
        ELSE IF Len(p.ext) >= IPV6_EXT_MAX_CHAIN THEN "bad" ELSE p.proto

parse_iphdr(p)  == IF p.broken = "l3" THEN "bad" ELSE p.proto
parse_ip6hdr(p) == IF p.broken = "l3" THEN "bad" ELSE skip_ip6hdrext(p)

(* in_process_l3: the L4 protocol, or a verdict. *)
in_process_l3(p) ==
    LET l4(parsed) == IF parsed \in {"fragment", "bad"} THEN "drop" ELSE parsed
    IN  IF parse_ethhdr(p) = "ip4" THEN IF p.frag THEN "drop" ELSE l4(parse_iphdr(p))
        ELSE IF parse_ethhdr(p) = "ip6" THEN l4(parse_ip6hdr(p))
        ELSE IF parse_ethhdr(p) = "arp" THEN "pass" ELSE "drop"

(* parse_tcphdr, parse_udphdr, parse_icmphdr_common: a header that does    *)
(* not fit in the packet, or a length that does not fit the header.        *)
ParsesL4(p) == p.broken # "l4"

tcp_anomaly_filter(p) ==
    IF /\ cfg.anomaly.on
       /\ \/ p.anomalies \cap {"bad flags", "zero port"} # {}
          \/ p.kind \in {"syn", "synack"} /\ p.anomalies \cap cfg.anomaly.syn # {}
    THEN "drop" ELSE "continue"

(* The part of in_process_l4 before the source filter. *)
L4Verdict(p) ==
    IF p.proto \notin cfg.protos THEN "drop"
    ELSE IF p.proto \notin {"tcp", "udp", "icmp"} THEN "pass"    \* GRE, other protocols allowed
    ELSE IF ~ParsesL4(p) \/ (p.proto = "udp" /\ "zero port" \in p.anomalies) THEN "drop"
    ELSE IF p.proto = "tcp" THEN tcp_anomaly_filter(p) ELSE "continue"

-----------------------------------------------------------------------------
(* tcp_auth.h *)

Trusted(p) == conn[p] \in {"open", "fin"}

AuthVerdict(p) == IF cfg.auth /\ ~Trusted(p) THEN "drop" ELSE "continue"

(* tcp_auth_conn_ingress_filter: what it does to the entry. *)
AuthEntry(p, ev) ==
    IF ~cfg.auth THEN conn[p]
    ELSE IF ~Trusted(p) \/ ev = "rst" THEN "none"
    ELSE IF ev = "fin" THEN "fin" ELSE conn[p]

(* tcp_auth_conn_egress_learning *)
LearnedEntry(p, kind) ==
    IF kind = "rst" THEN "none"
    ELSE IF conn[p] = "none" THEN IF ~cfg.auth \/ kind \in {"syn", "synack"} THEN "open" ELSE "none"
    ELSE IF kind = "fin" THEN "fin"
    ELSE IF conn[p] = "old" THEN "open" ELSE conn[p]

-----------------------------------------------------------------------------
(* A program starts: xfw_ctx_init, create_metadata. *)

(* The packets the filter has to let through to the rules: of a connection *)
(* it accepted; of an established one it does not judge; the ACK of a      *)
(* cookie, in time and on the CPU that made it; an answer to a query.      *)
Owed(c, p) ==
    /\ p.dir = "in"
    /\ \/ p.kind \in {"ack", "data"} /\ cfg.auth /\ p.peer \in accepted
       \/ p.kind \in {"ack", "data"} /\ ~cfg.auth /\ p.peer \in established
       \/ /\ p.kind = "ack" /\ set.host /\ cfg.ck.on
          /\ cookie[p.peer].cpu = c /\ now - cookie[p.peer].at <= cfg.ck.flood
       \/ p.kind = "answer" /\ process_ingress_dns_response(p.dns, TRUE) = "continue"
          /\ p.dns.id \in sent

Begin(c, p) ==
    /\ pc[c] = "idle"
    /\ pkt' = [pkt EXCEPT ![c] = p]
    /\ jiff' = [jiff EXCEPT ![c] = now]
    /\ stat' = [stat EXCEPT ![c] = NoStat]
    /\ stable' = [stable EXCEPT ![c] = TRUE]
    /\ owed' = [owed EXCEPT ![c] = Owed(c, p)]
    /\ \/ /\ p.dir = "in" /\ set.dns_mode /\ cfg.dns      \* bpf_xdp_adjust_meta fails
          /\ pc' = [pc EXCEPT ![c] = "final"]
          /\ res' = [res EXCEPT ![c] = "pass"]
          /\ why' = [why EXCEPT ![c] = "metadata"]
          /\ meta' = [meta EXCEPT ![c] = FALSE]
       \/ /\ pc' = [pc EXCEPT ![c] = IF p.dir = "in" THEN "parse" ELSE "egress"]
          /\ res' = [res EXCEPT ![c] = "continue"]
          /\ why' = [why EXCEPT ![c] = "none"]
          /\ meta' = [meta EXCEPT ![c] = p.dir = "in" /\ set.dns_mode /\ cfg.dns]
    /\ UNCHANGED <<set, cfg, now, mapVars, hostVars, histVars>>

frame == <<set, cfg, now, pkt, jiff, meta, hostVars, stable>>

(* xfw_xdp_filter up to the DNS filter. *)
Parse(c) ==
    LET p    == pkt[c]
        v3   == in_process_l3(p)
        v    == IF ~cfg.active THEN "pass"
                ELSE IF p.broken = "eth" THEN "drop"
                ELSE IF v3 \in {"drop", "pass"} THEN v3 ELSE L4Verdict(p)
        next == IF p.proto = "udp" /\ set.dns_mode THEN "dns"
                ELSE IF p.proto = "icmp" THEN "icmp" ELSE "src"
        f    == IF cfg.active THEN "parse" ELSE "preload"
    IN  /\ pc[c] = "parse"
        /\ IF v = "continue"
           THEN /\ pc' = [pc EXCEPT ![c] = next]
                /\ Count(c, {"total"})
                /\ UNCHANGED <<res, why>>
           ELSE /\ pc' = [pc EXCEPT ![c] = "final"]
                /\ res' = [res EXCEPT ![c] = v]
                /\ why' = [why EXCEPT ![c] = f]
                /\ Count(c, {"total", Counter(v)})
        /\ UNCHANGED <<frame, mapVars, owed, histVars>>

(* ingress_dns_filter.  Without metadata, when the filter was switched on  *)
(* under the packet, it is not judged.                                     *)
IngressDns(c) ==
    LET m == pkt[c].dns
        v == IF cfg.dns /\ pkt[c].kind \in {"query", "answer"} /\ meta[c]
             THEN ingress_dns_filter_global(m, m.id \in ids) ELSE "continue"
    IN  /\ pc[c] = "dns"
        /\ Chain(c, "dns", v, "src")
        /\ UNCHANGED <<frame, mapVars, owed, histVars>>

Icmp(c) ==
    /\ pc[c] = "icmp"
    /\ \E v \in icmp_filter : Chain(c, "icmp", v, "src")
    /\ UNCHANGED <<frame, mapVars, owed, histVars>>

(* src_filter; for ICMP src_filter_ip, then XFW_CTX_PASS. *)
Src(c) ==
    /\ pc[c] = "src"
    /\ \E v \in src_filter_ip(pkt[c]) :
          IF v # "continue" THEN Chain(c, "src", v, "none")
          ELSE IF pkt[c].proto = "icmp" THEN Chain(c, "icmp passed", "pass", "none")
          ELSE \E w \in src_filter_port(pkt[c]) :
                  Chain(c, "port", w, IF pkt[c].proto = "tcp" THEN "flags" ELSE "dst")
    /\ UNCHANGED <<frame, mapVars, owed, histVars>>

-----------------------------------------------------------------------------
(* tcp_flags_filter *)

(* A connection is closed: nothing more is owed to it. *)
Closed(p) == accepted' = accepted \ {p} /\ Disown(OfPeer(p))

(* FIN, RST, SYN+ACK and segments without flags *)
FlagsAuth(c, ev) ==
    LET p == pkt[c].peer
    IN  /\ conn' = [conn EXCEPT ![p] = AuthEntry(p, ev)]
        /\ IF cfg.auth /\ ev = "rst" THEN Closed(p) ELSE UNCHANGED <<accepted, owed>>
        /\ IF AuthVerdict(p) = "drop" THEN Chain(c, "auth", "drop", "none")
           ELSE \E v \in (IF ev = "rst" THEN FlagLimit("rst") ELSE {"continue"}) :
                   Chain(c, "flags", v, "dst")
        /\ UNCHANGED <<frame, timers, ids, cookie, spoke, sent, asked>>

Flags(c) ==
    /\ pc[c] = "flags"
    /\ \/ pkt[c].kind = "fin" /\ FlagsAuth(c, "fin")
       \/ pkt[c].kind = "rst" /\ FlagsAuth(c, "rst")
       \/ pkt[c].kind \in {"synack", "noflags"} /\ FlagsAuth(c, "normal")

(* tcp_rcv_syn_filter: outcome is what the socket lookup, the kernel and   *)
(* the construction of the SYN-ACK make of the SYN.                        *)
SynAttempt(c, outcome) ==
    /\ timers' = [timers EXCEPT ![c] = [try |-> jiff[c],
                                gen |-> IF outcome = "ENOENT" THEN @.gen ELSE jiff[c]]]
    /\ IF outcome = "ENOENT" THEN Chain(c, "syn", "continue", "dst")
       ELSE Chain(c, "cookie", IF outcome = "synack" THEN "tx" ELSE "drop", "none")
    /\ cookie' = IF outcome = "synack"
                 THEN [cookie EXCEPT ![pkt[c].peer] = [cpu |-> c, at |-> jiff[c]]]
                 ELSE cookie

Syn(c) ==
    /\ pc[c] = "flags" /\ pkt[c].kind = "syn"
    /\ \E v \in FlagLimit("syn") :
          IF v = "drop" THEN Chain(c, "flags", "drop", "none") /\ UNCHANGED <<timers, cookie>>
          ELSE IF set.host /\ cfg.ck.on /\ Attempts(cfg.ck, timers[c], jiff[c])
          THEN \E outcome \in (IF pkt[c].peer \in set.listening
                               THEN {"ENOENT", "failed", "synack"} ELSE {"failed"}) :
                  SynAttempt(c, outcome)
          ELSE Chain(c, "syn", "continue", "dst") /\ UNCHANGED <<timers, cookie>>
    /\ UNCHANGED <<frame, conn, ids, owed, accepted, spoke, sent, asked>>

(* tcp_syncookies_ack_filter: the socket found, or the listening one and   *)
(* the cookie in the ACK.                                                  *)
tcp_syncookies_ack_filter(p) ==
    IF p.peer \in established THEN "continue"
    ELSE IF p.peer \in set.listening /\ p.kind = "ack" /\ cookie[p.peer] # NoCookie
    THEN "continue" ELSE "drop"

(* tcp_auth_conn_add *)
AckEntryForgotten(p) == conn[p]
AckEntry(p) == "open"

(* tcp_rcv_ack_filter *)
Ack(c) ==
    LET p == pkt[c]
        flood == set.host /\ cfg.ck.on /\ tcp_syncookies_flood_mode(cfg.ck, timers[c], jiff[c])
    IN  /\ pc[c] = "flags" /\ p.kind \in {"ack", "data"}
        /\ timers' = IF flood THEN [timers EXCEPT ![c].try = jiff[c]] ELSE timers
        /\ IF ~flood
           THEN /\ conn' = [conn EXCEPT ![p.peer] = AuthEntry(p.peer, "normal")]
                /\ Chain(c, "auth", AuthVerdict(p.peer), "dst")
                /\ UNCHANGED <<accepted, spoke>>
           ELSE IF cfg.auth /\ Trusted(p.peer)
           THEN Chain(c, "ack", "continue", "dst") /\ UNCHANGED <<conn, accepted, spoke>>
           ELSE /\ Chain(c, "cookie", tcp_syncookies_ack_filter(p), "dst")
                /\ IF tcp_syncookies_ack_filter(p) = "continue"
                   THEN /\ conn' = [conn EXCEPT ![p.peer] = AckEntry(p.peer)]
                        /\ accepted' = accepted \cup {p.peer}
                        /\ spoke' = spoke \cup {p.peer}
                   ELSE UNCHANGED <<conn, accepted, spoke>>
        /\ UNCHANGED <<frame, ids, owed, cookie, sent, asked>>

-----------------------------------------------------------------------------
(* xfw_dst_filter at the end of the chain; passing it is passing. *)
Dst(c) ==
    /\ pc[c] = "dst"
    /\ \E v \in xfw_dst_filter(pkt[c]) :
          Chain(c, "dst", IF v = "continue" THEN "pass" ELSE v, "none")
    /\ UNCHANGED <<frame, mapVars, owed, histVars>>

-----------------------------------------------------------------------------
(* xfw_tc: parsing errors pass; dst rules only towards protected networks; *)
(* both programs leave the packet counted once.                            *)

Parsed(p) == /\ p.broken # "eth" /\ ParsesL4(p)
             /\ CASE parse_ethhdr(p) = "ip4" -> parse_iphdr(p) \in {"tcp", "udp"}
                  [] parse_ethhdr(p) = "ip6" -> parse_ip6hdr(p) \in {"tcp", "udp"}
                  [] OTHER -> FALSE

(* out_process_l3, out_process_l4 with egress_dns_filter.  The LRU map     *)
(* makes room for an id that is not there (BPF_NOEXIST).                   *)
Egress(c) ==
    LET p == pkt[c]
        new == /\ set.dns_mode /\ cfg.dns /\ p.kind \in {"query", "answer"}
               /\ Recorded(p.dns) /\ p.dns.id \notin ids
    IN  /\ pc[c] = "egress"
        /\ IF Parsed(p)
           THEN /\ pc' = [pc EXCEPT ![c] = IF p.protected THEN "egress dst" ELSE "learn"]
                /\ UNCHANGED <<res, stat, why>>
           ELSE /\ pc' = [pc EXCEPT ![c] = "final"]
                /\ res' = [res EXCEPT ![c] = "pass"]
                /\ why' = [why EXCEPT ![c] = "unparsed"]
                /\ Count(c, {"total", Counter("pass")})
        /\ IF Parsed(p) /\ new
           THEN \E e \in (IF Cardinality(ids) < set.dns_cap THEN {NoPeer} ELSE ids) :
                   /\ ids' = (ids \ {e}) \cup {p.dns.id}
                   /\ sent' = (sent \ {e}) \cup {p.dns.id}
                   /\ asked' = asked \cup {p.dns.id}
                   /\ Disown(OfAnswer(e))
           ELSE UNCHANGED <<ids, sent, asked, owed>>
        /\ UNCHANGED <<frame, timers, conn, cookie, accepted, spoke>>

(* process_downstream_egress *)
EgressDst(c) ==
    /\ pc[c] = "egress dst"
    /\ \E v \in xfw_dst_filter(pkt[c]) :
          IF v = "continue" THEN Chain(c, "dst", v, "learn")
          ELSE /\ pc' = [pc EXCEPT ![c] = "final"]
               /\ res' = [res EXCEPT ![c] = v]
               /\ why' = [why EXCEPT ![c] = "dst"]
               /\ Count(c, {"total", Counter(v)})
    /\ UNCHANGED <<frame, mapVars, owed, histVars>>

Learn(c) ==
    LET p == pkt[c]
    IN  /\ pc[c] = "learn"
        /\ IF p.proto = "tcp"
           THEN /\ conn' = [conn EXCEPT ![p.peer] = LearnedEntry(p.peer, p.kind)]
                /\ IF p.kind = "rst" THEN Closed(p.peer)
                   ELSE /\ accepted' = IF p.kind \in {"syn", "synack"}
                                       THEN accepted \cup {p.peer} ELSE accepted
                        /\ UNCHANGED owed
                /\ spoke' = IF ~cfg.auth \/ p.kind \in {"syn", "synack"}
                            THEN spoke \cup {p.peer} ELSE spoke
           ELSE UNCHANGED <<conn, accepted, owed, spoke>>
        /\ pc' = [pc EXCEPT ![c] = "final"]
        /\ res' = [res EXCEPT ![c] = "pass"]
        /\ why' = [why EXCEPT ![c] = "learned"]
        /\ Count(c, {"total", Counter("pass")})
        /\ UNCHANGED <<frame, timers, ids, cookie, sent, asked>>

-----------------------------------------------------------------------------
(* finalize_result, called at the end of both programs; a failed           *)
(* XFW_ASSERT is a pass.                                                   *)
finalize_result_xdp_only(c) == IF res[c] = "drop" /\ cfg.eval /\ In(c) THEN "pass"
                               ELSE IF res[c] = "assert" THEN "pass" ELSE res[c]
finalize_result(c) == IF res[c] = "drop" /\ cfg.eval THEN "pass"
                      ELSE IF res[c] = "assert" THEN "pass" ELSE res[c]

(* The program ends; the TCP stack gets what passed. *)
Finish(c) ==
    LET p == pkt[c]
        got(kind) == /\ finalize_result(c) = "pass"
                     /\ p.dir = "in" /\ p.proto = "tcp" /\ p.kind = kind
    IN  /\ pc[c] = "final"
        /\ pc' = [pc EXCEPT ![c] = "idle"]
        /\ pkt' = [pkt EXCEPT ![c] = SomePacket]
        /\ jiff' = [jiff EXCEPT ![c] = 0]
        /\ meta' = [meta EXCEPT ![c] = FALSE]
        /\ res' = [res EXCEPT ![c] = "continue"]
        /\ stat' = [stat EXCEPT ![c] = NoStat]
        /\ stable' = [stable EXCEPT ![c] = FALSE]
        /\ why' = [why EXCEPT ![c] = "none"]
        /\ IF got("rst")
           THEN /\ pending' = pending \ {p.peer}
                /\ established' = established \ {p.peer}
                /\ owed' = [d \in CPU |-> d # c /\ owed[d] /\ d \notin OfPeer(p.peer)]
           ELSE /\ pending' = IF got("ack") /\ (cookie[p.peer] # NoCookie \/ p.peer \in spoke)
                              THEN pending \cup {p.peer} ELSE pending
                /\ owed' = [owed EXCEPT ![c] = FALSE]
                /\ UNCHANGED established
        /\ UNCHANGED <<set, cfg, now, mapVars, histVars>>

-----------------------------------------------------------------------------
(* The world around the programs. *)

(* External: the TCP stack completes a handshake. *)
Establish(p) ==
    /\ p \in pending
    /\ pending' = pending \ {p}
    /\ established' = established \cup {p}
    /\ UNCHANGED <<set, cfg, now, progVars, mapVars, stable, why, owed, histVars>>

(* The manager writes the configuration element (upload_filter). *)
Update(f) ==
    /\ f # cfg
    /\ cfg' = f
    /\ stable' = [c \in CPU |-> FALSE]
    /\ owed' = [c \in CPU |-> FALSE]
    /\ UNCHANGED <<set, now, progVars, mapVars, hostVars, why, histVars>>

Tick ==
    /\ now < set.last
    /\ now' = now + 1
    /\ UNCHANGED <<set, cfg, progVars, mapVars, hostVars, stable, why, owed, histVars>>

(* The grace period of a closed connection ends (tcp_auth_is_conn_outdated). *)
Expire(p) ==
    /\ conn[p] = "fin"
    /\ conn' = [conn EXCEPT ![p] = "old"]
    /\ Closed(p)
    /\ UNCHANGED <<set, cfg, now, progVars, timers, ids, hostVars, stable, why, cookie, spoke, sent, asked>>

Next == \/ \E c \in CPU :
              \/ \E p \in set.packets : Begin(c, p)
              \/ Parse(c) \/ IngressDns(c) \/ Icmp(c) \/ Src(c)
              \/ Flags(c) \/ Syn(c) \/ Ack(c) \/ Dst(c)
              \/ Egress(c) \/ EgressDst(c) \/ Learn(c)
              \/ Finish(c)
        \/ \E p \in Peer : Establish(p) \/ Expire(p)
        \/ \E f \in set.cfgs : Update(f)
        \/ Tick

Spec == Init /\ [][Next]_vars

-----------------------------------------------------------------------------
(* A program is about to return, under the configuration it started with. *)
Done(c) == pc[c] = "final" /\ stable[c]

TypeOK == /\ cfg \in set.cfgs
          /\ now \in Time
          /\ pkt \in [CPU -> set.packets]
          /\ res \in [CPU -> {"continue", "pass", "drop", "tx", "assert"}]
          /\ \A c \in CPU : pc[c] = "final" => res[c] # "continue"
          /\ conn \in [Peer -> {"none", "open", "fin", "old"}]
          /\ Cardinality(ids) <= set.dns_cap /\ ids = sent

(* Every packet is counted once as seen and once as passed, dropped or     *)
(* answered, whatever path it took and whatever changed meanwhile: the     *)
(* codes and the counters are set apart from each other in xdp.c and tc.c, *)
(* which filter.h:102-105 warns of.  Only a packet that got no metadata    *)
(* area is not counted.                                                    *)
EveryPacketCounted ==
    \A c \in CPU : pc[c] = "final" =>
        IF why[c] = "metadata" THEN stat[c] = NoStat
        ELSE /\ stat[c]["total"] = 1
             /\ stat[c]["passed"] + stat[c]["dropped"] + stat[c]["tx"] = 1
             /\ stat[c]["dropped"] = 1 <=> res[c] = "drop"

(* In evaluation mode every packet goes where it would go without xFW: not *)
(* dropped by either program and not answered by the filter                *)
(* (finalize_result, and the updater refusing cookies in that mode).       *)
EvaluationOnlyObserves ==
    \A c \in CPU : Done(c) /\ cfg.eval => finalize_result(c) = "pass"

SrcRule(p)  == IF cfg.src_ip[p.peer] # "none" THEN cfg.src_ip[p.peer] ELSE cfg.src_ip_default
PortRule(p) == IF cfg.src_port[p.peer] # "none" THEN cfg.src_port[p.peer] ELSE cfg.src_port_default
DstRule(p)  == IF cfg.dst[p.peer] # "none" THEN cfg.dst[p.peer] ELSE cfg.dst_default

(* What a packet that reaches the host has in common, in whatever order    *)
(* the filters run: nothing about it is forbidden.  A source allowed by    *)
(* name skips the filters behind the source filter, never those before.    *)
Permitted(p) ==
    LET allowed == cfg.src_ip[p.peer] = "allow"
        port_allowed == allowed \/ cfg.src_port[p.peer] = "allow"
    IN  /\ ~p.frag /\ p.tags <= VLAN_MAX_DEPTH
        /\ p.proto \in cfg.protos
        /\ p.proto \in {"tcp", "udp", "icmp"} => SrcRule(p) # "block"
        /\ p.proto \in {"tcp", "udp"} /\ ~allowed => PortRule(p) # "block"
        /\ p.proto \in {"tcp", "udp"} /\ ~port_allowed => DstRule(p) # "block"
        /\ p.proto = "tcp" /\ cfg.anomaly.on => "bad flags" \notin p.anomalies
        /\ p.kind = "answer" /\ set.dns_mode /\ cfg.dns => p.dns.id \in asked
        /\ p.proto = "tcp" /\ p.kind # "syn" /\ cfg.auth /\ ~port_allowed => p.peer \in spoke

(* With rules loaded and enforced a packet the policy forbids never        *)
(* reaches the host: no filter before the one that forbids it lets it      *)
(* through early (in_process_l4, src_filter, tcp_flags_filter), unless a   *)
(* bucket of its source could not be created.                              *)
PolicyEnforced ==
    \A c \in CPU :
        (/\ Done(c) /\ In(c) /\ cfg.active /\ ~cfg.eval
         /\ why[c] # "metadata" /\ res[c] # "assert"
         /\ parse_ethhdr(pkt[c]) # "arp"
         /\ finalize_result(c) = "pass") => Permitted(pkt[c])

(* The filters that follow connections and queries do not drop what they   *)
(* have to let in: segments of a connection whose handshake they saw,      *)
(* with cookies or without, even when flood mode starts or ends under it;  *)
(* the ACK of a cookie; the answer to a query (tcp_rcv_ack_filter,         *)
(* tcp_auth_conn_egress_learning, egress_dns_filter).                      *)
ExpectedNotDropped ==
    \A c \in CPU : pc[c] = "final" /\ owed[c] =>
        ~(res[c] = "drop" /\ why[c] \in {"auth", "cookie", "dns"})

(* Whenever a SYN is answered: the options of the client are read as TCP   *)
(* defines them (tcp_parse_opts), whatever bytes the option area holds;    *)
(* the answer is a well formed packet with right checksums though they are *)
(* updated and not computed; and the timestamp gives the kernel the        *)
(* options back, is at most two units old and wraps around with the clock. *)
SynAckWellFormed == \A c \in CPU : res[c] = "tx" => SynAckAgrees

(* Whenever a DNS message is judged: a name is accepted if and only if it  *)
(* is one, its last label starts within MAX_DNS_NAME and the packet goes   *)
(* on behind it; the cursor is then at the byte behind the name            *)
(* (process_dname), so no record is read from the middle of a name or from *)
(* beyond the packet.                                                      *)
NamesAgree == \A c \in CPU : pc[c] = "dns" => WalkAgrees
=============================================================================
