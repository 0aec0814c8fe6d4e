------------------------- MODULE FilterChain_proofs -------------------------
(***************************************************************************)
(* Proofs about FilterChain for any packets, rules, peers and CPUs, with   *)
(* the configuration changing between any two filters.                     *)
(***************************************************************************)
EXTENDS FilterChain, Counting, FiniteSetTheorems, TLAPS

Behind  == {"dns", "icmp", "src", "flags", "dst"}     \* the filters behind the headers
OutSide == {"egress", "egress dst", "learn"}
Place   == {"idle", "parse", "final"} \cup Behind \cup OutSide
Result  == {"continue", "pass", "drop", "tx", "assert"}
Reason  == {"none", "metadata", "preload", "parse", "dns", "icmp", "src", "icmp passed", "port",
            "auth", "flags", "cookie", "syn", "ack", "dst", "unparsed", "learned"}
StatKind == {"total", "passed", "dropped", "tx"}
Entry   == {"none", "open", "fin", "old"}

Types ==
    /\ set \in Setting
    /\ cfg \in set.cfgs
    /\ now \in Time
    /\ pc \in [CPU -> Place]
    /\ pkt \in [CPU -> set.packets]
    /\ meta \in [CPU -> BOOLEAN] /\ stable \in [CPU -> BOOLEAN]
    /\ res \in [CPU -> Result] /\ why \in [CPU -> Reason]
    /\ stat \in [CPU -> [StatKind -> Nat]]
    /\ conn \in [Peer -> Entry]
    /\ IsFiniteSet(ids) /\ Cardinality(ids) <= set.dns_cap /\ ids = sent

(* What the maps hold came from the host. *)
Known ==
    /\ ids \subseteq asked
    /\ \A p \in Peer : conn[p] # "none" => p \in spoke

Counted(c) ==
    /\ pc[c] \in {"parse"} \cup OutSide => \A k \in StatKind : stat[c][k] = 0
    /\ pc[c] \in Behind => \A k \in StatKind : stat[c][k] = IF k = "total" THEN 1 ELSE 0
    /\ pc[c] = "final" =>
         /\ res[c] # "continue"
         /\ IF why[c] = "metadata" THEN \A k \in StatKind : stat[c][k] = 0
            ELSE \A k \in StatKind : stat[c][k] = IF k \in {"total", Counter(res[c])} THEN 1 ELSE 0

(* What the filters a packet has behind it have made sure of *)
HeadersOk(p) ==
    /\ ~p.frag /\ p.tags <= VLAN_MAX_DEPTH /\ p.proto \in cfg.protos
    /\ p.proto = "tcp" /\ cfg.anomaly.on => "bad flags" \notin p.anomalies
AnswerOk(p) == p.kind = "answer" /\ set.dns_mode /\ cfg.dns => p.dns.id \in asked
AuthOk(p)   == p.proto = "tcp" /\ p.kind # "syn" /\ cfg.auth => p.peer \in spoke

Cleared(p, l) ==
    /\ l \in Behind => HeadersOk(p) /\ p.proto \in {"tcp", "udp", "icmp"}
    /\ l \in {"icmp", "src", "flags", "dst"} => AnswerOk(p)
    /\ l \in {"flags", "dst"} => SrcRule(p) # "block" /\ PortRule(p) # "block" /\ p.proto # "icmp"
    /\ l = "flags" => p.proto = "tcp"
    /\ l = "dst" => AuthOk(p)

Judged(c) == stable[c] /\ In(c) /\ cfg.active

Stage(c) ==
    /\ pc[c] \in OutSide => ~In(c)
    /\ (stable[c] /\ pc[c] = "final" /\ res[c] = "tx") => cfg.ck.on
    /\ (stable[c] /\ In(c) /\ pc[c] \in Behind \cup {"parse"}) =>
         (meta[c] <=> (set.dns_mode /\ cfg.dns))
    /\ Judged(c) => Cleared(pkt[c], pc[c])
    /\ (/\ Judged(c) /\ pc[c] = "final" /\ res[c] = "pass" /\ why[c] # "metadata"
        /\ parse_ethhdr(pkt[c]) # "arp") => Permitted(pkt[c])

IInv == Types /\ Known /\ \A c \in CPU : Counted(c) /\ Stage(c)

-----------------------------------------------------------------------------
LEMMA SettingFacts ==
    ASSUME Types
    PROVE  /\ SettingType(set) /\ LegalCfg(cfg)
           /\ \A p \in set.packets : PacketType(p) /\ p.peer \in Peer
           /\ SomePacket \in set.packets
  BY FilterChainAssumption DEF Types, SettingType, SomePacket, Peer

LEMMA CountFacts ==
    ASSUME Types, NEW c \in CPU, NEW what, Count(c, what)
    PROVE  /\ stat' \in [CPU -> [StatKind -> Nat]]
           /\ \A d \in CPU : d # c => stat'[d] = stat[d]
           /\ \A k \in StatKind : stat'[c][k] = stat[c][k] + (IF k \in what THEN 1 ELSE 0)
<1>1. stat \in [CPU -> [StatKind -> Nat]] /\ stat[c] \in [StatKind -> Nat] /\ DOMAIN stat[c] = StatKind
  BY DEF Types
<1> DEFINE s == [k \in StatKind |-> stat[c][k] + (IF k \in what THEN 1 ELSE 0)]
<1>2. stat' = [stat EXCEPT ![c] = s]
  BY <1>1 DEF Count
<1>3. s \in [StatKind -> Nat]
  BY <1>1
<1> QED
  BY <1>1, <1>2, <1>3

LEMMA CounterFacts == \A v : Counter(v) \in StatKind \ {"total"}
  BY DEF Counter, StatKind

(* The other programs only see the host learn more. *)
LEMMA Elsewhere ==
    ASSUME IInv, NEW d \in CPU, UNCHANGED <<set, cfg>>,
           pc'[d] = pc[d], pkt'[d] = pkt[d], meta'[d] = meta[d], stable'[d] = stable[d],
           res'[d] = res[d], why'[d] = why[d], stat'[d] = stat[d],
           asked \subseteq asked', spoke \subseteq spoke'
    PROVE  Counted(d)' /\ Stage(d)'
<1>1. Counted(d) /\ Stage(d)
  BY DEF IInv
<1>2. Counted(d)'
  BY <1>1 DEF Counted
<1>3. (Judged(d) <=> Judged(d)') /\ (In(d) <=> In(d)')
  BY DEF Judged, In
<1>4. Cleared(pkt[d], pc[d]) => Cleared(pkt[d], pc[d])'
  <2>1. HeadersOk(pkt[d]) => HeadersOk(pkt[d])'
    BY DEF HeadersOk
  <2>2. AnswerOk(pkt[d]) => AnswerOk(pkt[d])'
    BY DEF AnswerOk
  <2>3. AuthOk(pkt[d]) => AuthOk(pkt[d])'
    BY DEF AuthOk
  <2>4. (SrcRule(pkt[d]) # "block" => SrcRule(pkt[d])' # "block") /\ (PortRule(pkt[d]) # "block" => PortRule(pkt[d])' # "block")
    BY DEF SrcRule, PortRule
  <2> QED
    BY <2>1, <2>2, <2>3, <2>4 DEF Cleared
<1>5. Permitted(pkt[d]) => Permitted(pkt[d])'
  BY DEF Permitted, SrcRule, PortRule, DstRule
<1>6. Stage(d)'
  BY <1>1, <1>3, <1>4, <1>5 DEF Stage
<1> QED
  BY <1>2, <1>6

-----------------------------------------------------------------------------
(* A step of the program on c leaves the other programs and their packets  *)
(* alone; the host may learn.                                              *)
ProgStep(c) ==
    /\ UNCHANGED <<set, cfg, now, pkt, meta, stable>>
    /\ pc' \in [CPU -> Place] /\ res' \in [CPU -> Result] /\ why' \in [CPU -> Reason]
    /\ stat' \in [CPU -> [StatKind -> Nat]]
    /\ \A d \in CPU \ {c} :
         pc'[d] = pc[d] /\ res'[d] = res[d] /\ why'[d] = why[d] /\ stat'[d] = stat[d]

MapStep ==
    /\ conn' \in [Peer -> Entry]
    /\ IsFiniteSet(ids') /\ Cardinality(ids') <= set.dns_cap /\ ids' = sent'
    /\ asked \subseteq asked' /\ spoke \subseteq spoke'
    /\ Known'

LEMMA SameMaps ==
    ASSUME IInv, UNCHANGED <<set, conn, ids, sent, asked, spoke>>
    PROVE  MapStep
  BY DEF IInv, Types, Known, MapStep, Peer

LEMMA LocalStep ==
    ASSUME IInv, NEW c \in CPU, ProgStep(c), MapStep, Counted(c)', Stage(c)'
    PROVE  IInv'
<1>1. Types'
  BY DEF IInv, Types, ProgStep, MapStep, CPU, Peer
<1>2. ASSUME NEW d \in CPU, d # c PROVE Counted(d)' /\ Stage(d)'
  BY <1>2, Elsewhere DEF ProgStep, MapStep
<1>3. CPU' = CPU
  BY DEF ProgStep, CPU
<1> QED
  BY <1>1, <1>2, <1>3 DEF IInv, MapStep

(* Filter f has judged the packet. *)
LEMMA ChainStep ==
    ASSUME IInv, NEW c \in CPU, NEW f \in Reason, NEW v \in Result, NEW next \in Behind \cup {"none"},
           pc[c] \in Behind, f # "metadata", v = "continue" => next \in Behind,
           Chain(c, f, v, next), UNCHANGED <<set, cfg, now, pkt, meta, stable>>,
           v = "tx" => cfg.ck.on,
           Judged(c) /\ v = "continue" => Cleared(pkt[c], next)',
           Judged(c) /\ v = "pass" => Permitted(pkt[c])'
    PROVE  ProgStep(c) /\ Counted(c)' /\ Stage(c)'
<1>1. Counted(c) /\ Stage(c) /\ Types
  BY DEF IInv
<1>2. (Judged(c)' <=> Judged(c)) /\ (In(c)' <=> In(c))
  BY DEF Judged, In
<1>3. CASE v = "continue"
  <2>1. /\ pc' = [pc EXCEPT ![c] = next] /\ UNCHANGED <<res, stat, why>> /\ next \in Behind
        /\ pc'[c] = next
    BY <1>1, <1>3 DEF Chain, Types
  <2>2. ProgStep(c)
    BY <1>1, <2>1 DEF ProgStep, Types, Place
  <2>3. Counted(c)'
    BY <1>1, <2>1 DEF Counted, Behind, OutSide
  <2>4. Stage(c)'
    <3>1. pc'[c] \notin OutSide /\ pc'[c] # "final"
      BY <2>1 DEF Behind, OutSide
    <3>2. (stable[c] /\ In(c))' => (meta[c] <=> (set.dns_mode /\ cfg.dns))'
      BY <1>1, <1>2 DEF Stage
    <3>3. Judged(c)' => Cleared(pkt[c], pc[c])'
      BY <1>2, <1>3, <2>1 DEF Cleared
    <3> QED
      BY <3>1, <3>2, <3>3 DEF Stage
  <2> QED
    BY <2>2, <2>3, <2>4
<1>4. CASE v # "continue"
  <2>1. /\ pc' = [pc EXCEPT ![c] = "final"] /\ res' = [res EXCEPT ![c] = v]
        /\ why' = [why EXCEPT ![c] = f] /\ Count(c, {Counter(v)})
        /\ pc'[c] = "final" /\ res'[c] = v /\ why'[c] = f
    BY <1>1, <1>4 DEF Chain, Types
  <2>2. /\ stat' \in [CPU -> [StatKind -> Nat]]
        /\ \A d \in CPU : d # c => stat'[d] = stat[d]
        /\ \A k \in StatKind : stat'[c][k] = stat[c][k] + (IF k \in {Counter(v)} THEN 1 ELSE 0)
    BY <1>1, <2>1, CountFacts
  <2>3. ProgStep(c)
    BY <1>1, <2>1, <2>2 DEF ProgStep, Types, Place
  <2>4. Counted(c)'
    <3>1. \A k \in StatKind : stat[c][k] = IF k = "total" THEN 1 ELSE 0
      BY <1>1 DEF Counted
    <3>2. \A k \in StatKind : stat'[c][k] = IF k \in {"total", Counter(v)} THEN 1 ELSE 0
      BY <3>1, <2>2, CounterFacts
    <3>3. \A k \in StatKind : stat'[c][k] = IF k \in {"total", Counter(res[c])'} THEN 1 ELSE 0
      BY <3>2, <2>1 DEF Counter
    <3> QED
      BY <1>4, <2>1, <3>3 DEF Counted, Behind, OutSide
  <2>5. Stage(c)'
    <3>1. pc'[c] \notin OutSide \cup Behind \cup {"parse"}
      BY <2>1 DEF Behind, OutSide
    <3>2. (stable[c] /\ pc[c] = "final" /\ res[c] = "tx")' => cfg.ck.on'
      BY <2>1
    <3>3. Judged(c)' => Cleared(pkt[c], pc[c])'
      BY <2>1 DEF Cleared, Behind
    <3>4. (Judged(c) /\ res[c] = "pass")' => Permitted(pkt[c])'
      BY <2>1, <1>2
    <3> QED
      BY <3>1, <3>2, <3>3, <3>4 DEF Stage
  <2> QED
    BY <2>3, <2>4, <2>5
<1> QED
  BY <1>3, <1>4

(* The packet is decided by the headers, or leaves the host. *)
LEMMA EndStep ==
    ASSUME IInv, NEW c \in CPU, NEW f \in Reason, NEW v \in {"pass", "drop"},
           pc[c] \in OutSide \cup {"parse"}, f # "metadata",
           pc' = [pc EXCEPT ![c] = "final"], res' = [res EXCEPT ![c] = v],
           why' = [why EXCEPT ![c] = f], Count(c, {"total", Counter(v)}),
           UNCHANGED <<set, cfg, now, pkt, meta, stable>>,
           (Judged(c) /\ v = "pass" /\ parse_ethhdr(pkt[c]) # "arp") => Permitted(pkt[c])'
    PROVE  ProgStep(c) /\ Counted(c)' /\ Stage(c)'
<1>1. Counted(c) /\ Stage(c) /\ Types
  BY DEF IInv
<1>2. (Judged(c)' <=> Judged(c)) /\ (In(c)' <=> In(c))
  BY DEF Judged, In
<1>3. pc'[c] = "final" /\ res'[c] = v /\ why'[c] = f
  BY <1>1 DEF Types
<1>4. /\ stat' \in [CPU -> [StatKind -> Nat]]
      /\ \A d \in CPU : d # c => stat'[d] = stat[d]
      /\ \A k \in StatKind : stat'[c][k] = stat[c][k] + (IF k \in {"total", Counter(v)} THEN 1 ELSE 0)
  BY <1>1, CountFacts
<1>5. ProgStep(c)
  BY <1>1, <1>4 DEF ProgStep, Types, Place, Result
<1>6. Counted(c)'
  <2>1. \A k \in StatKind : stat[c][k] = 0
    BY <1>1 DEF Counted
  <2>2. \A k \in StatKind : stat'[c][k] = IF k \in {"total", Counter(res[c])'} THEN 1 ELSE 0
    BY <2>1, <1>3, <1>4 DEF Counter
  <2> QED
    BY <1>3, <2>2 DEF Counted, Behind, OutSide
<1>7. Stage(c)'
  <2>1. pc'[c] \notin OutSide \cup Behind \cup {"parse"} /\ res'[c] # "tx"
    BY <1>3 DEF Behind, OutSide
  <2>2. Judged(c)' => Cleared(pkt[c], pc[c])'
    BY <1>3 DEF Cleared, Behind
  <2>3. (Judged(c) /\ res[c] = "pass" /\ parse_ethhdr(pkt[c]) # "arp")' => Permitted(pkt[c])'
    BY <1>2, <1>3 DEF parse_ethhdr, VLAN_MAX_DEPTH
  <2> QED
    BY <2>1, <2>2, <2>3 DEF Stage
<1> QED
  BY <1>5, <1>6, <1>7

-----------------------------------------------------------------------------
(* What the filters make sure of. *)

(* A fragment never gets past the IP headers: the fragment header is seen, *)
(* or the chain of headers before it is too long.                          *)
LEMMA HeadersHold ==
    ASSUME NEW p, PacketType(p), in_process_l3(p) \notin {"drop", "pass"}
    PROVE  ~p.frag /\ p.tags <= VLAN_MAX_DEPTH
<1>1. p.tags <= VLAN_MAX_DEPTH /\ parse_ethhdr(p) = p.l3
  BY DEF PacketType, in_process_l3, parse_ethhdr, VLAN_MAX_DEPTH
<1>2. CASE p.l3 = "ip4"
  BY <1>1, <1>2 DEF in_process_l3
<1>3. CASE p.l3 = "ip6"
  <2>1. parse_ip6hdr(p) \notin {"fragment", "bad"}
    BY <1>1, <1>3 DEF in_process_l3
  <2>2. SUFFICES ASSUME p.frag PROVE FALSE
    BY <1>1
  <2>3. PICK i \in 1..Len(p.ext) : p.ext[i] = "fragment"
    BY <1>3, <2>2 DEF PacketType
  <2>4. skip_ip6hdrext(p) \in {"fragment", "bad"}
    <3>1. CASE i <= IPV6_EXT_MAX_CHAIN
      BY <2>3, <3>1 DEF skip_ip6hdrext
    <3>2. CASE ~(i <= IPV6_EXT_MAX_CHAIN)
      <4>1. Len(p.ext) >= IPV6_EXT_MAX_CHAIN
        BY <2>3, <3>2 DEF PacketType, IPV6_EXT_MAX_CHAIN
      <4> QED
        BY <4>1 DEF skip_ip6hdrext
    <3> QED
      BY <3>1, <3>2
  <2> QED
    BY <2>1, <2>4 DEF parse_ip6hdr
<1>4. CASE p.l3 \notin {"ip4", "ip6"}
  BY <1>1, <1>4 DEF in_process_l3
<1> QED
  BY <1>2, <1>3, <1>4

LEMMA L4Holds ==
    ASSUME NEW p
    PROVE  /\ L4Verdict(p) \in {"continue", "pass", "drop"}
           /\ L4Verdict(p) # "drop" => p.proto \in cfg.protos
           /\ L4Verdict(p) = "pass" => p.proto \notin {"tcp", "udp", "icmp"}
           /\ L4Verdict(p) = "continue" =>
                /\ p.proto \in {"tcp", "udp", "icmp"}
                /\ p.proto = "tcp" /\ cfg.anomaly.on => "bad flags" \notin p.anomalies
  BY DEF L4Verdict, tcp_anomaly_filter

-----------------------------------------------------------------------------
(* The steps of the ingress program *)

LEMMA ParseInv == ASSUME IInv, NEW c \in CPU, Parse(c) PROVE IInv'
<1> DEFINE p  == pkt[c]
           v3 == in_process_l3(p)
           v  == IF ~cfg.active THEN "pass"
                 ELSE IF p.broken = "eth" THEN "drop"
                 ELSE IF v3 \in {"drop", "pass"} THEN v3 ELSE L4Verdict(p)
           next == IF p.proto = "udp" /\ set.dns_mode THEN "dns"
                   ELSE IF p.proto = "icmp" THEN "icmp" ELSE "src"
           f  == IF cfg.active THEN "parse" ELSE "preload"
<1>1. Counted(c) /\ Stage(c) /\ Types
  BY DEF IInv
<1>2. PacketType(p) /\ p \in set.packets
  BY <1>1, SettingFacts DEF Types
<1>3. /\ pc[c] = "parse"
      /\ UNCHANGED <<set, cfg, now, pkt, meta, stable>>
      /\ UNCHANGED <<conn, ids, sent, asked, spoke>>
  BY DEF Parse, frame, mapVars, histVars
<1>4. IF v = "continue"
      THEN pc' = [pc EXCEPT ![c] = next] /\ Count(c, {"total"}) /\ UNCHANGED <<res, why>>
      ELSE /\ pc' = [pc EXCEPT ![c] = "final"] /\ res' = [res EXCEPT ![c] = v]
           /\ why' = [why EXCEPT ![c] = f] /\ Count(c, {"total", Counter(v)})
  BY DEF Parse
<1>5. MapStep
  BY <1>3, SameMaps
<1>6. v \in {"continue", "pass", "drop"} /\ f \in Reason /\ f # "metadata"
  BY L4Holds DEF Reason
<1>7. (v = "continue" /\ cfg.active) =>
         /\ HeadersOk(p)' /\ p.proto \in {"tcp", "udp", "icmp"}
         /\ next # "dns" => AnswerOk(p)'
  <2>1. SUFFICES ASSUME v = "continue", cfg.active
        PROVE /\ HeadersOk(p)' /\ p.proto \in {"tcp", "udp", "icmp"}
              /\ next # "dns" => AnswerOk(p)'
    OBVIOUS
  <2>2. v3 \notin {"drop", "pass"} /\ L4Verdict(p) = "continue"
    BY <2>1
  <2>3. ~p.frag /\ p.tags <= VLAN_MAX_DEPTH
    BY <1>2, <2>2, HeadersHold
  <2>4. /\ p.proto \in cfg.protos /\ p.proto \in {"tcp", "udp", "icmp"}
        /\ p.proto = "tcp" /\ cfg.anomaly.on => "bad flags" \notin p.anomalies
    BY <2>2, L4Holds
  <2>5. HeadersOk(p)'
    BY <1>3, <2>3, <2>4 DEF HeadersOk, VLAN_MAX_DEPTH
  <2>6. next # "dns" => AnswerOk(p)'
    BY <1>2, <1>3 DEF AnswerOk, PacketType
  <2> QED
    BY <2>4, <2>5, <2>6
<1>8. (v = "pass" /\ cfg.active /\ parse_ethhdr(p) # "arp") => Permitted(p)'
  <2>1. SUFFICES ASSUME v = "pass", cfg.active, parse_ethhdr(p) # "arp" PROVE Permitted(p)'
    OBVIOUS
  <2>2. v3 # "pass"
    <3>1. p.proto # "pass"
      BY <1>2 DEF PacketType, Protocol
    <3> QED
      BY <2>1, <3>1 DEF in_process_l3, parse_iphdr, parse_ip6hdr, skip_ip6hdrext
  <2>3. v3 \notin {"drop", "pass"} /\ L4Verdict(p) = "pass"
    BY <2>1, <2>2
  <2>4. /\ ~p.frag /\ p.tags <= VLAN_MAX_DEPTH
        /\ p.proto \in cfg.protos /\ p.proto \notin {"tcp", "udp", "icmp"}
    BY <1>2, <2>3, HeadersHold, L4Holds
  <2> QED
    BY <1>2, <1>3, <2>4 DEF Permitted, PacketType, VLAN_MAX_DEPTH
<1>9. CASE v = "continue"
  <2> next \in Behind /\ next \in {"dns", "icmp", "src"}
    BY DEF Behind
  <2>0. cfg.active => HeadersOk(p)' /\ p.proto \in {"tcp", "udp", "icmp"} /\ (next # "dns" => AnswerOk(p)')
    BY <1>7, <1>9
  <2>1. /\ pc' = [pc EXCEPT ![c] = next] /\ Count(c, {"total"}) /\ UNCHANGED <<res, why>>
        /\ pc'[c] = next
    BY <1>1, <1>4, <1>9 DEF Types
  <2>2. /\ stat' \in [CPU -> [StatKind -> Nat]]
        /\ \A d \in CPU : d # c => stat'[d] = stat[d]
        /\ \A k \in StatKind : stat'[c][k] = stat[c][k] + (IF k \in {"total"} THEN 1 ELSE 0)
    BY <1>1, <2>1, CountFacts
  <2> HIDE DEF next, v
  <2>3. ProgStep(c)
    BY <1>1, <1>3, <2>1, <2>2 DEF ProgStep, Types, Place
  <2>4. Counted(c)'
    <3>1. \A k \in StatKind : stat[c][k] = 0
      BY <1>1, <1>3 DEF Counted
    <3>2. \A k \in StatKind : stat'[c][k] = IF k = "total" THEN 1 ELSE 0
      BY <2>2, <3>1
    <3>3. pc'[c] \in Behind /\ pc'[c] \notin OutSide \cup {"parse", "final"}
      BY <2>1 DEF OutSide
    <3> QED
      BY <3>2, <3>3 DEF Counted
  <2>5. Stage(c)'
    <3>1. pc'[c] \notin OutSide \cup {"final"}
      BY <2>1 DEF OutSide
    <3>2. (stable[c] /\ In(c))' => (meta[c] <=> (set.dns_mode /\ cfg.dns))'
      BY <1>1, <1>3 DEF Stage, In
    <3>3. Judged(c)' => Cleared(pkt[c], pc[c])'
      <4>1. SUFFICES ASSUME Judged(c)' PROVE Cleared(pkt[c], pc[c])'
        OBVIOUS
      <4>2. HeadersOk(p)' /\ (p.proto \in {"tcp", "udp", "icmp"})' /\ (next # "dns" => AnswerOk(p)')
        <5>1. cfg.active
          BY <1>3, <4>1 DEF Judged
        <5> QED
          BY <1>3, <2>0, <5>1
      <4>3. pc'[c] \notin {"flags", "dst"} /\ (pc'[c] # "dns" => AnswerOk(pkt[c])')
        BY <2>1, <4>2
      <4> QED
        BY <4>2, <4>3 DEF Cleared
    <3> QED
      BY <3>1, <3>2, <3>3 DEF Stage
  <2> QED
    BY <1>5, <2>3, <2>4, <2>5, LocalStep
<1>10. CASE v # "continue"
  <2>1. ProgStep(c) /\ Counted(c)' /\ Stage(c)'
    <3> HIDE DEF v, f
    <3>1. /\ pc' = [pc EXCEPT ![c] = "final"] /\ res' = [res EXCEPT ![c] = v]
          /\ why' = [why EXCEPT ![c] = f] /\ Count(c, {"total", Counter(v)}) /\ v \in {"pass", "drop"}
      BY <1>4, <1>6, <1>10
    <3>2. (Judged(c) /\ v = "pass" /\ parse_ethhdr(pkt[c]) # "arp") => Permitted(pkt[c])'
      BY <1>8 DEF Judged
    <3> QED
      BY <1>3, <1>6, <3>1, <3>2, EndStep
  <2> QED
    BY <1>5, <2>1, LocalStep
<1> QED
  BY <1>9, <1>10

(* The DNS filter lets an answer in only when its id is in the map. *)
LEMMA IngressDnsInv == ASSUME IInv, NEW c \in CPU, IngressDns(c) PROVE IInv'
<1> DEFINE m == pkt[c].dns
           v == IF cfg.dns /\ pkt[c].kind \in {"query", "answer"} /\ meta[c]
                THEN ingress_dns_filter_global(m, m.id \in ids) ELSE "continue"
<1>1. Counted(c) /\ Stage(c) /\ Types /\ Known
  BY DEF IInv
<1>2. PacketType(pkt[c])
  BY <1>1, SettingFacts DEF Types
<1>3. /\ pc[c] = "dns" /\ pc[c] \in Behind /\ "src" \in Behind
      /\ UNCHANGED <<set, cfg, now, pkt, meta, stable>>
      /\ UNCHANGED <<conn, ids, sent, asked, spoke>>
      /\ Chain(c, "dns", v, "src")
  BY DEF IngressDns, frame, mapVars, histVars, Behind
<1>4. v \in {"continue", "drop"}
  BY DEF ingress_dns_filter_global, process_ingress_dns_query, process_ingress_dns_response
<1>5. Judged(c) /\ v = "continue" => Cleared(pkt[c], "src")'
  <2>1. SUFFICES ASSUME Judged(c), v = "continue" PROVE Cleared(pkt[c], "src")'
    OBVIOUS
  <2>2. HeadersOk(pkt[c]) /\ pkt[c].proto \in {"tcp", "udp", "icmp"}
    BY <1>1, <1>3, <2>1 DEF Stage, Cleared
  <2>3. HeadersOk(pkt[c])'
    BY <1>3, <2>2 DEF HeadersOk, VLAN_MAX_DEPTH
  <2>4. AnswerOk(pkt[c])'
    <3>1. SUFFICES ASSUME pkt[c].kind = "answer", set.dns_mode, cfg.dns PROVE m.id \in asked
      BY <1>3 DEF AnswerOk
    <3>2. meta[c]
      BY <1>1, <1>3, <2>1, <3>1 DEF Stage, Judged
    <3>3. process_ingress_dns_response(m, m.id \in ids) = "continue"
      BY <1>2, <2>1, <3>1, <3>2 DEF ingress_dns_filter_global, PacketType
    <3>4. m.id \in ids
      BY <3>3 DEF process_ingress_dns_response
    <3> QED
      BY <1>1, <3>4 DEF Known
  <2> QED
    BY <1>3, <2>2, <2>3, <2>4 DEF Cleared
<1> HIDE DEF v
<1>6. ProgStep(c) /\ Counted(c)' /\ Stage(c)'
  <2>1. "dns" \in Reason /\ v \in Result
    BY <1>4 DEF Reason, Result
  <2> QED
    BY <1>3, <1>4, <1>5, <2>1, ChainStep
<1> QED
  BY <1>3, <1>6, SameMaps, LocalStep

LEMMA IcmpInv == ASSUME IInv, NEW c \in CPU, Icmp(c) PROVE IInv'
<1>1. Counted(c) /\ Stage(c) /\ Types
  BY DEF IInv
<1>2. /\ pc[c] = "icmp" /\ pc[c] \in Behind /\ "src" \in Behind
      /\ UNCHANGED <<set, cfg, now, pkt, meta, stable>>
      /\ UNCHANGED <<conn, ids, sent, asked, spoke>>
  BY DEF Icmp, frame, mapVars, histVars, Behind
<1>3. PICK v \in icmp_filter : Chain(c, "icmp", v, "src")
  BY DEF Icmp
<1>4. v \in {"continue", "drop"} /\ v \in Result /\ "icmp" \in Reason
  BY <1>3 DEF icmp_filter, Verdicts, Limited, Result, Reason
<1>5. Judged(c) => Cleared(pkt[c], "src")'
  BY <1>1, <1>2 DEF Stage, Cleared, HeadersOk, AnswerOk, VLAN_MAX_DEPTH
<1>6. ProgStep(c) /\ Counted(c)' /\ Stage(c)'
  BY <1>2, <1>3, <1>4, <1>5, ChainStep
<1> QED
  BY <1>2, <1>6, SameMaps, LocalStep

(* What the source and port filters let through is not blocked; only a     *)
(* rule of its own passes a packet early.                                  *)
LEMMA SrcVerdictFacts ==
    ASSUME NEW rule, NEW default, NEW v \in SrcVerdicts(rule, default)
    PROVE  /\ v \in {"continue", "drop", "pass", "assert"}
           /\ v = "pass" => rule = "allow"
           /\ v = "continue" => (IF rule # "none" THEN rule ELSE default) # "block"
  BY DEF SrcVerdicts, Verdicts, LimitedSource

LEMMA SrcInv == ASSUME IInv, NEW c \in CPU, Src(c) PROVE IInv'
<1>1. Counted(c) /\ Stage(c) /\ Types
  BY DEF IInv
<1>2. /\ pc[c] = "src" /\ pc[c] \in Behind
      /\ UNCHANGED <<set, cfg, now, pkt, meta, stable>>
      /\ UNCHANGED <<conn, ids, sent, asked, spoke>>
  BY DEF Src, frame, mapVars, histVars, Behind
<1>3. PICK v \in src_filter_ip(pkt[c]) :
          IF v # "continue" THEN Chain(c, "src", v, "none")
          ELSE IF pkt[c].proto = "icmp" THEN Chain(c, "icmp passed", "pass", "none")
          ELSE \E w \in src_filter_port(pkt[c]) :
                  Chain(c, "port", w, IF pkt[c].proto = "tcp" THEN "flags" ELSE "dst")
  BY DEF Src
<1>4. /\ v \in {"continue", "drop", "pass", "assert"}
      /\ v = "pass" => cfg.src_ip[pkt[c].peer] = "allow"
      /\ v = "continue" => SrcRule(pkt[c]) # "block"
  BY <1>3, SrcVerdictFacts DEF src_filter_ip, SrcRule
<1>5. Judged(c) => /\ HeadersOk(pkt[c]) /\ AnswerOk(pkt[c])
                   /\ pkt[c].proto \in {"tcp", "udp", "icmp"}
  BY <1>1, <1>2 DEF Stage, Cleared
<1>6. {"src", "icmp passed", "port"} \subseteq Reason
  BY DEF Reason
<1>7. ProgStep(c) /\ Counted(c)' /\ Stage(c)'
  <2>1. CASE v # "continue"
    <3>1. Judged(c) /\ v = "pass" => Permitted(pkt[c])'
      BY <1>2, <1>4, <1>5 DEF Permitted, HeadersOk, AnswerOk, SrcRule, VLAN_MAX_DEPTH
    <3>2. v \in Result /\ v # "tx"
      BY <1>4 DEF Result
    <3> QED
      BY <1>2, <1>3, <1>6, <2>1, <3>1, <3>2, ChainStep
  <2>2. CASE v = "continue" /\ pkt[c].proto = "icmp"
    <3>1. Judged(c) => Permitted(pkt[c])'
      BY <1>2, <1>4, <1>5, <2>2 DEF Permitted, HeadersOk, AnswerOk, SrcRule, VLAN_MAX_DEPTH
    <3>2. Chain(c, "icmp passed", "pass", "none") /\ "pass" \in Result
      BY <1>3, <2>2 DEF Result
    <3> QED
      BY <1>2, <1>6, <3>1, <3>2, ChainStep
  <2>3. CASE v = "continue" /\ pkt[c].proto # "icmp"
    <3>0. PICK next : next = IF pkt[c].proto = "tcp" THEN "flags" ELSE "dst"
      OBVIOUS
    <3>1. PICK w \in src_filter_port(pkt[c]) : Chain(c, "port", w, next)
      BY <1>3, <2>3, <3>0
    <3>2. /\ w \in {"continue", "drop", "pass", "assert"}
          /\ w = "pass" => cfg.src_port[pkt[c].peer] = "allow"
          /\ w = "continue" => PortRule(pkt[c]) # "block"
      BY <3>1, SrcVerdictFacts DEF src_filter_port, PortRule
    <3>3. Judged(c) /\ w = "pass" => Permitted(pkt[c])'
      BY <1>2, <1>4, <1>5, <2>3, <3>2 DEF Permitted, HeadersOk, AnswerOk, SrcRule, PortRule, VLAN_MAX_DEPTH
    <3>4. Judged(c) /\ w = "continue" => Cleared(pkt[c], next)'
      <4>1. SUFFICES ASSUME Judged(c), w = "continue" PROVE Cleared(pkt[c], next)'
        OBVIOUS
      <4>2. /\ HeadersOk(pkt[c])' /\ AnswerOk(pkt[c])'
            /\ SrcRule(pkt[c])' # "block" /\ PortRule(pkt[c])' # "block"
        BY <1>2, <1>4, <1>5, <2>3, <3>2, <4>1 DEF HeadersOk, AnswerOk, SrcRule, PortRule, VLAN_MAX_DEPTH
      <4>3. pkt[c].proto # "tcp" => AuthOk(pkt[c])'
        BY <1>2 DEF AuthOk
      <4>4. pkt'[c].proto \in {"tcp", "udp"} /\ pkt' = pkt
        BY <1>2, <1>5, <2>3, <4>1
      <4> QED
        BY <3>0, <4>2, <4>3, <4>4 DEF Cleared
    <3>5. w \in Result /\ w # "tx" /\ next \in Behind
      BY <3>0, <3>2 DEF Result, Behind
    <3> QED
      BY <1>2, <1>6, <3>1, <3>3, <3>4, <3>5, ChainStep
  <2> QED
    BY <2>1, <2>2, <2>3
<1> QED
  BY <1>2, <1>7, SameMaps, LocalStep

(* An entry is there only for a peer the host has sent to, whatever the    *)
(* authentication filter makes of it.                                      *)
LEMMA EntryKept ==
    ASSUME IInv, NEW p \in Peer, NEW e \in Entry, e # "none" => p \in spoke \/ conn[p] # "none",
           conn' = [conn EXCEPT ![p] = e], UNCHANGED <<set, ids, sent, asked, spoke>>
    PROVE  MapStep
<1>1. Types /\ Known
  BY DEF IInv
<1>2. conn' \in [Peer -> Entry] /\ Peer' = Peer
  BY <1>1 DEF Types, Peer
<1>3. \A q \in Peer : conn'[q] # "none" => q \in spoke
  BY <1>1 DEF Types, Known
<1> QED
  BY <1>1, <1>2, <1>3 DEF Types, Known, MapStep

LEMMA AuthEntryFacts ==
    ASSUME Types, NEW p \in Peer, NEW ev
    PROVE  AuthEntry(p, ev) \in Entry /\ (AuthEntry(p, ev) # "none" => conn[p] # "none")
  BY DEF Types, AuthEntry, Trusted, Entry

LEMMA AuthVerdictFacts ==
    ASSUME Known, NEW p \in Peer
    PROVE  /\ AuthVerdict(p) \in {"continue", "drop"}
           /\ AuthVerdict(p) = "continue" => (cfg.auth => p \in spoke)
  BY DEF Known, AuthVerdict, Trusted

LEMMA FlagsInv == ASSUME IInv, NEW c \in CPU, Flags(c) PROVE IInv'
<1>1. Counted(c) /\ Stage(c) /\ Types /\ Known
  BY DEF IInv
<1>2. PICK ev \in {"fin", "rst", "normal"} : FlagsAuth(c, ev)
  BY DEF Flags
<1>3. /\ pc[c] = "flags" /\ pc[c] \in Behind /\ "dst" \in Behind
      /\ UNCHANGED <<set, cfg, now, pkt, meta, stable>>
      /\ UNCHANGED <<ids, sent, asked, spoke>>
      /\ pkt[c].peer \in Peer
  BY <1>1, <1>2, SettingFacts DEF Flags, FlagsAuth, frame, Behind, Types
<1>4. MapStep
  BY <1>1, <1>2, <1>3, EntryKept, AuthEntryFacts DEF FlagsAuth
<1>5. {"auth", "flags"} \subseteq Reason /\ {"drop", "continue"} \subseteq Result
  BY DEF Reason, Result
<1>6. ProgStep(c) /\ Counted(c)' /\ Stage(c)'
  <2>1. CASE AuthVerdict(pkt[c].peer) = "drop"
    <3>1. Chain(c, "auth", "drop", "none")
      BY <1>2, <2>1 DEF FlagsAuth
    <3> QED
      BY <1>3, <1>5, <3>1, ChainStep
  <2>2. CASE AuthVerdict(pkt[c].peer) # "drop"
    <3>1. PICK v \in Limited : Chain(c, "flags", v, "dst")
      BY <1>2, <2>2 DEF FlagsAuth, FlagLimit, Limited
    <3>2. Judged(c) => Cleared(pkt[c], "dst")'
      <4>1. cfg.auth => pkt[c].peer \in spoke
        BY <1>1, <1>3, <2>2, AuthVerdictFacts
      <4> QED
        BY <1>1, <1>3, <4>1 DEF Stage, Cleared, HeadersOk, AnswerOk, AuthOk, SrcRule, PortRule, VLAN_MAX_DEPTH
    <3>3. v \in Result /\ v \notin {"tx", "pass"}
      BY <3>1 DEF Limited, Result
    <3> QED
      BY <1>3, <1>5, <3>1, <3>2, <3>3, ChainStep
  <2> QED
    BY <2>1, <2>2
<1> QED
  BY <1>4, <1>6, LocalStep

LEMMA SynInv == ASSUME IInv, NEW c \in CPU, Syn(c) PROVE IInv'
<1>1. Counted(c) /\ Stage(c) /\ Types
  BY DEF IInv
<1>2. /\ pc[c] = "flags" /\ pc[c] \in Behind /\ "dst" \in Behind /\ pkt[c].kind = "syn"
      /\ UNCHANGED <<set, cfg, now, pkt, meta, stable>>
      /\ UNCHANGED <<conn, ids, sent, asked, spoke>>
  BY DEF Syn, frame, Behind
<1>3. /\ {"flags", "syn", "cookie"} \subseteq Reason
      /\ {"drop", "continue", "tx"} \subseteq Result
  BY DEF Reason, Result
<1>4. Judged(c) => Cleared(pkt[c], "dst")'
  BY <1>1, <1>2 DEF Stage, Cleared, HeadersOk, AnswerOk, AuthOk, SrcRule, PortRule, VLAN_MAX_DEPTH
<1>5. \/ Chain(c, "flags", "drop", "none")
      \/ Chain(c, "syn", "continue", "dst")
      \/ cfg.ck.on /\ \E v \in {"tx", "drop"} : Chain(c, "cookie", v, "none")
  <2>1. PICK v \in FlagLimit("syn") :
          IF v = "drop" THEN Chain(c, "flags", "drop", "none") /\ UNCHANGED <<timers, cookie>>
          ELSE IF set.host /\ cfg.ck.on /\ Attempts(cfg.ck, timers[c], jiff[c])
          THEN \E outcome \in (IF pkt[c].peer \in set.listening
                               THEN {"ENOENT", "failed", "synack"} ELSE {"failed"}) :
                  SynAttempt(c, outcome)
          ELSE Chain(c, "syn", "continue", "dst") /\ UNCHANGED <<timers, cookie>>
    BY DEF Syn
  <2>2. CASE cfg.ck.on /\ \E outcome \in {"ENOENT", "failed", "synack"} : SynAttempt(c, outcome)
    BY <2>2 DEF SynAttempt
  <2> QED
    BY <2>1, <2>2
<1>6. ProgStep(c) /\ Counted(c)' /\ Stage(c)'
  <2>1. CASE Chain(c, "flags", "drop", "none")
    BY <1>2, <1>3, <2>1, ChainStep
  <2>2. CASE Chain(c, "syn", "continue", "dst")
    BY <1>2, <1>3, <1>4, <2>2, ChainStep
  <2>3. CASE cfg.ck.on /\ \E v \in {"tx", "drop"} : Chain(c, "cookie", v, "none")
    BY <1>2, <1>3, <2>3, ChainStep
  <2> QED
    BY <1>5, <2>1, <2>2, <2>3
<1> QED
  BY <1>2, <1>6, SameMaps, LocalStep

LEMMA AckInv == ASSUME IInv, NEW c \in CPU, Ack(c) PROVE IInv'
<1> DEFINE p == pkt[c]
           flood == set.host /\ cfg.ck.on /\ tcp_syncookies_flood_mode(cfg.ck, timers[c], jiff[c])
<1>1. Counted(c) /\ Stage(c) /\ Types /\ Known
  BY DEF IInv
<1>2. /\ pc[c] = "flags" /\ pc[c] \in Behind /\ "dst" \in Behind
      /\ UNCHANGED <<set, cfg, now, pkt, meta, stable>>
      /\ UNCHANGED <<ids, sent, asked>>
      /\ p.peer \in Peer
  BY <1>1, SettingFacts DEF Ack, frame, Behind, Types
<1>3. /\ {"auth", "ack", "cookie"} \subseteq Reason
      /\ {"drop", "continue"} \subseteq Result
  BY DEF Reason, Result
<1>4. IF ~flood
      THEN /\ conn' = [conn EXCEPT ![p.peer] = AuthEntry(p.peer, "normal")]
           /\ Chain(c, "auth", AuthVerdict(p.peer), "dst")
           /\ UNCHANGED <<accepted, spoke>>
      ELSE IF cfg.auth /\ Trusted(p.peer)
      THEN Chain(c, "ack", "continue", "dst") /\ UNCHANGED <<conn, accepted, spoke>>
      ELSE /\ Chain(c, "cookie", tcp_syncookies_ack_filter(p), "dst")
           /\ IF tcp_syncookies_ack_filter(p) = "continue"
              THEN /\ conn' = [conn EXCEPT ![p.peer] = AckEntry(p.peer)]
                   /\ accepted' = accepted \cup {p.peer}
                   /\ spoke' = spoke \cup {p.peer}
              ELSE UNCHANGED <<conn, accepted, spoke>>
  BY DEF Ack
<1> HIDE DEF flood
<1>5. /\ MapStep
      /\ \E f \in {"auth", "ack", "cookie"}, v \in {"drop", "continue"} :
           /\ Chain(c, f, v, "dst")
           /\ v = "continue" => (cfg.auth => p.peer \in spoke')
  <2>1. CASE ~flood
    <3>1. MapStep
      BY <1>1, <1>2, <1>4, <2>1, EntryKept, AuthEntryFacts
    <3> QED
      BY <1>1, <1>2, <1>4, <2>1, <3>1, AuthVerdictFacts
  <2>2. CASE flood /\ cfg.auth /\ Trusted(p.peer)
    <3>1. p.peer \in spoke
      BY <1>1, <1>2, <2>2 DEF Known, Trusted
    <3> QED
      BY <1>2, <1>4, <2>2, <3>1, SameMaps
  <2>3. CASE flood /\ ~(cfg.auth /\ Trusted(p.peer))
    <3>1. tcp_syncookies_ack_filter(p) \in {"drop", "continue"}
      BY DEF tcp_syncookies_ack_filter
    <3>2. CASE tcp_syncookies_ack_filter(p) = "continue"
      <4>1. /\ conn' = [conn EXCEPT ![p.peer] = "open"] /\ spoke' = spoke \cup {p.peer}
            /\ Chain(c, "cookie", "continue", "dst")
        BY <1>4, <2>3, <3>2 DEF AckEntry
      <4>2. conn' \in [Peer -> Entry] /\ Peer' = Peer
        BY <1>1, <1>2, <4>1 DEF Types, Peer, Entry
      <4>3. \A q \in Peer : conn'[q] # "none" => q \in spoke'
        BY <1>1, <1>2, <4>1 DEF Types, Known
      <4>4. MapStep
        BY <1>1, <1>2, <4>1, <4>2, <4>3 DEF Types, Known, MapStep
      <4> QED
        BY <4>1, <4>4
    <3>3. CASE tcp_syncookies_ack_filter(p) # "continue"
      BY <1>2, <1>4, <2>3, <3>1, <3>3, SameMaps
    <3> QED
      BY <3>2, <3>3
  <2> QED
    BY <2>1, <2>2, <2>3
<1>6. PICK f \in {"auth", "ack", "cookie"}, v \in {"drop", "continue"} :
        /\ Chain(c, f, v, "dst")
        /\ v = "continue" => (cfg.auth => p.peer \in spoke')
  BY <1>5
<1>7. Judged(c) /\ v = "continue" => Cleared(pkt[c], "dst")'
  BY <1>1, <1>2, <1>6 DEF Stage, Cleared, HeadersOk, AnswerOk, AuthOk, SrcRule, PortRule, VLAN_MAX_DEPTH
<1>8. ProgStep(c) /\ Counted(c)' /\ Stage(c)'
  BY <1>2, <1>3, <1>6, <1>7, ChainStep
<1> QED
  BY <1>5, <1>8, LocalStep

LEMMA DstVerdictFacts ==
    ASSUME NEW p, NEW v \in xfw_dst_filter(p)
    PROVE  v \in {"continue", "drop"} /\ (v = "continue" => DstRule(p) # "block")
  BY DEF xfw_dst_filter, Verdicts, Limited, DstRule

LEMMA DstInv == ASSUME IInv, NEW c \in CPU, Dst(c) PROVE IInv'
<1>1. Counted(c) /\ Stage(c) /\ Types
  BY DEF IInv
<1>2. /\ pc[c] = "dst" /\ pc[c] \in Behind
      /\ UNCHANGED <<set, cfg, now, pkt, meta, stable>>
      /\ UNCHANGED <<conn, ids, sent, asked, spoke>>
  BY DEF Dst, frame, mapVars, histVars, Behind
<1>3. PICK v \in xfw_dst_filter(pkt[c]) : Chain(c, "dst", IF v = "continue" THEN "pass" ELSE v, "none")
  BY DEF Dst
<1>4. v \in {"continue", "drop"} /\ (v = "continue" => DstRule(pkt[c]) # "block")
  BY <1>3, DstVerdictFacts
<1>5. Judged(c) /\ v = "continue" => Permitted(pkt[c])'
  BY <1>1, <1>2, <1>4 DEF Stage, Cleared, HeadersOk, AnswerOk, AuthOk, SrcRule, PortRule, DstRule,
                          Permitted, VLAN_MAX_DEPTH
<1>6. PICK w \in {"pass", "drop"} : Chain(c, "dst", w, "none") /\ (w = "pass" => v = "continue")
  BY <1>3, <1>4
<1>7. ProgStep(c) /\ Counted(c)' /\ Stage(c)'
  <2>1. w \in Result /\ "dst" \in Reason
    BY DEF Result, Reason
  <2> QED
    BY <1>2, <1>5, <1>6, <2>1, ChainStep
<1> QED
  BY <1>2, <1>7, SameMaps, LocalStep

-----------------------------------------------------------------------------
(* The steps of the egress program *)

(* The program goes on, with nothing counted yet. *)
LEMMA OutStep ==
    ASSUME IInv, NEW c \in CPU, NEW l \in OutSide, pc[c] \in OutSide, pc' = [pc EXCEPT ![c] = l],
           UNCHANGED <<set, cfg, now, pkt, meta, stable, res, why, stat>>
    PROVE  ProgStep(c) /\ Counted(c)' /\ Stage(c)'
<1>1. Counted(c) /\ Stage(c) /\ Types
  BY DEF IInv
<1>2. pc'[c] = l /\ l \notin Behind \cup {"parse", "final"}
  BY <1>1 DEF Types, OutSide, Behind
<1>3. ProgStep(c)
  BY <1>1 DEF ProgStep, Types, Place
<1>4. Counted(c)'
  BY <1>1, <1>2 DEF Counted
<1>5. Stage(c)'
  <2>1. ~In(c)'
    BY <1>1 DEF Stage, In
  <2> QED
    BY <1>2, <2>1 DEF Stage, Judged
<1> QED
  BY <1>3, <1>4, <1>5

(* The LRU map makes room: it never holds more ids than it has elements,   *)
(* and what it holds was asked for.                                        *)
LEMMA IdAdded ==
    ASSUME IInv, NEW i, NEW e \in (IF Cardinality(ids) < set.dns_cap THEN {NoPeer} ELSE ids),
           UNCHANGED <<set, conn, spoke>>, ids' = (ids \ {e}) \cup {i},
           sent' = (sent \ {e}) \cup {i}, asked' = asked \cup {i}
    PROVE  MapStep
<1>1. Types /\ Known
  BY DEF IInv
<1>2. IsFiniteSet(ids) /\ Cardinality(ids) \in Nat /\ set.dns_cap \in Nat
  BY <1>1, SettingFacts, FS_CardinalityType DEF Types, SettingType
<1>3. /\ IsFiniteSet(ids \ {e}) /\ Cardinality(ids \ {e}) \in Nat
      /\ Cardinality(ids \ {e}) = IF e \in ids THEN Cardinality(ids) - 1 ELSE Cardinality(ids)
  BY <1>2, FS_RemoveElement, FS_CardinalityType
<1>4. Cardinality(ids \ {e}) < set.dns_cap
  BY <1>1, <1>2, <1>3 DEF Types
<1>5. IsFiniteSet(ids') /\ Cardinality(ids') <= Cardinality(ids \ {e}) + 1
  <2>1. /\ IsFiniteSet((ids \ {e}) \cup {i})
        /\ Cardinality((ids \ {e}) \cup {i}) = IF i \in ids \ {e} THEN Cardinality(ids \ {e})
                                                ELSE Cardinality(ids \ {e}) + 1
    BY <1>3, FS_AddElement
  <2> QED
    BY <1>3, <2>1
<1>6. IsFiniteSet(ids') /\ Cardinality(ids') <= set.dns_cap
  <2>1. Cardinality(ids') \in Nat
    BY <1>5, FS_CardinalityType
  <2> QED
    BY <1>2, <1>3, <1>4, <1>5, <2>1
<1>7. ids' = sent' /\ ids' \subseteq asked'
  BY <1>1 DEF Types, Known
<1>8. Peer' = Peer /\ conn' = conn /\ spoke' = spoke
  BY DEF Peer
<1> QED
  BY <1>1, <1>6, <1>7, <1>8 DEF Types, Known, MapStep

LEMMA EgressInv == ASSUME IInv, NEW c \in CPU, Egress(c) PROVE IInv'
<1>1. Counted(c) /\ Stage(c) /\ Types
  BY DEF IInv
<1>2. /\ pc[c] = "egress" /\ pc[c] \in OutSide /\ UNCHANGED <<conn, spoke>>
      /\ UNCHANGED <<set, cfg, now, pkt, meta, stable>>
  BY DEF Egress, frame, OutSide
<1>3. \/ UNCHANGED <<ids, sent, asked>>
      \/ \E e \in (IF Cardinality(ids) < set.dns_cap THEN {NoPeer} ELSE ids) :
            /\ ids' = (ids \ {e}) \cup {pkt[c].dns.id}
            /\ sent' = (sent \ {e}) \cup {pkt[c].dns.id}
            /\ asked' = asked \cup {pkt[c].dns.id}
  BY DEF Egress
<1>4. MapStep
  <2>1. CASE UNCHANGED <<ids, sent, asked>>
    BY <1>2, <2>1, SameMaps
  <2>2. CASE ~UNCHANGED <<ids, sent, asked>>
    <3>1. PICK i : i = pkt[c].dns.id
      OBVIOUS
    <3> QED
      BY <1>2, <1>3, <2>2, <3>1, IdAdded
  <2> QED
    BY <2>1, <2>2
<1>5. CASE Parsed(pkt[c])
  <2>1. PICK l \in OutSide : pc' = [pc EXCEPT ![c] = l]
    BY <1>5 DEF Egress, OutSide
  <2>2. UNCHANGED <<res, stat, why>>
    BY <1>5 DEF Egress
  <2> QED
    BY <1>2, <1>4, <2>1, <2>2, OutStep, LocalStep
<1>6. CASE ~Parsed(pkt[c])
  <2>1. /\ pc' = [pc EXCEPT ![c] = "final"] /\ res' = [res EXCEPT ![c] = "pass"]
        /\ why' = [why EXCEPT ![c] = "unparsed"] /\ Count(c, {"total", Counter("pass")})
    BY <1>6 DEF Egress
  <2>2. ~Judged(c) /\ "unparsed" \in Reason
    BY <1>1, <1>2 DEF Stage, Judged, Reason
  <2> QED
    BY <1>2, <1>4, <2>1, <2>2, EndStep, LocalStep
<1> QED
  BY <1>5, <1>6

LEMMA EgressDstInv == ASSUME IInv, NEW c \in CPU, EgressDst(c) PROVE IInv'
<1>1. Counted(c) /\ Stage(c) /\ Types
  BY DEF IInv
<1>2. /\ pc[c] = "egress dst" /\ pc[c] \in OutSide
      /\ UNCHANGED <<set, cfg, now, pkt, meta, stable>>
      /\ UNCHANGED <<conn, ids, sent, asked, spoke>>
  BY DEF EgressDst, frame, mapVars, histVars, OutSide
<1>3. MapStep
  BY <1>2, SameMaps
<1>4. PICK v \in xfw_dst_filter(pkt[c]) :
          IF v = "continue" THEN Chain(c, "dst", v, "learn")
          ELSE /\ pc' = [pc EXCEPT ![c] = "final"]
               /\ res' = [res EXCEPT ![c] = v]
               /\ why' = [why EXCEPT ![c] = "dst"]
               /\ Count(c, {"total", Counter(v)})
  BY DEF EgressDst
<1>5. v \in {"continue", "drop"}
  BY <1>4, DstVerdictFacts
<1>6. CASE v = "continue"
  <2>1. pc' = [pc EXCEPT ![c] = "learn"] /\ UNCHANGED <<res, stat, why>> /\ "learn" \in OutSide
    BY <1>4, <1>6 DEF Chain, OutSide
  <2> QED
    BY <1>2, <1>3, <2>1, OutStep, LocalStep
<1>7. CASE v = "drop"
  <2>1. ~Judged(c) /\ "dst" \in Reason
    BY <1>1, <1>2 DEF Stage, Judged, Reason
  <2>2. ProgStep(c) /\ Counted(c)' /\ Stage(c)'
    BY <1>2, <1>4, <1>7, <2>1, EndStep
  <2> QED
    BY <1>3, <2>2, LocalStep
<1> QED
  BY <1>5, <1>6, <1>7

LEMMA LearnInv == ASSUME IInv, NEW c \in CPU, Learn(c) PROVE IInv'
<1>1. Counted(c) /\ Stage(c) /\ Types /\ Known
  BY DEF IInv
<1>2. /\ pc[c] = "learn" /\ pc[c] \in OutSide /\ pkt[c].peer \in Peer
      /\ UNCHANGED <<set, cfg, now, pkt, meta, stable>>
      /\ UNCHANGED <<ids, sent, asked>>
  BY <1>1, SettingFacts DEF Learn, frame, OutSide, Types
<1>3. MapStep
  <2>1. CASE pkt[c].proto # "tcp"
    BY <1>2, <2>1, SameMaps DEF Learn
  <2>2. CASE pkt[c].proto = "tcp"
    <3>1. PICK p, e : p = pkt[c].peer /\ e = LearnedEntry(pkt[c].peer, pkt[c].kind)
      OBVIOUS
    <3>2. /\ conn' = [conn EXCEPT ![p] = e]
          /\ spoke' = IF ~cfg.auth \/ pkt[c].kind \in {"syn", "synack"} THEN spoke \cup {p} ELSE spoke
      BY <2>2, <3>1 DEF Learn
    <3>3. e \in Entry /\ (e # "none" => conn[p] # "none" \/ p \in spoke')
      BY <1>1, <1>2, <3>1, <3>2 DEF LearnedEntry, Types, Entry
    <3>4. conn' \in [Peer -> Entry] /\ Peer' = Peer /\ spoke \subseteq spoke'
      BY <1>1, <1>2, <3>1, <3>2, <3>3 DEF Types, Peer
    <3>5. \A q \in Peer : conn'[q] # "none" => q \in spoke'
      BY <1>1, <1>2, <3>1, <3>2, <3>3, <3>4 DEF Types, Known
    <3> QED
      BY <1>1, <1>2, <3>4, <3>5 DEF Types, Known, MapStep
  <2> QED
    BY <2>1, <2>2
<1>4. /\ pc' = [pc EXCEPT ![c] = "final"] /\ res' = [res EXCEPT ![c] = "pass"]
      /\ why' = [why EXCEPT ![c] = "learned"] /\ Count(c, {"total", Counter("pass")})
  BY DEF Learn
<1>5. ~Judged(c) /\ "learned" \in Reason
  BY <1>1, <1>2 DEF Stage, Judged, Reason
<1>6. ProgStep(c) /\ Counted(c)' /\ Stage(c)'
  BY <1>2, <1>4, <1>5, EndStep
<1> QED
  BY <1>3, <1>6, LocalStep

-----------------------------------------------------------------------------
(* A program starts and ends; the world around the programs *)

LEMMA BeginInv == ASSUME IInv, NEW c \in CPU, NEW p \in set.packets, Begin(c, p) PROVE IInv'
<1>1. Counted(c) /\ Stage(c) /\ Types /\ Known
  BY DEF IInv
<1>2. UNCHANGED <<set, cfg, now, conn, ids, sent, asked, spoke>> /\ CPU' = CPU /\ Peer' = Peer
  BY DEF Begin, mapVars, histVars, CPU, Peer
<1>3. NoStat \in [StatKind -> Nat] /\ \A k \in StatKind : NoStat[k] = 0
  BY DEF NoStat, StatKind
<1>4. /\ pkt' = [pkt EXCEPT ![c] = p] /\ stat' = [stat EXCEPT ![c] = NoStat]
      /\ stable' = [stable EXCEPT ![c] = TRUE]
  BY DEF Begin
<1>5. PICK l \in {"parse", "egress", "final"}, r \in {"continue", "pass"}, w \in {"none", "metadata"},
           m \in BOOLEAN :
        /\ pc' = [pc EXCEPT ![c] = l] /\ res' = [res EXCEPT ![c] = r]
        /\ why' = [why EXCEPT ![c] = w] /\ meta' = [meta EXCEPT ![c] = m]
        /\ l = "final" => r = "pass" /\ w = "metadata"
        /\ l = "egress" => p.dir # "in"
        /\ l = "parse" => (m <=> (set.dns_mode /\ cfg.dns))
  <2>1. CASE /\ pc' = [pc EXCEPT ![c] = "final"] /\ res' = [res EXCEPT ![c] = "pass"]
             /\ why' = [why EXCEPT ![c] = "metadata"] /\ meta' = [meta EXCEPT ![c] = FALSE]
    BY <2>1
  <2>2. CASE /\ pc' = [pc EXCEPT ![c] = IF p.dir = "in" THEN "parse" ELSE "egress"]
             /\ res' = [res EXCEPT ![c] = "continue"] /\ why' = [why EXCEPT ![c] = "none"]
             /\ meta' = [meta EXCEPT ![c] = p.dir = "in" /\ set.dns_mode /\ cfg.dns]
    <3>1. PICK m \in BOOLEAN : m = (p.dir = "in" /\ set.dns_mode /\ cfg.dns)
      OBVIOUS
    <3>2. meta' = [meta EXCEPT ![c] = m] /\ (p.dir = "in" => (m <=> (set.dns_mode /\ cfg.dns)))
      BY <2>2, <3>1
    <3> QED
      BY <2>2, <3>2
  <2> QED
    BY <2>1, <2>2 DEF Begin
<1>6. /\ pc'[c] = l /\ res'[c] = r /\ why'[c] = w /\ (meta'[c] <=> m)
      /\ pkt'[c] = p /\ stat'[c] = NoStat /\ stable'[c] = TRUE
  BY <1>1, <1>4, <1>5 DEF Types
<1>7. Types'
  <2>1. pc' \in [CPU -> Place] /\ res' \in [CPU -> Result] /\ why' \in [CPU -> Reason]
    <3>1. l \in Place /\ r \in Result /\ w \in Reason
      BY DEF Place, Behind, OutSide, Result, Reason
    <3> QED
      BY <1>1, <1>5, <3>1 DEF Types
  <2>2. stat' \in [CPU -> [StatKind -> Nat]] /\ pkt' \in [CPU -> set.packets]
    BY <1>1, <1>3, <1>4 DEF Types
  <2>3. stable' \in [CPU -> BOOLEAN] /\ meta' \in [CPU -> BOOLEAN]
    BY <1>1, <1>4, <1>5 DEF Types
  <2> QED
    BY <1>1, <1>2, <2>1, <2>2, <2>3 DEF Types
<1>8. Known'
  BY <1>1, <1>2 DEF Known
<1>9. Counted(c)'
  BY <1>3, <1>5, <1>6 DEF Counted, Behind, OutSide
<1>10. Stage(c)'
  <2>1. pc'[c] \in OutSide => ~In(c)'
    BY <1>5, <1>6 DEF In, OutSide
  <2>2. pc'[c] \notin Behind /\ res'[c] # "tx" /\ (pc'[c] = "final" => why'[c] = "metadata")
    BY <1>5, <1>6 DEF Behind
  <2>3. pc'[c] = "parse" => (meta'[c] <=> (set.dns_mode /\ cfg.dns)')
    BY <1>2, <1>5, <1>6
  <2>4. Cleared(pkt[c], pc[c])'
    BY <1>5, <1>6 DEF Cleared, Behind
  <2> QED
    BY <2>1, <2>2, <2>3, <2>4 DEF Stage
<1>11. ASSUME NEW d \in CPU, d # c PROVE Counted(d)' /\ Stage(d)'
  <2>1. /\ pc'[d] = pc[d] /\ pkt'[d] = pkt[d] /\ meta'[d] = meta[d] /\ stable'[d] = stable[d]
        /\ res'[d] = res[d] /\ why'[d] = why[d] /\ stat'[d] = stat[d]
    BY <1>1, <1>4, <1>5, <1>11 DEF Types
  <2> QED
    BY <1>2, <2>1, Elsewhere
<1> QED
  BY <1>2, <1>7, <1>8, <1>9, <1>10, <1>11 DEF IInv

LEMMA FinishInv == ASSUME IInv, NEW c \in CPU, Finish(c) PROVE IInv'
<1>1. Types /\ Known
  BY DEF IInv
<1>2. UNCHANGED <<set, cfg, now, conn, ids, sent, asked, spoke>> /\ CPU' = CPU /\ Peer' = Peer
  BY DEF Finish, mapVars, histVars, CPU, Peer
<1>3. NoStat \in [StatKind -> Nat] /\ SomePacket \in set.packets
  BY <1>1, SettingFacts DEF NoStat, StatKind
<1>4. /\ pc' = [pc EXCEPT ![c] = "idle"] /\ pkt' = [pkt EXCEPT ![c] = SomePacket]
      /\ meta' = [meta EXCEPT ![c] = FALSE] /\ res' = [res EXCEPT ![c] = "continue"]
      /\ stat' = [stat EXCEPT ![c] = NoStat] /\ stable' = [stable EXCEPT ![c] = FALSE]
      /\ why' = [why EXCEPT ![c] = "none"]
  BY DEF Finish
<1>5. pc'[c] = "idle" /\ stable'[c] = FALSE
  BY <1>1, <1>4 DEF Types
<1>6. Types'
  <2>1. pc' \in [CPU -> Place] /\ res' \in [CPU -> Result] /\ why' \in [CPU -> Reason]
    BY <1>1, <1>4 DEF Types, Place, Result, Reason
  <2>2. stat' \in [CPU -> [StatKind -> Nat]] /\ pkt' \in [CPU -> set.packets]
    BY <1>1, <1>3, <1>4 DEF Types
  <2>3. stable' \in [CPU -> BOOLEAN] /\ meta' \in [CPU -> BOOLEAN]
    BY <1>1, <1>4 DEF Types
  <2> QED
    BY <1>1, <1>2, <2>1, <2>2, <2>3 DEF Types
<1>7. Known'
  BY <1>1, <1>2 DEF Known
<1>8. Counted(c)' /\ Stage(c)'
  BY <1>5 DEF Counted, Stage, Judged, Behind, OutSide
<1>9. ASSUME NEW d \in CPU, d # c PROVE Counted(d)' /\ Stage(d)'
  <2>1. /\ pc'[d] = pc[d] /\ pkt'[d] = pkt[d] /\ meta'[d] = meta[d] /\ stable'[d] = stable[d]
        /\ res'[d] = res[d] /\ why'[d] = why[d] /\ stat'[d] = stat[d]
    BY <1>1, <1>4, <1>9 DEF Types
  <2> QED
    BY <1>2, <2>1, Elsewhere
<1> QED
  BY <1>2, <1>6, <1>7, <1>8, <1>9 DEF IInv

(* Nothing is known of a packet whose configuration changed under it. *)
LEMMA UpdateInv == ASSUME IInv, NEW f \in set.cfgs, Update(f) PROVE IInv'
<1>1. Types /\ Known
  BY DEF IInv
<1>2. /\ cfg' = f /\ stable' = [c \in CPU |-> FALSE]
      /\ UNCHANGED <<set, now, pc, pkt, meta, res, stat, why, conn, ids, sent, asked, spoke>>
      /\ CPU' = CPU /\ Peer' = Peer
  BY DEF Update, progVars, mapVars, histVars, CPU, Peer
<1>3. Types'
  BY <1>1, <1>2 DEF Types
<1>4. Known'
  BY <1>1, <1>2 DEF Known
<1>5. ASSUME NEW d \in CPU PROVE Counted(d)' /\ Stage(d)'
  <2>1. Counted(d) /\ Stage(d)
    BY DEF IInv
  <2>2. Counted(d)'
    BY <1>2, <2>1 DEF Counted
  <2>3. Stage(d)'
    BY <1>2, <2>1 DEF Stage, Judged, In
  <2> QED
    BY <2>2, <2>3
<1> QED
  BY <1>2, <1>3, <1>4, <1>5 DEF IInv

(* The clock, the TCP stack and the end of a grace period change nothing   *)
(* that a program relies on.                                               *)
LEMMA WorldInv ==
    ASSUME IInv, Types', Known',
           UNCHANGED <<set, cfg, pc, pkt, meta, stable, res, why, stat, asked, spoke>>
    PROVE  IInv'
<1>1. CPU' = CPU
  BY DEF CPU
<1>2. ASSUME NEW d \in CPU PROVE Counted(d)' /\ Stage(d)'
  BY Elsewhere
<1> QED
  BY <1>1, <1>2 DEF IInv

LEMMA EstablishInv == ASSUME IInv, NEW p \in Peer, Establish(p) PROVE IInv'
<1>1. UNCHANGED <<set, cfg, now, pc, pkt, meta, stable, res, why, stat, conn, ids, sent, asked, spoke>>
      /\ CPU' = CPU /\ Peer' = Peer
  BY DEF Establish, progVars, mapVars, histVars, CPU, Peer
<1>2. Types' /\ Known'
  BY <1>1 DEF IInv, Types, Known
<1> QED
  BY <1>1, <1>2, WorldInv

LEMMA ExpireInv == ASSUME IInv, NEW p \in Peer, Expire(p) PROVE IInv'
<1>1. /\ UNCHANGED <<set, cfg, now, pc, pkt, meta, stable, res, why, stat, ids, sent, asked, spoke>>
      /\ CPU' = CPU /\ Peer' = Peer
      /\ conn[p] = "fin" /\ conn' = [conn EXCEPT ![p] = "old"]
  BY DEF Expire, progVars, mapVars, histVars, CPU, Peer
<1>2. conn' \in [Peer -> Entry] /\ \A q \in Peer : conn'[q] # "none" => conn[q] # "none"
  BY <1>1 DEF IInv, Types, Entry
<1>3. Types' /\ Known'
  BY <1>1, <1>2 DEF IInv, Types, Known
<1> QED
  BY <1>1, <1>3, WorldInv

LEMMA TickInv == ASSUME IInv, Tick PROVE IInv'
<1>1. /\ UNCHANGED <<set, cfg, pc, pkt, meta, stable, res, why, stat, conn, ids, sent, asked, spoke>>
      /\ CPU' = CPU /\ Peer' = Peer /\ now < set.last /\ now' = now + 1
  BY DEF Tick, progVars, mapVars, histVars, CPU, Peer
<1>2. now' \in Time
  BY <1>1, SettingFacts, FilterChainAssumption DEF IInv, Types, SettingType, Time
<1>3. Types' /\ Known'
  BY <1>1, <1>2 DEF IInv, Types, Known
<1> QED
  BY <1>1, <1>3, WorldInv

-----------------------------------------------------------------------------
LEMMA InitInv == Init => IInv
<1> SUFFICES ASSUME Init PROVE IInv
  OBVIOUS
<1>1. SettingType(set) /\ SomePacket \in set.packets
  BY FilterChainAssumption DEF Init, SettingType, SomePacket
<1>2. IsFiniteSet(ids) /\ Cardinality(ids) = 0 /\ ids = sent
  BY FS_EmptySet DEF Init
<1>3. NoStat \in [StatKind -> Nat]
  BY DEF NoStat, StatKind
<1>4. Types
  <2>1. /\ pc \in [CPU -> Place] /\ res \in [CPU -> Result] /\ why \in [CPU -> Reason]
        /\ conn \in [Peer -> Entry]
    BY DEF Init, Place, Result, Reason, Entry
  <2>2. meta \in [CPU -> BOOLEAN] /\ stable \in [CPU -> BOOLEAN]
    BY DEF Init
  <2>3. now \in Time /\ Cardinality(ids) <= set.dns_cap
    BY <1>1, <1>2, FilterChainAssumption DEF Init, Time, SettingType
  <2>4. pkt \in [CPU -> set.packets] /\ stat \in [CPU -> [StatKind -> Nat]]
    BY <1>1, <1>3 DEF Init
  <2> QED
    BY <1>2, <2>1, <2>2, <2>3, <2>4 DEF Types, Init
<1>5. Known
  BY DEF Known, Init
<1>6. ASSUME NEW c \in CPU PROVE Counted(c) /\ Stage(c)
  <2>1. pc[c] = "idle" /\ stable[c] = FALSE
    BY DEF Init
  <2> QED
    BY <2>1 DEF Counted, Stage, Judged, Behind, OutSide
<1> QED
  BY <1>4, <1>5, <1>6 DEF IInv

LEMMA NextInv == IInv /\ [Next]_vars => IInv'
<1> SUFFICES ASSUME IInv, [Next]_vars PROVE IInv'
  OBVIOUS
<1>1. ASSUME NEW c \in CPU, NEW p \in set.packets, Begin(c, p) PROVE IInv'
  BY <1>1, BeginInv
<1>2. ASSUME NEW c \in CPU, Parse(c) \/ IngressDns(c) \/ Icmp(c) \/ Src(c) PROVE IInv'
  BY <1>2, ParseInv, IngressDnsInv, IcmpInv, SrcInv
<1>3. ASSUME NEW c \in CPU, Flags(c) \/ Syn(c) \/ Ack(c) \/ Dst(c) PROVE IInv'
  BY <1>3, FlagsInv, SynInv, AckInv, DstInv
<1>4. ASSUME NEW c \in CPU, Egress(c) \/ EgressDst(c) \/ Learn(c) PROVE IInv'
  BY <1>4, EgressInv, EgressDstInv, LearnInv
<1>5. ASSUME NEW c \in CPU, Finish(c) PROVE IInv'
  BY <1>5, FinishInv
<1>6. ASSUME NEW p \in Peer, Establish(p) \/ Expire(p) PROVE IInv'
  BY <1>6, EstablishInv, ExpireInv
<1>7. ASSUME NEW f \in set.cfgs, Update(f) PROVE IInv'
  BY <1>7, UpdateInv
<1>8. CASE Tick
  BY <1>8, TickInv
<1>9. CASE UNCHANGED vars
  <2>1. /\ UNCHANGED <<set, cfg, now, pc, pkt, meta, stable, res, why, stat, conn, ids, sent, asked, spoke>>
        /\ CPU' = CPU /\ Peer' = Peer
    BY <1>9 DEF vars, progVars, mapVars, histVars, CPU, Peer
  <2>2. Types' /\ Known'
    BY <2>1 DEF IInv, Types, Known
  <2> QED
    BY <2>1, <2>2, WorldInv
<1> QED
  BY <1>1, <1>2, <1>3, <1>4, <1>5, <1>6, <1>7, <1>8, <1>9 DEF Next

LEMMA Inductive == Spec => []IInv
  BY InitInv, NextInv, PTL DEF Spec

(* Every program that has decided holds a verdict, an entry of the         *)
(* connection map has one of its states, and the map of DNS ids never      *)
(* outgrows its capacity though CPUs add to it while it makes room         *)
(* (egress_dns_filter, XFW_MAX_DNS_QRS_TRACKER_BUCKETS).                    *)
THEOREM TypeCorrect == Spec => []TypeOK
<1>1. IInv => TypeOK
  BY DEF IInv, Types, Counted, TypeOK, Result, Entry
<1> QED
  BY <1>1, Inductive, PTL

(* Every packet is counted once as seen and once by what became of it, for *)
(* any packets and any rules, with configurations changing between any two *)
(* filters of xdp.c and tc.c.                                              *)
THEOREM PacketsAreCounted == Spec => []EveryPacketCounted
<1>1. IInv => EveryPacketCounted
  <2> SUFFICES ASSUME IInv, NEW c \in CPU, pc[c] = "final"
      PROVE IF why[c] = "metadata" THEN stat[c] = NoStat
            ELSE /\ stat[c]["total"] = 1
                 /\ stat[c]["passed"] + stat[c]["dropped"] + stat[c]["tx"] = 1
                 /\ stat[c]["dropped"] = 1 <=> res[c] = "drop"
    BY DEF EveryPacketCounted
  <2>1. Counted(c) /\ stat[c] \in [StatKind -> Nat] /\ res[c] \in Result
    BY DEF IInv, Types
  <2>2. CASE why[c] = "metadata"
    BY <2>1, <2>2 DEF Counted, NoStat, StatKind
  <2>3. CASE why[c] # "metadata"
    <3>1. \A k \in StatKind : stat[c][k] = IF k \in {"total", Counter(res[c])} THEN 1 ELSE 0
      BY <2>1, <2>3 DEF Counted
    <3> QED
      BY <2>3, <3>1 DEF Counter, StatKind
  <2> QED
    BY <2>2, <2>3
<1> QED
  BY <1>1, Inductive, PTL

(* In evaluation mode neither program drops or answers a packet that ran   *)
(* under one configuration: finalize_result turns drops into passes and    *)
(* the only answer is a SYN cookie, which verify_syncookie excludes.       *)
THEOREM EvaluationIsHarmless == Spec => []EvaluationOnlyObserves
<1>1. IInv => EvaluationOnlyObserves
  <2> SUFFICES ASSUME IInv, NEW c \in CPU, Done(c), cfg.eval PROVE finalize_result(c) = "pass"
    BY DEF EvaluationOnlyObserves
  <2>1. Counted(c) /\ Stage(c) /\ LegalCfg(cfg) /\ res[c] \in Result
    BY SettingFacts DEF IInv, Types
  <2>2. res[c] # "continue" /\ res[c] # "tx"
    BY <2>1 DEF Done, Counted, Stage, LegalCfg
  <2> QED
    BY <2>1, <2>2 DEF finalize_result, Result
<1> QED
  BY <1>1, Inductive, PTL

(* With rules loaded and enforced no packet the policy forbids reaches the *)
(* host: whatever the packet, the rules and the order in which programs on *)
(* any number of CPUs follow connections and queries, no filter passes a   *)
(* packet before the filters that forbid it have run (in_process_l4,       *)
(* src_filter, tcp_flags_filter, xfw_dst_filter).                          *)
THEOREM ForbiddenPacketsStayOut == Spec => []PolicyEnforced
<1>1. IInv => PolicyEnforced
  <2> SUFFICES ASSUME IInv, NEW c \in CPU, Done(c), In(c), cfg.active, ~cfg.eval, why[c] # "metadata",
                      res[c] # "assert", parse_ethhdr(pkt[c]) # "arp", finalize_result(c) = "pass"
      PROVE Permitted(pkt[c])
    BY DEF PolicyEnforced
  <2>1. res[c] = "pass"
    BY DEF finalize_result
  <2> QED
    BY <2>1 DEF IInv, Stage, Judged, Done
<1> QED
  BY <1>1, Inductive, PTL

-----------------------------------------------------------------------------
(* What is owed to the host.  While a packet is owed, the reason for it    *)
(* stays: whatever takes it away disowns the packet.                       *)

Owing(c) ==
    \/ pkt[c].kind \in {"ack", "data"} /\ cfg.auth /\ pkt[c].peer \in accepted
    \/ pkt[c].kind \in {"ack", "data"} /\ ~cfg.auth /\ pkt[c].peer \in established
    \/ /\ pkt[c].kind = "ack" /\ set.host /\ cfg.ck.on /\ cookie[pkt[c].peer] # NoCookie
       /\ tcp_syncookies_flood_mode(cfg.ck, timers[c], jiff[c])
    \/ /\ pkt[c].kind = "answer" /\ pkt[c].dns.id \in ids
       /\ process_ingress_dns_response(pkt[c].dns, TRUE) = "continue"

Blamed(c) == pc[c] = "final" /\ res[c] = "drop" /\ why[c] \in {"auth", "cookie", "dns"}

(* A cookie is not younger than the flood mode it started on its CPU. *)
Clocks ==
    /\ jiff \in [CPU -> Nat] /\ timers \in [CPU -> [try : Int, gen : Int]]
    /\ cookie \in [Peer -> [cpu : CPU \cup {NoPeer}, at : Nat]]
    /\ \A c \in CPU :
         /\ jiff[c] <= now /\ timers[c].gen <= now
         /\ pc[c] # "idle" => timers[c].gen <= jiff[c]
    /\ \A p \in Peer : cookie[p] # NoCookie =>
         /\ p \in set.listening /\ cookie[p].cpu \in CPU
         /\ cookie[p].at <= timers[cookie[p].cpu].gen

Follows == accepted \subseteq {p \in Peer : Trusted(p)}

FInv == /\ IInv /\ Clocks /\ Follows
        /\ owed \in [CPU -> BOOLEAN]
        /\ \A c \in CPU : owed[c] => Owing(c) /\ ~Blamed(c)

(* What is behind the packet of d does not go away. *)
Kept(d) ==
    /\ timers'[d].gen = timers[d].gen
    /\ cookie[pkt[d].peer] # NoCookie => cookie'[pkt[d].peer] # NoCookie
    /\ pkt[d].peer \in accepted => pkt[d].peer \in accepted'
    /\ pkt[d].peer \in established => pkt[d].peer \in established'
    /\ pkt[d].kind = "answer" /\ pkt[d].dns.id \in ids => pkt[d].dns.id \in ids'

LEMMA OwingKept ==
    ASSUME NEW d \in CPU, UNCHANGED <<set, cfg>>, pkt'[d] = pkt[d], jiff'[d] = jiff[d], Kept(d), Owing(d)
    PROVE  Owing(d)'
<1>1. process_ingress_dns_response(pkt[d].dns, TRUE) = "continue"
        => process_ingress_dns_response(pkt[d].dns, TRUE)' = "continue"
  BY DEF process_ingress_dns_response, GoodRecord
<1>2. tcp_syncookies_flood_mode(cfg.ck, timers[d], jiff[d])
        => tcp_syncookies_flood_mode(cfg.ck, timers[d], jiff[d])'
  BY DEF Kept, tcp_syncookies_flood_mode
<1>3. NoCookie' = NoCookie
  BY DEF NoCookie
<1> QED
  BY <1>1, <1>2, <1>3 DEF Owing, Kept

(* The programs on the other CPUs do not move. *)
Quiet(c) == \A d \in CPU \ {c} : pc'[d] = pc[d] /\ res'[d] = res[d] /\ why'[d] = why[d]

LEMMA ChainMoves ==
    ASSUME Types, NEW c \in CPU, NEW f, NEW v, NEW next, next # "final", Chain(c, f, v, next)
    PROVE  Quiet(c) /\ (Blamed(c)' => v = "drop" /\ f \in {"auth", "cookie", "dns"})
  BY DEF Types, Chain, Quiet, Blamed

LEMMA EndMoves ==
    ASSUME Types, NEW c \in CPU, NEW f, NEW v, f \notin {"auth", "cookie", "dns"},
           pc' = [pc EXCEPT ![c] = "final"], res' = [res EXCEPT ![c] = v], why' = [why EXCEPT ![c] = f]
    PROVE  Quiet(c) /\ ~Blamed(c)'
  BY DEF Types, Quiet, Blamed

LEMMA StepKeeps ==
    ASSUME FInv, IInv', NEW c \in CPU, UNCHANGED <<set, cfg, pkt, jiff>>, Quiet(c), Clocks', Follows',
           owed' \in [CPU -> BOOLEAN],
           \A d \in CPU : owed'[d] => owed[d] /\ Kept(d),
           owed[c] /\ Owing(c) => ~Blamed(c)'
    PROVE  FInv'
<1>1. CPU' = CPU
  BY DEF CPU
<1>2. ASSUME NEW d \in CPU, owed'[d] PROVE Owing(d)' /\ ~Blamed(d)'
  <2>1. owed[d] /\ Kept(d) /\ Owing(d) /\ ~Blamed(d)
    BY <1>2 DEF FInv
  <2>2. Owing(d)'
    BY <2>1, OwingKept
  <2>3. ~Blamed(d)'
    BY <2>1 DEF Quiet, Blamed
  <2> QED
    BY <2>2, <2>3
<1> QED
  BY <1>1, <1>2 DEF FInv

LEMMA ClocksKept ==
    ASSUME Clocks, NEW c \in CPU, UNCHANGED <<set, now, jiff, timers, cookie>>, Quiet(c), pc[c] # "idle"
    PROVE  Clocks'
  BY DEF Clocks, Quiet, CPU, Peer, NoCookie

(* A filter that follows nothing judges the packet. *)
LEMMA FilterKeeps ==
    ASSUME FInv, IInv', NEW c \in CPU, pc[c] # "idle", Quiet(c),
           UNCHANGED <<set, cfg, now, pkt, jiff, timers, conn, ids, established, cookie, accepted, owed>>,
           owed[c] /\ Owing(c) => ~Blamed(c)'
    PROVE  FInv'
<1>1. Clocks'
  BY ClocksKept DEF FInv
<1>2. Follows'
  BY DEF FInv, Follows, Trusted, Peer
<1>3. owed' \in [CPU -> BOOLEAN] /\ \A d \in CPU : owed'[d] => owed[d] /\ Kept(d)
  BY DEF FInv, Kept
<1> QED
  BY <1>1, <1>2, <1>3, StepKeeps

LEMMA ParseKeeps == ASSUME FInv, IInv', NEW c \in CPU, Parse(c) PROVE FInv'
<1>1. /\ pc[c] = "parse"
      /\ UNCHANGED <<set, cfg, now, pkt, jiff, timers, conn, ids, established, cookie, accepted, owed>>
  BY DEF Parse, frame, mapVars, hostVars, histVars
<1>2. \/ (\E l \in {"dns", "icmp", "src"} : pc' = [pc EXCEPT ![c] = l]) /\ UNCHANGED <<res, why>>
      \/ \E f \in {"parse", "preload"}, v \in {"pass", "drop", L4Verdict(pkt[c])} :
           /\ pc' = [pc EXCEPT ![c] = "final"] /\ res' = [res EXCEPT ![c] = v] /\ why' = [why EXCEPT ![c] = f]
  BY DEF Parse
<1>3. Quiet(c) /\ ~Blamed(c)'
  <2>1. Types
    BY DEF FInv, IInv
  <2>2. CASE (\E l \in {"dns", "icmp", "src"} : pc' = [pc EXCEPT ![c] = l]) /\ UNCHANGED <<res, why>>
    BY <2>1, <2>2 DEF Types, Quiet, Blamed
  <2>3. CASE \E f \in {"parse", "preload"}, v \in {"pass", "drop", L4Verdict(pkt[c])} :
               /\ pc' = [pc EXCEPT ![c] = "final"] /\ res' = [res EXCEPT ![c] = v]
               /\ why' = [why EXCEPT ![c] = f]
    BY <2>1, <2>3 DEF Types, Quiet, Blamed
  <2> QED
    BY <1>2, <2>2, <2>3
<1> QED
  BY <1>1, <1>3, FilterKeeps

(* The DNS filter lets in the answer to a query it recorded. *)
LEMMA IngressDnsKeeps == ASSUME FInv, IInv', NEW c \in CPU, IngressDns(c) PROVE FInv'
<1> DEFINE m == pkt[c].dns
           v == IF cfg.dns /\ pkt[c].kind \in {"query", "answer"} /\ meta[c]
                THEN ingress_dns_filter_global(m, m.id \in ids) ELSE "continue"
<1>1. /\ pc[c] = "dns" /\ Chain(c, "dns", v, "src")
      /\ UNCHANGED <<set, cfg, now, pkt, jiff, timers, conn, ids, established, cookie, accepted, owed>>
  BY DEF IngressDns, frame, mapVars, hostVars, histVars
<1>2. Types /\ PacketType(pkt[c])
  BY SettingFacts DEF FInv, IInv, Types
<1>3. Owing(c) => v # "drop"
  <2>1. SUFFICES ASSUME Owing(c), v = "drop" PROVE FALSE
    OBVIOUS
  <2>2. pkt[c].kind = "answer" /\ m.id \in ids /\ process_ingress_dns_response(m, TRUE) = "continue"
    BY <2>1 DEF Owing
  <2>3. m.hdr /\ m.qr = "response"
    BY <1>2, <2>2 DEF PacketType
  <2> QED
    BY <2>1, <2>2, <2>3 DEF ingress_dns_filter_global, process_ingress_dns_response
<1>4. Quiet(c) /\ (owed[c] /\ Owing(c) => ~Blamed(c)')
  <2> HIDE DEF v
  <2> QED
    BY <1>1, <1>2, <1>3, ChainMoves
<1> QED
  BY <1>1, <1>4, FilterKeeps

LEMMA RulesKeep ==
    ASSUME FInv, IInv', NEW c \in CPU, Icmp(c) \/ Src(c) \/ Dst(c) \/ EgressDst(c)
    PROVE  FInv'
<1>1. Types
  BY DEF FInv, IInv
<1>2. /\ pc[c] # "idle"
      /\ UNCHANGED <<set, cfg, now, pkt, jiff, timers, conn, ids, established, cookie, accepted, owed>>
  BY DEF Icmp, Src, Dst, EgressDst, frame, mapVars, hostVars, histVars
<1>3. Quiet(c) /\ ~Blamed(c)'
  <2>1. CASE \E f \in {"icmp", "src", "icmp passed", "port", "dst"},
                next \in {"src", "none", "flags", "dst", "learn"} : \E v : Chain(c, f, v, next)
    BY <1>1, <2>1, ChainMoves
  <2>2. CASE \E v : pc' = [pc EXCEPT ![c] = "final"] /\ res' = [res EXCEPT ![c] = v] /\ why' = [why EXCEPT ![c] = "dst"]
    BY <1>1, <2>2, EndMoves
  <2> QED
    BY <2>1, <2>2 DEF Icmp, Src, Dst, EgressDst
<1> QED
  BY <1>2, <1>3, FilterKeeps

(* An accepted connection has a trusted entry as long as the filter only   *)
(* looks at it.                                                            *)
LEMMA FollowsAuth ==
    ASSUME Follows, Types, NEW p \in Peer, NEW ev, UNCHANGED <<set>>,
           conn' = [conn EXCEPT ![p] = AuthEntry(p, ev)],
           IF cfg.auth /\ ev = "rst" THEN accepted' = accepted \ {p} ELSE accepted' = accepted
    PROVE  Follows'
<1>1. Peer' = Peer
  BY DEF Peer
<1>2. ASSUME NEW q \in accepted' PROVE q \in Peer /\ conn'[q] \in {"open", "fin"}
  <2>1. q \in accepted /\ q \in Peer /\ conn[q] \in {"open", "fin"}
    BY <1>2 DEF Follows, Trusted
  <2>2. CASE q # p
    BY <2>1, <2>2 DEF Types
  <2>3. CASE q = p
    <3>1. ~(cfg.auth /\ ev = "rst")
      BY <1>2, <2>3
    <3>2. AuthEntry(p, ev) \in {"open", "fin"}
      BY <2>1, <2>3, <3>1 DEF AuthEntry, Trusted
    <3> QED
      BY <2>3, <3>2 DEF Types
  <2> QED
    BY <2>2, <2>3
<1> QED
  BY <1>1, <1>2 DEF Follows, Trusted

LEMMA FlagsKeeps == ASSUME FInv, IInv', NEW c \in CPU, Flags(c) PROVE FInv'
<1>1. Types /\ Clocks /\ Follows /\ owed \in [CPU -> BOOLEAN]
  BY DEF FInv, IInv
<1>2. PICK ev \in {"fin", "rst", "normal"} : FlagsAuth(c, ev)
  BY DEF Flags
<1>3. PICK p : p = pkt[c].peer
  OBVIOUS
<1>4. /\ pc[c] = "flags" /\ p \in Peer /\ pkt[c].kind \notin {"ack", "data", "answer"}
      /\ UNCHANGED <<set, cfg, now, pkt, jiff, timers, ids, established, cookie>>
      /\ conn' = [conn EXCEPT ![p] = AuthEntry(p, ev)]
      /\ IF cfg.auth /\ ev = "rst" THEN Closed(p) ELSE UNCHANGED <<accepted, owed>>
  BY <1>1, <1>2, <1>3, SettingFacts DEF Flags, FlagsAuth, frame, hostVars, Types
<1>5. Quiet(c)
  BY <1>1, <1>2, ChainMoves DEF FlagsAuth
<1>6. Clocks'
  BY <1>1, <1>4, <1>5, ClocksKept
<1>7. Follows'
  BY <1>1, <1>4, FollowsAuth DEF Closed
<1>8. owed' \in [CPU -> BOOLEAN]
  BY <1>1, <1>4 DEF Closed, Disown
<1>9. \A d \in CPU : owed'[d] => owed[d] /\ Kept(d)
  BY <1>4 DEF Closed, Disown, OfPeer, Kept
<1>10. ~Owing(c)
  BY <1>4 DEF Owing
<1> QED
  BY <1>4, <1>5, <1>6, <1>7, <1>8, <1>9, <1>10, StepKeeps

(* A cookie and the flood mode of its CPU start together. *)
LEMMA SynKeeps == ASSUME FInv, IInv', NEW c \in CPU, Syn(c) PROVE FInv'
<1>1. Types /\ Clocks /\ Follows /\ owed \in [CPU -> BOOLEAN] /\ pkt[c].peer \in Peer
  BY SettingFacts DEF FInv, IInv, Types
<1>2. /\ pc[c] = "flags" /\ pkt[c].kind = "syn"
      /\ UNCHANGED <<set, cfg, now, pkt, jiff, conn, ids, established, accepted, owed>>
  BY DEF Syn, frame, hostVars
<1>3. ~Owing(c) /\ ~owed[c]
  BY <1>2 DEF Owing, FInv
<1>4. \/ UNCHANGED <<timers, cookie>> /\ \E next \in {"none", "dst"} : \E f, v : Chain(c, f, v, next)
      \/ \E outcome \in (IF pkt[c].peer \in set.listening
                         THEN {"ENOENT", "failed", "synack"} ELSE {"failed"}) : SynAttempt(c, outcome)
  BY DEF Syn
<1>5. Quiet(c)
  BY <1>1, <1>4, ChainMoves DEF SynAttempt
<1>6. CASE UNCHANGED <<timers, cookie>>
  <2>1. owed[c] /\ Owing(c) => ~Blamed(c)'
    BY <1>3
  <2> QED
    BY <1>2, <1>5, <1>6, <2>1, FilterKeeps
<1>7. CASE ~UNCHANGED <<timers, cookie>>
  <2>1. PICK outcome \in {"ENOENT", "failed", "synack"} :
           /\ SynAttempt(c, outcome)
           /\ outcome = "synack" => pkt[c].peer \in set.listening
    BY <1>4, <1>7
  <2>2. PICK p, g, j : p = pkt[c].peer /\ j = jiff[c] /\ g = IF outcome = "ENOENT" THEN timers[c].gen ELSE jiff[c]
    OBVIOUS
  <2>3. /\ timers' = [timers EXCEPT ![c] = [try |-> j, gen |-> g]]
        /\ \/ cookie' = cookie
           \/ /\ p \in set.listening /\ g = j
              /\ cookie' = [cookie EXCEPT ![p] = [cpu |-> c, at |-> j]]
    BY <2>1, <2>2 DEF SynAttempt
  <2>4. g \in Int /\ j \in Nat /\ timers[c].gen <= g /\ g <= j /\ j <= now /\ now \in Int /\ p \in Peer
    <3>1. /\ timers[c].gen \in Int /\ jiff[c] \in Nat /\ timers[c].gen <= jiff[c] /\ jiff[c] <= now
      BY <1>1, <1>2 DEF Clocks
    <3>2. now \in Int
      BY <1>1, FilterChainAssumption DEF Types, Time
    <3> QED
      BY <1>1, <2>2, <3>1, <3>2
  <2>5. /\ timers' \in [CPU -> [try : Int, gen : Int]]
        /\ timers'[c].gen = g /\ \A d \in CPU : d # c => timers'[d] = timers[d]
    BY <1>1, <2>3, <2>4 DEF Clocks
  <2>6. \A d \in CPU : timers[d].gen <= timers'[d].gen /\ timers'[d].gen <= now
    <3>1. \A d \in CPU : timers[d].gen \in Int /\ timers[d].gen <= now
      BY <1>1 DEF Clocks
    <3> QED
      BY <2>4, <2>5, <3>1
  <2>7. \A q \in Peer : cookie[q] # NoCookie => cookie'[q] # NoCookie
    <3>1. [cpu |-> c, at |-> j] # NoCookie
      BY <1>1, SettingFacts DEF NoCookie, SettingType, CPU
    <3> QED
      BY <1>1, <2>3, <3>1 DEF Clocks
  <2>8. Clocks'
    <3>1. cookie' \in [Peer -> [cpu : CPU \cup {NoPeer}, at : Nat]]
      BY <1>1, <2>3, <2>4 DEF Clocks
    <3>2. \A d \in CPU : pc'[d] # "idle" => timers'[d].gen <= jiff[d]
      <4>1. \A d \in CPU \ {c} : pc'[d] # "idle" => timers[d].gen <= jiff[d]
        BY <1>1, <1>5 DEF Clocks, Quiet
      <4> QED
        BY <2>2, <2>4, <2>5, <4>1
    <3>3. ASSUME NEW q \in Peer, cookie'[q] # NoCookie
          PROVE  q \in set.listening /\ cookie'[q].cpu \in CPU /\ cookie'[q].at <= timers'[cookie'[q].cpu].gen
      <4>1. CASE cookie'[q] = cookie[q]
        <5>1. q \in set.listening /\ cookie[q].cpu \in CPU /\ cookie[q].at <= timers[cookie[q].cpu].gen
          BY <1>1, <3>3, <4>1 DEF Clocks
        <5>2. cookie[q].at \in Int /\ timers[cookie[q].cpu].gen \in Int /\ timers'[cookie[q].cpu].gen \in Int
          BY <1>1, <2>5, <5>1 DEF Clocks
        <5> QED
          BY <2>6, <4>1, <5>1, <5>2
      <4>2. CASE cookie'[q] # cookie[q]
        <5>1. q = p /\ cookie'[q] = [cpu |-> c, at |-> j] /\ p \in set.listening /\ g = j
          BY <1>1, <2>3, <4>2 DEF Clocks
        <5> QED
          BY <2>4, <2>5, <5>1
      <4> QED
        BY <4>1, <4>2
    <3>4. CPU' = CPU /\ Peer' = Peer /\ set' = set /\ now' = now /\ jiff' = jiff /\ NoCookie' = NoCookie
      BY <1>2 DEF CPU, Peer, NoCookie
    <3> QED
      BY <1>1, <2>5, <2>6, <3>1, <3>2, <3>3, <3>4 DEF Clocks
  <2>9. Follows'
    BY <1>1, <1>2 DEF Follows, Trusted, Peer
  <2>10. ASSUME NEW d \in CPU, owed'[d] PROVE owed[d] /\ Kept(d)
    <3>1. d # c /\ owed[d] /\ pkt[d].peer \in Peer
      BY <1>1, <1>2, <1>3, <2>10, SettingFacts DEF Types
    <3> QED
      BY <1>2, <2>5, <2>7, <3>1 DEF Kept
  <2> QED
    BY <1>1, <1>2, <1>3, <1>5, <2>8, <2>9, <2>10, StepKeeps
<1> QED
  BY <1>6, <1>7

(* tcp_rcv_ack_filter lets in what is owed, in flood mode and out of it. *)
LEMMA AckKeeps == ASSUME FInv, IInv', NEW c \in CPU, Ack(c) PROVE FInv'
<1> DEFINE flood == set.host /\ cfg.ck.on /\ tcp_syncookies_flood_mode(cfg.ck, timers[c], jiff[c])
<1>1. /\ Types /\ Known /\ Clocks /\ Follows /\ owed \in [CPU -> BOOLEAN]
      /\ \A d \in CPU : pkt[d].peer \in Peer
  BY SettingFacts DEF FInv, IInv, Types
<1>2. PICK p : p = pkt[c].peer
  OBVIOUS
<1>3. /\ pc[c] = "flags" /\ pkt[c].kind \in {"ack", "data"}
      /\ UNCHANGED <<set, cfg, now, pkt, jiff, ids, established, owed, cookie>>
      /\ timers' = IF flood THEN [timers EXCEPT ![c].try = jiff[c]] ELSE timers
  BY DEF Ack, frame, hostVars
<1>4. \/ /\ ~flood /\ Chain(c, "auth", AuthVerdict(p), "dst")
         /\ conn' = [conn EXCEPT ![p] = AuthEntry(p, "normal")] /\ accepted' = accepted
      \/ /\ cfg.auth /\ Trusted(p) /\ Chain(c, "ack", "continue", "dst") /\ UNCHANGED <<conn, accepted>>
      \/ /\ ~(cfg.auth /\ Trusted(p)) /\ Chain(c, "cookie", tcp_syncookies_ack_filter(pkt[c]), "dst")
         /\ \/ UNCHANGED <<conn, accepted>>
            \/ conn' = [conn EXCEPT ![p] = "open"] /\ accepted' = accepted \cup {p}
  BY <1>2 DEF Ack, AckEntry
<1>5. /\ timers' \in [CPU -> [try : Int, gen : Int]]
      /\ \A d \in CPU : timers'[d].gen = timers[d].gen
  <2>1. [timers[c] EXCEPT !.try = jiff[c]] \in [try : Int, gen : Int]
        /\ [timers[c] EXCEPT !.try = jiff[c]].gen = timers[c].gen
    BY <1>1 DEF Clocks
  <2>2. timers' = timers \/ timers' = [timers EXCEPT ![c] = [timers[c] EXCEPT !.try = jiff[c]]]
    BY <1>1, <1>3 DEF Clocks
  <2> QED
    BY <1>1, <2>1, <2>2 DEF Clocks
<1> HIDE DEF flood
<1>6. Quiet(c)
  BY <1>1, <1>4, ChainMoves
<1>7. Clocks'
  <2>1. \A q \in Peer : cookie[q] # NoCookie => cookie[q].at <= timers'[cookie[q].cpu].gen
    BY <1>1, <1>5 DEF Clocks
  <2>2. \A d \in CPU : pc'[d] # "idle" => pc[d] # "idle"
    BY <1>3, <1>6 DEF Quiet
  <2>3. CPU' = CPU /\ Peer' = Peer /\ NoCookie' = NoCookie
    BY <1>3 DEF CPU, Peer, NoCookie
  <2> QED
    BY <1>1, <1>3, <1>5, <2>1, <2>2, <2>3 DEF Clocks
<1>8. Follows'
  <2>1. CASE conn' = [conn EXCEPT ![p] = AuthEntry(p, "normal")] /\ accepted' = accepted
    BY <1>1, <1>2, <1>3, <2>1, FollowsAuth
  <2>2. CASE UNCHANGED <<conn, accepted>>
    BY <1>1, <1>3, <2>2 DEF Follows, Trusted, Peer
  <2>3. CASE conn' = [conn EXCEPT ![p] = "open"] /\ accepted' = accepted \cup {p}
    BY <1>1, <1>2, <1>3, <2>3 DEF Follows, Trusted, Peer, Types
  <2> QED
    BY <1>4, <2>1, <2>2, <2>3
<1>9. \A d \in CPU : owed'[d] => owed[d] /\ Kept(d)
  BY <1>3, <1>4, <1>5 DEF Kept
<1>10. ASSUME Owing(c) PROVE ~Blamed(c)'
  <2>1. /\ cfg.auth /\ p \in accepted => Trusted(p)
        /\ AuthVerdict(p) = "drop" => cfg.auth /\ ~Trusted(p)
    BY <1>1 DEF Follows, AuthVerdict
  <2>2. \/ cfg.auth /\ p \in accepted
        \/ ~cfg.auth /\ p \in established
        \/ flood /\ pkt[c].kind = "ack" /\ cookie[p] # NoCookie
    BY <1>2, <1>3, <1>10 DEF Owing, flood
  <2>3. CASE ~flood /\ Chain(c, "auth", AuthVerdict(p), "dst")
    <3>1. AuthVerdict(p) # "drop"
      BY <2>1, <2>2, <2>3
    <3> QED
      BY <1>1, <2>3, <3>1, ChainMoves
  <2>4. CASE Chain(c, "ack", "continue", "dst")
    BY <1>1, <2>4, ChainMoves
  <2>5. CASE /\ ~(cfg.auth /\ Trusted(p))
             /\ Chain(c, "cookie", tcp_syncookies_ack_filter(pkt[c]), "dst")
    <3>1. p \in established \/ (pkt[c].kind = "ack" /\ cookie[p] # NoCookie)
      BY <2>1, <2>2, <2>5
    <3>2. cookie[p] # NoCookie => p \in set.listening
      BY <1>1, <1>2 DEF Clocks
    <3>3. tcp_syncookies_ack_filter(pkt[c]) = "continue"
      BY <1>2, <3>1, <3>2 DEF tcp_syncookies_ack_filter
    <3> QED
      BY <1>1, <2>5, <3>3, ChainMoves
  <2> QED
    BY <1>4, <2>3, <2>4, <2>5
<1> QED
  BY <1>1, <1>3, <1>6, <1>7, <1>8, <1>9, <1>10, StepKeeps

LEMMA EgressKeeps == ASSUME FInv, IInv', NEW c \in CPU, Egress(c) PROVE FInv'
<1>1. Types /\ Clocks /\ Follows /\ owed \in [CPU -> BOOLEAN]
  BY DEF FInv, IInv
<1>2. /\ pc[c] = "egress"
      /\ UNCHANGED <<set, cfg, now, pkt, jiff, timers, conn, established, cookie, accepted>>
  BY DEF Egress, frame, hostVars
<1>3. Quiet(c) /\ ~Blamed(c)'
  <2>1. CASE Parsed(pkt[c])
    BY <1>1, <2>1 DEF Egress, Types, Quiet, Blamed
  <2>2. CASE ~Parsed(pkt[c])
    BY <1>1, <2>2, EndMoves DEF Egress
  <2> QED
    BY <2>1, <2>2
<1>4. \/ UNCHANGED <<ids, owed>>
      \/ \E e : ids' = (ids \ {e}) \cup {pkt[c].dns.id} /\ Disown(OfAnswer(e))
  BY DEF Egress
<1>5. owed' \in [CPU -> BOOLEAN] /\ \A d \in CPU : owed'[d] => owed[d] /\ Kept(d)
  <2>1. CASE UNCHANGED <<ids, owed>>
    BY <1>1, <1>2, <2>1 DEF Kept
  <2>2. CASE \E e : ids' = (ids \ {e}) \cup {pkt[c].dns.id} /\ Disown(OfAnswer(e))
    <3>1. PICK e : ids' = (ids \ {e}) \cup {pkt[c].dns.id} /\ Disown(OfAnswer(e))
      BY <2>2
    <3>2. owed' \in [CPU -> BOOLEAN]
      BY <1>1, <3>1 DEF Disown
    <3> QED
      BY <1>1, <1>2, <3>1, <3>2 DEF Kept, Disown, OfAnswer
  <2> QED
    BY <1>4, <2>1, <2>2
<1>6. Clocks' /\ Follows'
  BY <1>1, <1>2, <1>3, ClocksKept DEF Follows, Trusted, Peer
<1> QED
  BY <1>2, <1>3, <1>5, <1>6, StepKeeps

LEMMA LearnKeeps == ASSUME FInv, IInv', NEW c \in CPU, Learn(c) PROVE FInv'
<1>1. Types /\ Clocks /\ Follows /\ owed \in [CPU -> BOOLEAN] /\ pkt[c].peer \in Peer
  BY SettingFacts DEF FInv, IInv, Types
<1>2. /\ pc[c] = "learn"
      /\ UNCHANGED <<set, cfg, now, pkt, jiff, timers, ids, established, cookie>>
  BY DEF Learn, frame, hostVars
<1>3. Quiet(c) /\ ~Blamed(c)'
  BY <1>1, EndMoves DEF Learn
<1>4. PICK p, k : p = pkt[c].peer /\ k = pkt[c].kind
  OBVIOUS
<1>5. \/ UNCHANGED <<conn, accepted, owed>>
      \/ conn' = [conn EXCEPT ![p] = LearnedEntry(p, k)] /\ k = "rst" /\ Closed(p)
      \/ /\ conn' = [conn EXCEPT ![p] = LearnedEntry(p, k)] /\ k # "rst" /\ UNCHANGED owed
         /\ accepted' = IF k \in {"syn", "synack"} THEN accepted \cup {p} ELSE accepted
  BY <1>4 DEF Learn
<1>6. owed' \in [CPU -> BOOLEAN] /\ \A d \in CPU : owed'[d] => owed[d] /\ Kept(d)
  <2>1. owed' \in [CPU -> BOOLEAN]
    BY <1>1, <1>5 DEF Closed, Disown
  <2> QED
    BY <1>1, <1>2, <1>5, <2>1 DEF Kept, Closed, Disown, OfPeer
<1>7. Follows'
  <2>1. ASSUME NEW q \in accepted' PROVE q \in Peer /\ conn'[q] \in {"open", "fin"}
    <3>1. \A x \in accepted : x \in Peer /\ conn[x] \in {"open", "fin"}
      BY <1>1 DEF Follows, Trusted
    <3>2. CASE UNCHANGED <<conn, accepted>>
      BY <2>1, <3>1, <3>2
    <3>3. CASE conn' = [conn EXCEPT ![p] = LearnedEntry(p, k)] /\ q # p
      BY <1>1, <1>5, <2>1, <3>1, <3>3 DEF Types, Closed
    <3>4. CASE conn' = [conn EXCEPT ![p] = LearnedEntry(p, k)] /\ q = p /\ ~UNCHANGED <<conn, accepted>>
      <4>1. k # "rst" /\ (conn[p] \in {"open", "fin"} \/ k \in {"syn", "synack"})
        BY <1>5, <2>1, <3>1, <3>4 DEF Closed
      <4>2. conn[p] \in Entry
        BY <1>1, <1>4 DEF Types
      <4>3. LearnedEntry(p, k) \in {"open", "fin"}
        BY <4>1, <4>2 DEF LearnedEntry, Entry
      <4> QED
        BY <1>1, <1>4, <3>4, <4>3 DEF Types
    <3> QED
      BY <1>5, <3>2, <3>3, <3>4
  <2> QED
    BY <1>2, <2>1 DEF Follows, Trusted, Peer
<1>8. Clocks'
  BY <1>1, <1>2, <1>3, ClocksKept
<1> QED
  BY <1>2, <1>3, <1>6, <1>7, <1>8, StepKeeps

LEMMA BeginKeeps == ASSUME FInv, IInv', NEW c \in CPU, NEW p \in set.packets, Begin(c, p) PROVE FInv'
<1>1. Types /\ Clocks /\ Follows /\ owed \in [CPU -> BOOLEAN] /\ p.peer \in Peer
  BY SettingFacts DEF FInv, IInv
<1>2. /\ UNCHANGED <<set, cfg, now, timers, conn, ids, established, cookie, accepted>>
      /\ CPU' = CPU /\ Peer' = Peer
  BY DEF Begin, mapVars, hostVars, histVars, CPU, Peer
<1>3. /\ pc[c] = "idle" /\ pkt' = [pkt EXCEPT ![c] = p] /\ jiff' = [jiff EXCEPT ![c] = now]
      /\ owed' = [owed EXCEPT ![c] = Owed(c, p)]
  BY DEF Begin
<1>4. Quiet(c) /\ ~Blamed(c)'
  <2>1. \E l, w : \E r \in {"pass", "continue"} :
          pc' = [pc EXCEPT ![c] = l] /\ res' = [res EXCEPT ![c] = r] /\ why' = [why EXCEPT ![c] = w]
    BY DEF Begin
  <2> QED
    BY <1>1, <2>1 DEF Types, Quiet, Blamed
<1>5. now \in Nat
  BY <1>1, FilterChainAssumption DEF Types, Time
<1>6. Clocks'
  <2>1. jiff' \in [CPU -> Nat] /\ jiff'[c] = now /\ \A d \in CPU \ {c} : jiff'[d] = jiff[d]
    BY <1>1, <1>3, <1>5 DEF Clocks
  <2>2. \A d \in CPU : jiff'[d] <= now /\ timers[d].gen <= now /\ (pc'[d] # "idle" => timers[d].gen <= jiff'[d])
    BY <1>1, <1>4, <1>5, <2>1 DEF Clocks, Quiet
  <2>3. NoCookie' = NoCookie
    BY DEF NoCookie
  <2> QED
    BY <1>1, <1>2, <2>1, <2>2, <2>3 DEF Clocks
<1>7. Follows'
  BY <1>1, <1>2 DEF Follows, Trusted
<1>8. owed' \in [CPU -> BOOLEAN]
  BY <1>1, <1>3 DEF Owed
<1>9. owed'[c] => Owing(c)'
  <2>1. SUFFICES ASSUME Owed(c, p) PROVE Owing(c)'
    BY <1>1, <1>3
  <2>2. pkt'[c] = p /\ jiff'[c] = now
    BY <1>1, <1>3 DEF Types, Clocks
  <2>3. ASSUME cookie[p.peer].cpu = c, now - cookie[p.peer].at <= cfg.ck.flood
        PROVE  cookie[p.peer] # NoCookie /\ tcp_syncookies_flood_mode(cfg.ck, timers[c], jiff[c])'
    <3>1. cookie[p.peer] # NoCookie
      BY <1>1, <2>3, SettingFacts DEF NoCookie, SettingType, CPU
    <3>2. /\ cookie[p.peer].at <= timers[c].gen /\ cookie[p.peer].at \in Nat
          /\ timers[c].gen \in Int
      BY <1>1, <2>3, <3>1 DEF Clocks
    <3>3. cfg.ck.flood \in Nat
      BY <1>1, SettingFacts DEF Types, SettingType
    <3>4. now - timers[c].gen <= cfg.ck.flood
      BY <1>5, <2>3, <3>2, <3>3
    <3> QED
      BY <1>2, <2>2, <3>1, <3>4 DEF tcp_syncookies_flood_mode
  <2>4. process_ingress_dns_response(p.dns, TRUE) = "continue"
          => process_ingress_dns_response(pkt[c].dns, TRUE)' = "continue"
    BY <2>2 DEF process_ingress_dns_response, GoodRecord
  <2>5. \/ p.kind \in {"ack", "data"} /\ cfg.auth /\ p.peer \in accepted
        \/ p.kind \in {"ack", "data"} /\ ~cfg.auth /\ p.peer \in established
        \/ /\ p.kind = "ack" /\ set.host /\ cfg.ck.on
           /\ cookie[p.peer].cpu = c /\ now - cookie[p.peer].at <= cfg.ck.flood
        \/ p.kind = "answer" /\ process_ingress_dns_response(p.dns, TRUE) = "continue" /\ p.dns.id \in ids
    BY <1>1, <2>1 DEF Owed, Types
  <2>6. NoCookie' = NoCookie
    BY DEF NoCookie
  <2> QED
    BY <1>2, <2>2, <2>3, <2>4, <2>5, <2>6 DEF Owing
<1>10. ASSUME NEW d \in CPU, owed'[d] PROVE Owing(d)' /\ ~Blamed(d)'
  <2>1. CASE d = c
    BY <1>4, <1>9, <1>10, <2>1
  <2>2. CASE d # c
    <3>1. pkt'[d] = pkt[d] /\ jiff'[d] = jiff[d] /\ owed[d]
      BY <1>1, <1>3, <1>10, <2>2 DEF Types, Clocks
    <3>2. Kept(d)
      BY <1>2 DEF Kept
    <3>3. Owing(d) /\ ~Blamed(d)
      BY <3>1 DEF FInv
    <3>4. Owing(d)'
      BY <1>2, <3>1, <3>2, <3>3, OwingKept
    <3> QED
      BY <1>4, <2>2, <3>3, <3>4 DEF Quiet, Blamed
  <2> QED
    BY <2>1, <2>2
<1> QED
  BY <1>2, <1>6, <1>7, <1>8, <1>10 DEF FInv

LEMMA FinishKeeps == ASSUME FInv, IInv', NEW c \in CPU, Finish(c) PROVE FInv'
<1>1. Types /\ Clocks /\ Follows /\ owed \in [CPU -> BOOLEAN]
  BY DEF FInv, IInv
<1>2. /\ UNCHANGED <<set, cfg, now, timers, conn, ids, cookie, accepted>>
      /\ CPU' = CPU /\ Peer' = Peer
  BY DEF Finish, mapVars, histVars, CPU, Peer
<1>3. /\ pc' = [pc EXCEPT ![c] = "idle"] /\ pkt' = [pkt EXCEPT ![c] = SomePacket]
      /\ jiff' = [jiff EXCEPT ![c] = 0] /\ res' = [res EXCEPT ![c] = "continue"]
      /\ why' = [why EXCEPT ![c] = "none"]
  BY DEF Finish
<1>4. PICK p : p = pkt[c].peer
  OBVIOUS
<1>5. \/ /\ established' = established \ {p}
         /\ owed' = [d \in CPU |-> d # c /\ owed[d] /\ d \notin OfPeer(p)]
      \/ established' = established /\ owed' = [owed EXCEPT ![c] = FALSE]
  BY <1>4 DEF Finish
<1>6. owed' \in [CPU -> BOOLEAN]
  BY <1>1, <1>5
<1>7. Clocks'
  <2>1. jiff' \in [CPU -> Nat] /\ \A d \in CPU : jiff'[d] <= jiff[d]
    BY <1>1, <1>3 DEF Clocks
  <2>2. \A d \in CPU :
          /\ pc'[d] # "idle" => pc[d] # "idle" /\ jiff'[d] = jiff[d]
          /\ jiff'[d] <= now
    <3>1. now \in Nat /\ \A d \in CPU : jiff[d] \in Nat /\ jiff'[d] \in Nat
      BY <1>1, <2>1, FilterChainAssumption DEF Types, Time, Clocks
    <3>2. \A d \in CPU : jiff'[d] <= now
      BY <1>1, <2>1, <3>1 DEF Clocks
    <3> QED
      BY <1>1, <1>3, <3>2 DEF Types, Clocks
  <2>3. NoCookie' = NoCookie
    BY DEF NoCookie
  <2> QED
    BY <1>1, <1>2, <2>1, <2>2, <2>3 DEF Clocks
<1>8. Follows'
  BY <1>1, <1>2 DEF Follows, Trusted
<1>9. ASSUME NEW d \in CPU, owed'[d] PROVE Owing(d)' /\ ~Blamed(d)'
  <2>1. d # c /\ owed[d] /\ (established' = established \ {p} => d \notin OfPeer(p) \/ established' = established)
    BY <1>1, <1>5, <1>9
  <2>2. /\ pkt'[d] = pkt[d] /\ jiff'[d] = jiff[d]
        /\ pc'[d] = pc[d] /\ res'[d] = res[d] /\ why'[d] = why[d]
    BY <1>1, <1>3, <2>1 DEF Types, Clocks
  <2>3. Kept(d)
    BY <1>2, <1>5, <2>1 DEF Kept, OfPeer
  <2>4. Owing(d) /\ ~Blamed(d)
    BY <2>1 DEF FInv
  <2>5. Owing(d)'
    BY <1>2, <2>2, <2>3, <2>4, OwingKept
  <2> QED
    BY <2>2, <2>4, <2>5 DEF Blamed
<1> QED
  BY <1>2, <1>6, <1>7, <1>8, <1>9 DEF FInv

(* The world around the programs. *)
LEMMA WorldKeeps ==
    ASSUME FInv, IInv', UNCHANGED <<set, cfg, pc, pkt, jiff, res, why, timers, cookie>>,
           now <= now', now' \in Nat, Follows', owed' \in [CPU -> BOOLEAN],
           \A d \in CPU : owed'[d] => owed[d] /\ Kept(d)
    PROVE  FInv'
<1>1. CPU' = CPU /\ Peer' = Peer /\ NoCookie' = NoCookie
  BY DEF CPU, Peer, NoCookie
<1>2. now \in Nat /\ Clocks
  BY FilterChainAssumption DEF FInv, IInv, Types, Time
<1>3. \A d \in CPU : jiff[d] <= now' /\ timers[d].gen <= now'
  <2>1. \A d \in CPU : jiff[d] \in Nat /\ timers[d].gen \in Int /\ jiff[d] <= now /\ timers[d].gen <= now
    BY <1>2 DEF Clocks
  <2> QED
    BY <1>2, <2>1
<1>4. Clocks'
  BY <1>1, <1>2, <1>3 DEF Clocks
<1>5. ASSUME NEW d \in CPU, owed'[d] PROVE Owing(d)' /\ ~Blamed(d)'
  <2>1. owed[d] /\ Kept(d) /\ Owing(d) /\ ~Blamed(d)
    BY <1>5 DEF FInv
  <2>2. Owing(d)'
    BY <2>1, OwingKept
  <2> QED
    BY <2>1, <2>2 DEF Blamed
<1> QED
  BY <1>1, <1>4, <1>5 DEF FInv

LEMMA OthersKeep ==
    ASSUME FInv, IInv',
           \/ \E p \in Peer : Establish(p) \/ Expire(p)
           \/ \E f \in set.cfgs : Update(f)
           \/ Tick
           \/ UNCHANGED vars
    PROVE  FInv'
<1>1. Types /\ Clocks /\ Follows /\ owed \in [CPU -> BOOLEAN] /\ now \in Nat
  BY FilterChainAssumption DEF FInv, IInv, Types, Time
<1>2. ASSUME NEW p \in Peer, Establish(p) PROVE FInv'
  <2>1. /\ UNCHANGED <<set, cfg, now, pc, pkt, jiff, res, why, timers, conn, ids, cookie, accepted, owed>>
        /\ established' = established \cup {p}
    BY <1>2 DEF Establish, progVars, mapVars, histVars
  <2>2. Follows' /\ \A d \in CPU : owed'[d] => owed[d] /\ Kept(d)
    BY <1>1, <2>1 DEF Follows, Trusted, Peer, Kept
  <2> QED
    BY <1>1, <2>1, <2>2, WorldKeeps
<1>3. ASSUME NEW p \in Peer, Expire(p) PROVE FInv'
  <2>1. /\ UNCHANGED <<set, cfg, now, pc, pkt, jiff, res, why, timers, ids, cookie, established>>
        /\ conn' = [conn EXCEPT ![p] = "old"] /\ Closed(p)
    BY <1>3 DEF Expire, progVars, mapVars, hostVars
  <2>2. Follows'
    BY <1>1, <2>1 DEF Follows, Trusted, Peer, Closed, Types
  <2>3. owed' \in [CPU -> BOOLEAN]
    BY <1>1, <2>1 DEF Closed, Disown
  <2>4. \A d \in CPU : owed'[d] => owed[d] /\ Kept(d)
    BY <2>1 DEF Closed, Disown, OfPeer, Kept
  <2> QED
    BY <1>1, <2>1, <2>2, <2>3, <2>4, WorldKeeps
<1>4. ASSUME NEW f \in set.cfgs, Update(f) PROVE FInv'
  <2>1. /\ UNCHANGED <<set, now, pc, pkt, jiff, res, why, timers, conn, ids, cookie, accepted, established>>
        /\ owed' = [c \in CPU |-> FALSE]
    BY <1>4 DEF Update, progVars, mapVars, hostVars, histVars
  <2>2. CPU' = CPU /\ Peer' = Peer /\ NoCookie' = NoCookie
    BY <2>1 DEF CPU, Peer, NoCookie
  <2>3. Follows' /\ Clocks'
    BY <1>1, <2>1, <2>2 DEF Follows, Trusted, Clocks
  <2> QED
    BY <2>1, <2>2, <2>3 DEF FInv
<1>5. CASE Tick
  <2>1. /\ UNCHANGED <<set, cfg, pc, pkt, jiff, res, why, timers, conn, ids, cookie, accepted, established, owed>>
        /\ now' = now + 1
    BY <1>5 DEF Tick, progVars, mapVars, hostVars, histVars
  <2>2. Follows' /\ \A d \in CPU : owed'[d] => owed[d] /\ Kept(d)
    BY <1>1, <2>1 DEF Follows, Trusted, Peer, Kept
  <2> QED
    BY <1>1, <2>1, <2>2, WorldKeeps
<1>6. CASE UNCHANGED vars
  <2>1. UNCHANGED <<set, cfg, now, pc, pkt, jiff, res, why, timers, conn, ids, cookie, accepted, established, owed>>
    BY <1>6 DEF vars, progVars, mapVars, hostVars, histVars
  <2>2. Follows' /\ \A d \in CPU : owed'[d] => owed[d] /\ Kept(d)
    BY <1>1, <2>1 DEF Follows, Trusted, Peer, Kept
  <2> QED
    BY <1>1, <2>1, <2>2, WorldKeeps
<1> QED
  BY <1>2, <1>3, <1>4, <1>5, <1>6

LEMMA InitFollows == Init => FInv
<1> SUFFICES ASSUME Init PROVE FInv
  OBVIOUS
<1>1. IInv
  BY InitInv
<1>2. LongAgo \in Int /\ LongAgo <= 0 /\ NoCookie \in [cpu : CPU \cup {NoPeer}, at : Nat]
  BY FilterChainAssumption DEF LongAgo, NoCookie
<1>3. Clocks
  BY <1>2 DEF Init, Clocks
<1>4. Follows /\ owed \in [CPU -> BOOLEAN] /\ \A c \in CPU : ~owed[c]
  BY DEF Init, Follows
<1> QED
  BY <1>1, <1>3, <1>4 DEF FInv

LEMMA NextFollows == FInv /\ [Next]_vars => FInv'
<1> SUFFICES ASSUME FInv, [Next]_vars PROVE FInv'
  OBVIOUS
<1>1. IInv'
  BY NextInv DEF FInv
<1>2. ASSUME NEW c \in CPU, NEW p \in set.packets, Begin(c, p) PROVE FInv'
  BY <1>1, <1>2, BeginKeeps
<1>3. ASSUME NEW c \in CPU, Parse(c) \/ IngressDns(c) \/ Icmp(c) \/ Src(c) \/ Dst(c) \/ EgressDst(c) PROVE FInv'
  BY <1>1, <1>3, ParseKeeps, IngressDnsKeeps, RulesKeep
<1>4. ASSUME NEW c \in CPU, Flags(c) \/ Syn(c) \/ Ack(c) \/ Egress(c) \/ Learn(c) \/ Finish(c) PROVE FInv'
  BY <1>1, <1>4, FlagsKeeps, SynKeeps, AckKeeps, EgressKeeps, LearnKeeps, FinishKeeps
<1> QED
  BY <1>1, <1>2, <1>3, <1>4, OthersKeep DEF Next

(* What the filters that follow connections and queries have to let in     *)
(* they do let in: segments of connections whose handshake they saw, the   *)
(* ACK of a cookie on the CPU that made it, answers to recorded queries,   *)
(* with flood mode starting or ending under the packet and with any number *)
(* of programs running (tcp_rcv_ack_filter, ingress_dns_filter).           *)
THEOREM ExpectedIsLetIn == Spec => []ExpectedNotDropped
<1>1. FInv => ExpectedNotDropped
  BY DEF FInv, ExpectedNotDropped, Blamed
<1> QED
  BY <1>1, InitFollows, NextFollows, PTL DEF Spec

-----------------------------------------------------------------------------
(* The walk over a name of a DNS query: NameWalk against the labels of the *)
(* name.                                                                   *)
Walked == [r : {"continue", "found", "notfound"}, offset : Nat]

LEMMA NameFacts ==
    /\ MAX_DNS_NAME \in Nat \ {0} /\ MaxNameBuf \in Nat
    /\ \A buf \in NameBufs : /\ Len(buf) \in Nat
                             /\ \A i \in 1..Len(buf) : buf[i] \in 0..255
<1>1. MAX_DNS_NAME \in Nat \ {0} /\ MaxNameBuf \in Nat /\ NameBytes \subseteq 0..255
  BY DnsFilterAssumption
<1>2. ASSUME NEW buf \in NameBufs
      PROVE  Len(buf) \in Nat /\ \A i \in 1..Len(buf) : buf[i] \in 0..255
  <2>1. PICK n \in 0..MaxNameBuf : buf \in [1..n -> NameBytes]
    BY DEF NameBufs
  <2>2. n \in Nat /\ buf \in Seq(NameBytes) /\ Len(buf) = n
    BY <1>1, <2>1
  <2> QED
    BY <1>1, <2>1, <2>2
<1> QED
  BY <1>1, <1>2

(* What a round makes of the label at offset o *)
LEMMA LabelCases ==
    ASSUME NEW buf \in NameBufs, NEW o \in Nat
    PROVE  \/ /\ process_label(buf, o) = [r |-> "notfound", offset |-> 0]
              /\ \/ o > MAX_DNS_NAME \/ o + 1 > Len(buf)
                 \/ buf[o + 1] \in 64..191
                 \/ buf[o + 1] \in 0..63 /\ o + buf[o + 1] + 1 > Len(buf)
           \/ /\ o <= MAX_DNS_NAME /\ o + 1 \in 1..Len(buf)
              /\ \/ buf[o + 1] = 0 /\ process_label(buf, o) = [r |-> "found", offset |-> o + 1]
                 \/ IsPointer(buf[o + 1]) /\ process_label(buf, o) = [r |-> "found", offset |-> o + 2]
                 \/ /\ buf[o + 1] \in 1..63 /\ o + buf[o + 1] + 1 <= Len(buf)
                    /\ process_label(buf, o) = [r |-> "continue", offset |-> o + buf[o + 1] + 1]
<1>1. Len(buf) \in Nat /\ MAX_DNS_NAME \in Nat
  BY NameFacts
<1>2. CASE o > MAX_DNS_NAME \/ o + 1 > Len(buf)
  BY <1>2 DEF process_label
<1>3. CASE ~(o > MAX_DNS_NAME \/ o + 1 > Len(buf))
  <2>1. o <= MAX_DNS_NAME /\ o + 1 \in 1..Len(buf)
    BY <1>1, <1>3
  <2>2. PICK b \in 0..255 : b = buf[o + 1]
    BY <2>1, NameFacts
  <2>3. process_label(buf, o) =
          IF b >= 192 THEN [r |-> "found", offset |-> o + 2]
          ELSE IF b > 63 \/ o + b + 1 > Len(buf) THEN [r |-> "notfound", offset |-> 0]
          ELSE [r |-> IF b = 0 THEN "found" ELSE "continue", offset |-> o + b + 1]
    BY <1>3, <2>2 DEF process_label, IsPointer, PointerSize, DNS_NAME_COMPRESSION_LABEL
  <2> DEFINE Q(x) ==
        \/ /\ process_label(buf, o) = [r |-> "notfound", offset |-> 0]
           /\ \/ o > MAX_DNS_NAME \/ o + 1 > Len(buf)
              \/ x \in 64..191
              \/ x \in 0..63 /\ o + x + 1 > Len(buf)
        \/ /\ o <= MAX_DNS_NAME /\ o + 1 \in 1..Len(buf)
           /\ \/ x = 0 /\ process_label(buf, o) = [r |-> "found", offset |-> o + 1]
              \/ IsPointer(x) /\ process_label(buf, o) = [r |-> "found", offset |-> o + 2]
              \/ /\ x \in 1..63 /\ o + x + 1 <= Len(buf)
                 /\ process_label(buf, o) = [r |-> "continue", offset |-> o + x + 1]
  <2>4. CASE b >= 192
    <3>1. Q(b)
      BY <2>1, <2>3, <2>4 DEF IsPointer, DNS_NAME_COMPRESSION_LABEL
    <3> QED
      BY <2>2, <3>1
  <2>5. CASE b = 0
    <3>1. process_label(buf, o) = [r |-> "found", offset |-> o + 1]
      BY <1>1, <2>1, <2>3, <2>5
    <3>2. Q(0)
      BY <2>1, <3>1
    <3> HIDE DEF Q
    <3>3. Q(b)
      BY <2>5, <3>2
    <3> QED
      BY <2>2, <3>3 DEF Q
  <2>6. CASE b \in 1..63
    <3>1. Q(b)
      BY <1>1, <2>1, <2>3, <2>6
    <3> QED
      BY <2>2, <3>1
  <2>7. CASE b \in 64..191
    <3>1. Q(b)
      BY <2>1, <2>3, <2>7
    <3> QED
      BY <2>2, <3>1
  <2>8. b >= 192 \/ b = 0 \/ b \in 1..63 \/ b \in 64..191
    OBVIOUS
  <2> QED
    BY <2>4, <2>5, <2>6, <2>7, <2>8, Zenon
<1> QED
  BY <1>2, <1>3

LEMMA LabelTypes ==
    ASSUME NEW buf \in NameBufs, NEW c \in Walked
    PROVE  NextLabel(buf, c) \in Walked
<1>1. c.offset \in Nat
  BY DEF Walked
<1>2. PICK o \in Nat : o = c.offset
  BY <1>1
<1>3. process_label(buf, o) \in Walked
  <2>1. CASE o > MAX_DNS_NAME \/ o + 1 > Len(buf)
    BY <2>1 DEF process_label, Walked
  <2>2. CASE ~(o > MAX_DNS_NAME \/ o + 1 > Len(buf))
    <3>1. PICK b \in 0..255 : b = buf[o + 1]
      <4>1. Len(buf) \in Nat /\ MAX_DNS_NAME \in Nat
        BY NameFacts
      <4>2. o + 1 \in 1..Len(buf)
        BY <2>2, <4>1
      <4> QED
        BY <4>2, NameFacts
    <3>2. process_label(buf, o) =
            IF b >= 192 THEN [r |-> "found", offset |-> o + 2]
            ELSE IF b > 63 \/ o + b + 1 > Len(buf) THEN [r |-> "notfound", offset |-> 0]
            ELSE [r |-> IF b = 0 THEN "found" ELSE "continue", offset |-> o + b + 1]
      BY <2>2, <3>1 DEF process_label, IsPointer, PointerSize, DNS_NAME_COMPRESSION_LABEL
    <3>3. o + 2 \in Nat /\ o + b + 1 \in Nat
      OBVIOUS
    <3> QED
      BY <3>2, <3>3 DEF Walked
  <2> QED
    BY <2>1, <2>2
<1> QED
  BY <1>2, <1>3 DEF NextLabel

(* The rounds of process_dname *)
LEMMA WalkRounds ==
    ASSUME NEW buf \in NameBufs
    PROVE  /\ NameWalk(buf)[0] = [r |-> "continue", offset |-> 0]
           /\ \A i \in 0..MAX_DNS_NAME : NameWalk(buf)[i] \in Walked
           /\ \A i \in 1..MAX_DNS_NAME : NameWalk(buf)[i] = NextLabel(buf, NameWalk(buf)[i - 1])
<1> DEFINE a == [r |-> "continue", offset |-> 0]
           f == [c \in Walked |-> NextLabel(buf, c)]
           Def(g) == [i \in 0..MAX_DNS_NAME |-> IF i = 0 THEN a ELSE NextLabel(buf, g[i - 1])]
<1>1. MAX_DNS_NAME \in Nat /\ a \in Walked /\ f \in [Walked -> Walked]
  BY NameFacts, LabelTypes DEF Walked
<1>2. PICK g \in [0..MAX_DNS_NAME -> Walked] :
         g[0] = a /\ \A i \in 1..MAX_DNS_NAME : g[i] = f[g[i - 1]]
  <2> HIDE DEF a, f
  <2> QED
    BY <1>1, Rounds
<1>3. g = Def(g)
  <2>1. ASSUME NEW i \in 1..MAX_DNS_NAME PROVE g[i] = NextLabel(buf, g[i - 1])
    <3>1. i - 1 \in 0..MAX_DNS_NAME
      BY <1>1
    <3> HIDE DEF a
    <3> QED
      BY <1>2, <3>1
  <2>2. ASSUME NEW i \in 0..MAX_DNS_NAME
        PROVE  g[i] = IF i = 0 THEN a ELSE NextLabel(buf, g[i - 1])
    <3> HIDE DEF a
    <3> QED
      BY <1>1, <1>2, <2>1
  <2> HIDE DEF a
  <2> QED
    BY <2>2
<1> DEFINE w == NameWalk(buf)
<1>4. w = Def(w)
  <2>1. w = CHOOSE h : h = Def(h)
    BY DEF NameWalk
  <2> HIDE DEF Def, w
  <2> QED
    BY <1>3, <2>1
<1> HIDE DEF w, a
<1>5. w[0] = a
  BY <1>1, <1>4
<1>6. \A i \in 1..MAX_DNS_NAME : w[i] = NextLabel(buf, w[i - 1])
  BY <1>1, <1>4
<1> DEFINE Typed == {i \in Nat : i <= MAX_DNS_NAME => w[i] \in Walked}
<1>7. 0 \in Typed
  BY <1>1, <1>5
<1>8. ASSUME NEW i \in Nat, i \in Typed PROVE i + 1 \in Typed
  <2> SUFFICES ASSUME i + 1 <= MAX_DNS_NAME PROVE w[i + 1] \in Walked
    OBVIOUS
  <2>1. i + 1 \in 1..MAX_DNS_NAME /\ (i + 1) - 1 = i /\ i <= MAX_DNS_NAME
    BY <1>1
  <2>2. w[i + 1] = NextLabel(buf, w[i])
    BY <1>6, <2>1
  <2> QED
    BY <1>8, <2>1, <2>2, LabelTypes
<1>9. Nat \subseteq Typed
  <2> HIDE DEF Typed
  <2> QED
    BY <1>7, <1>8, NatInduct
<1>10. \A i \in 0..MAX_DNS_NAME : w[i] \in Walked
  BY <1>1, <1>9
<1> QED
  BY <1>5, <1>6, <1>10 DEF w, a

(* The labels walked over: s holds the places of their length bytes and p  *)
(* is the place of the next one.                                           *)
Labels(buf, s, p) ==
    /\ s \subseteq 1..Len(buf) /\ p \in Nat
    /\ 1 \in s \cup {p}
    /\ \A i \in s : i < p /\ buf[i] \in 1..63 /\ i + buf[i] + 1 \in s \cup {p}
    /\ \A j \in (s \cup {p}) \ {1} : \E i \in s : i + buf[i] + 1 = j

NameAt(buf, end) ==
    \E s \in SUBSET (1..Len(buf)), last \in 1..Len(buf) :
       /\ IsName(buf, s, last) /\ last - 1 <= MAX_DNS_NAME
       /\ end = IF buf[last] = 0 THEN last ELSE last + 1

(* Whatever the walk finds is a name. *)
LEMMA WalkSound ==
    ASSUME NEW buf \in NameBufs, NEW i \in 0..MAX_DNS_NAME
    PROVE  /\ NameWalk(buf)[i].r = "continue" => \E s : Labels(buf, s, NameWalk(buf)[i].offset + 1)
           /\ NameWalk(buf)[i].r = "found" => NameAt(buf, NameWalk(buf)[i].offset)
<1> DEFINE w == NameWalk(buf)
           Good(c) == /\ c.r = "continue" => \E s : Labels(buf, s, c.offset + 1)
                      /\ c.r = "found" => NameAt(buf, c.offset)
           H == {k \in Nat : k <= MAX_DNS_NAME => Good(w[k])}
<1>1. MAX_DNS_NAME \in Nat /\ Len(buf) \in Nat
  BY NameFacts
<1>2. 0 \in H
  <2>1. Labels(buf, {}, 1)
    BY DEF Labels
  <2>2. w[0].r = "continue" /\ w[0].offset + 1 = 1
    BY WalkRounds
  <2>3. Good(w[0])
    BY <2>1, <2>2
  <2> QED
    BY <2>3
<1>3. ASSUME NEW c \in Walked, Good(c) PROVE Good(NextLabel(buf, c))
  <2>1. CASE c.r # "continue"
    BY <1>3, <2>1 DEF NextLabel
  <2>2. CASE c.r = "continue"
    <3>1. PICK o \in Nat : o = c.offset
      BY DEF Walked
    <3>2. NextLabel(buf, c) = process_label(buf, o)
      BY <2>2, <3>1 DEF NextLabel
    <3>3. PICK s : Labels(buf, s, o + 1)
      BY <1>3, <2>2, <3>1
    <3>4. CASE process_label(buf, o) = [r |-> "notfound", offset |-> 0]
      BY <3>2, <3>4
    <3>5. ASSUME o <= MAX_DNS_NAME, o + 1 \in 1..Len(buf), buf[o + 1] \in 1..63,
                 o + buf[o + 1] + 1 <= Len(buf)
          PROVE  Labels(buf, s \cup {o + 1}, (o + buf[o + 1] + 1) + 1)
      <4>1. PICK p \in 1..Len(buf) : p = o + 1
        BY <3>5
      <4>2. PICK b \in 1..63 : b = buf[p]
        BY <3>5, <4>1
      <4>3. PICK q \in Nat : q = p + b + 1 /\ p < q
        BY <1>1
      <4>4. \A k \in s : k \in Nat
        <5>1. s \subseteq 1..Len(buf)
          BY <3>3 DEF Labels
        <5> QED
          BY <1>1, <5>1
      <4>5. s \cup {p} \subseteq 1..Len(buf) /\ 1 \in (s \cup {p}) \cup {q}
        BY <3>3, <4>1 DEF Labels
      <4>6. ASSUME NEW k \in s \cup {p}
            PROVE  k < q /\ buf[k] \in 1..63 /\ k + buf[k] + 1 \in (s \cup {p}) \cup {q}
        <5>1. CASE k = p
          BY <4>2, <4>3, <5>1
        <5>2. CASE k \in s
          <6>1. k < p /\ buf[k] \in 1..63 /\ k + buf[k] + 1 \in s \cup {p}
            BY <3>3, <4>1, <5>2 DEF Labels
          <6>2. k < q
            BY <1>1, <4>1, <4>3, <4>4, <5>2, <6>1
          <6> QED
            BY <6>1, <6>2
        <5> QED
          BY <5>1, <5>2
      <4>7. ASSUME NEW j \in ((s \cup {p}) \cup {q}) \ {1}
            PROVE  \E k \in s \cup {p} : k + buf[k] + 1 = j
        <5>1. CASE j = q
          BY <4>2, <4>3, <5>1
        <5>2. CASE j # q
          BY <3>3, <4>1, <5>2 DEF Labels
        <5> QED
          BY <5>1, <5>2
      <4>8. (o + buf[o + 1] + 1) + 1 = q
        <5>1. (o + b + 1) + 1 = q
          BY <4>1, <4>3
        <5>2. b = buf[o + 1]
          BY <4>1, <4>2
        <5> QED
          BY <5>1, <5>2
      <4>9. Labels(buf, s \cup {p}, q)
        BY <4>3, <4>5, <4>6, <4>7 DEF Labels
      <4> QED
        BY <4>1, <4>8, <4>9
    <3>6. ASSUME o <= MAX_DNS_NAME, o + 1 \in 1..Len(buf), buf[o + 1] = 0 \/ IsPointer(buf[o + 1])
          PROVE  NameAt(buf, IF buf[o + 1] = 0 THEN o + 1 ELSE o + 2)
      <4>1. PICK p \in 1..Len(buf) : p = o + 1
        BY <3>6
      <4>2. s \cup {p} \in SUBSET (1..Len(buf)) /\ p \in s \cup {p} /\ 1 \in s \cup {p}
        BY <3>3, <4>1 DEF Labels
      <4>3. \A k \in s \cup {p} : k <= p
        BY <1>1, <3>3, <4>1 DEF Labels
      <4>4. \A k \in (s \cup {p}) \ {p} : buf[k] \in 1..63 /\ k + buf[k] + 1 \in s \cup {p}
        BY <3>3, <4>1 DEF Labels
      <4>5. ASSUME NEW j \in (s \cup {p}) \ {1}
            PROVE  \E k \in (s \cup {p}) \ {p} : k + buf[k] + 1 = j
        <5>1. PICK k \in s : k + buf[k] + 1 = j
          BY <3>3, <4>1, <4>5 DEF Labels
        <5>2. k # p
          BY <1>1, <3>3, <4>1, <5>1 DEF Labels
        <5> QED
          BY <5>1, <5>2
      <4>6. IsName(buf, s \cup {p}, p)
        BY <3>6, <4>1, <4>2, <4>3, <4>4, <4>5 DEF IsName
      <4>7. p - 1 <= MAX_DNS_NAME /\ o + 1 = p /\ o + 2 = p + 1
        BY <3>6, <4>1
      <4> QED
        BY <4>1, <4>2, <4>6, <4>7 DEF NameAt
    <3>7. ASSUME buf[o + 1] = 0 PROVE ~IsPointer(buf[o + 1])
      BY <3>7 DEF IsPointer, DNS_NAME_COMPRESSION_LABEL
    <3>8. CASE process_label(buf, o) # [r |-> "notfound", offset |-> 0]
      <4>1. /\ o <= MAX_DNS_NAME /\ o + 1 \in 1..Len(buf)
            /\ \/ buf[o + 1] = 0 /\ process_label(buf, o) = [r |-> "found", offset |-> o + 1]
               \/ IsPointer(buf[o + 1]) /\ process_label(buf, o) = [r |-> "found", offset |-> o + 2]
               \/ /\ buf[o + 1] \in 1..63 /\ o + buf[o + 1] + 1 <= Len(buf)
                  /\ process_label(buf, o) = [r |-> "continue", offset |-> o + buf[o + 1] + 1]
        BY <3>8, LabelCases
      <4>2. CASE buf[o + 1] = 0 /\ process_label(buf, o) = [r |-> "found", offset |-> o + 1]
        <5>1. NameAt(buf, o + 1)
          BY <3>6, <4>1, <4>2
        <5> QED
          BY <3>2, <4>2, <5>1
      <4>3. CASE IsPointer(buf[o + 1]) /\ process_label(buf, o) = [r |-> "found", offset |-> o + 2]
        <5>1. NameAt(buf, o + 2)
          BY <3>6, <3>7, <4>1, <4>3
        <5> QED
          BY <3>2, <4>3, <5>1
      <4>4. CASE /\ buf[o + 1] \in 1..63 /\ o + buf[o + 1] + 1 <= Len(buf)
                 /\ process_label(buf, o) = [r |-> "continue", offset |-> o + buf[o + 1] + 1]
        <5>1. Labels(buf, s \cup {o + 1}, (o + buf[o + 1] + 1) + 1)
          BY <3>5, <4>1, <4>4
        <5> QED
          BY <3>2, <4>4, <5>1
      <4> QED
        BY <4>1, <4>2, <4>3, <4>4
    <3> QED
      BY <3>4, <3>8
  <2> QED
    BY <2>1, <2>2
<1>4. ASSUME NEW k \in Nat, k \in H PROVE k + 1 \in H
  <2> SUFFICES ASSUME k + 1 <= MAX_DNS_NAME PROVE Good(w[k + 1])
    OBVIOUS
  <2>1. k + 1 \in 1..MAX_DNS_NAME /\ (k + 1) - 1 = k /\ k \in 0..MAX_DNS_NAME /\ k <= MAX_DNS_NAME
    BY <1>1
  <2>2. Good(w[k]) /\ w[k] \in Walked /\ w[k + 1] = NextLabel(buf, w[k])
    <3>1. w[k] \in Walked /\ w[k + 1] = NextLabel(buf, w[k])
      BY <2>1, WalkRounds
    <3> HIDE DEF Good, w
    <3> QED
      BY <1>4, <2>1, <3>1
  <2> HIDE DEF Good, w
  <2> QED
    BY <1>3, <2>2
<1>5. Nat \subseteq H
  <2> HIDE DEF H
  <2> QED
    BY <1>2, <1>4, NatInduct
<1>6. i \in Nat /\ i <= MAX_DNS_NAME
  BY <1>1
<1>7. Good(w[i])
  <2> HIDE DEF Good, w
  <2> QED
    BY <1>5, <1>6
<1> QED
  BY <1>7

(* Whatever name there is, the walk finds its end. *)
LEMMA WalkComplete ==
    ASSUME NEW buf \in NameBufs, NEW s \in SUBSET (1..Len(buf)), NEW last \in 1..Len(buf),
           IsName(buf, s, last), last - 1 <= MAX_DNS_NAME
    PROVE  NameWalk(buf)[MAX_DNS_NAME]
             = [r |-> "found", offset |-> IF buf[last] = 0 THEN last ELSE last + 1]
<1> DEFINE w == NameWalk(buf)
           fin == [r |-> "found", offset |-> IF buf[last] = 0 THEN last ELSE last + 1]
           On(k, c) == \/ c.r = "continue" /\ c.offset + 1 \in s /\ c.offset >= 2 * k
                       \/ c = fin
           H == {k \in Nat : k <= MAX_DNS_NAME => On(k, w[k])}
<1>1. MAX_DNS_NAME \in Nat \ {0} /\ Len(buf) \in Nat /\ last \in Nat
  BY NameFacts
<1>2. 0 \in H
  <2>1. w[0].r = "continue" /\ w[0].offset = 0
    BY WalkRounds
  <2>2. 1 \in s
    BY DEF IsName
  <2> HIDE DEF w
  <2> QED
    BY <2>1, <2>2
<1>3. ASSUME NEW k \in Nat, NEW c \in Walked, On(k, c) PROVE On(k + 1, NextLabel(buf, c))
  <2>1. CASE c = fin
    BY <2>1 DEF NextLabel
  <2>2. CASE c.r = "continue" /\ c.offset + 1 \in s /\ c.offset >= 2 * k
    <3>1. PICK o \in Nat : o = c.offset
      BY DEF Walked
    <3>2. PICK p \in s : p = o + 1
      BY <2>2, <3>1
    <3>3. NextLabel(buf, c) = process_label(buf, o) /\ o >= 2 * k
      BY <2>2, <3>1 DEF NextLabel
    <3>4. p <= last /\ p \in 1..Len(buf) /\ o <= MAX_DNS_NAME /\ o + 1 <= Len(buf)
      BY <1>1, <3>2 DEF IsName
    <3>5. CASE p = last
      <4>1. buf[p] = 0 \/ IsPointer(buf[p])
        BY <3>5 DEF IsName
      <4>2. process_label(buf, o) = fin
        <5>1. CASE buf[p] = 0
          <6>1. ~(o > MAX_DNS_NAME \/ o + 1 > Len(buf)) /\ o + 1 = p /\ o + 0 + 1 = p
                /\ ~(0 > 63 \/ o + 0 + 1 > Len(buf)) /\ ~(0 >= 192)
            BY <1>1, <3>2, <3>4
          <6>2. process_label(buf, o) = [r |-> "found", offset |-> p]
            <7>1. process_label(buf, o) =
                    IF 0 >= 192 THEN [r |-> "found", offset |-> o + 2]
                    ELSE IF 0 > 63 \/ o + 0 + 1 > Len(buf) THEN [r |-> "notfound", offset |-> 0]
                    ELSE [r |-> IF 0 = 0 THEN "found" ELSE "continue", offset |-> o + 0 + 1]
              BY <5>1, <6>1 DEF process_label, IsPointer, PointerSize, DNS_NAME_COMPRESSION_LABEL
            <7> QED
              BY <6>1, <7>1
          <6> QED
            BY <3>5, <5>1, <6>2
        <5>2. CASE IsPointer(buf[p])
          <6>1. buf[p] # 0
            BY <5>2 DEF IsPointer, DNS_NAME_COMPRESSION_LABEL
          <6>2. process_label(buf, o) = [r |-> "found", offset |-> o + 2]
            BY <1>1, <3>2, <3>4, <5>2 DEF process_label, PointerSize
          <6> QED
            BY <3>2, <3>5, <6>1, <6>2
        <5> QED
          BY <4>1, <5>1, <5>2
      <4> QED
        BY <3>3, <4>2
    <3>6. CASE p # last
      <4>1. PICK b \in 1..63 : b = buf[p]
        BY <3>6 DEF IsName
      <4>2. p + b + 1 \in s /\ p + b + 1 <= Len(buf)
        BY <1>1, <3>4, <3>6, <4>1 DEF IsName
      <4>3. ~IsPointer(b) /\ ~(b > 63 \/ o + b + 1 > Len(buf)) /\ b # 0
        BY <1>1, <3>2, <4>2 DEF IsPointer, DNS_NAME_COMPRESSION_LABEL
      <4>4. process_label(buf, o) = [r |-> "continue", offset |-> o + b + 1]
        BY <1>1, <3>2, <3>4, <4>1, <4>3 DEF process_label
      <4>5. (o + b + 1) + 1 = p + b + 1 /\ o + b + 1 >= 2 * (k + 1)
        <5>1. o >= 2 * k
          BY <3>3
        <5> QED
          BY <3>2, <5>1
      <4> QED
        BY <3>3, <4>2, <4>4, <4>5
    <3> QED
      BY <3>5, <3>6
  <2> QED
    BY <1>3, <2>1, <2>2
<1>4. ASSUME NEW k \in Nat, k \in H PROVE k + 1 \in H
  <2> SUFFICES ASSUME k + 1 <= MAX_DNS_NAME PROVE On(k + 1, w[k + 1])
    OBVIOUS
  <2>1. k + 1 \in 1..MAX_DNS_NAME /\ (k + 1) - 1 = k /\ k \in 0..MAX_DNS_NAME /\ k <= MAX_DNS_NAME
    BY <1>1
  <2>2. On(k, w[k]) /\ w[k] \in Walked /\ w[k + 1] = NextLabel(buf, w[k])
    <3>1. w[k] \in Walked /\ w[k + 1] = NextLabel(buf, w[k])
      BY <2>1, WalkRounds
    <3> HIDE DEF On, w
    <3> QED
      BY <1>4, <2>1, <3>1
  <2> HIDE DEF On, w
  <2> QED
    BY <1>3, <2>2
<1>5. Nat \subseteq H
  <2> HIDE DEF H
  <2> QED
    BY <1>2, <1>4, NatInduct
<1>6. On(MAX_DNS_NAME, w[MAX_DNS_NAME])
  <2> HIDE DEF On, w
  <2> QED
    BY <1>1, <1>5
<1>7. ~(w[MAX_DNS_NAME].offset + 1 \in s /\ w[MAX_DNS_NAME].offset >= 2 * MAX_DNS_NAME)
  <2>1. w[MAX_DNS_NAME] \in Walked
    BY <1>1, WalkRounds
  <2>2. PICK o \in Nat : o = w[MAX_DNS_NAME].offset
    BY <2>1 DEF Walked
  <2>3. o + 1 \in s => o + 1 <= last
    BY DEF IsName
  <2> HIDE DEF w
  <2> QED
    BY <1>1, <2>2, <2>3
<1> HIDE DEF w, fin
<1> QED
  BY <1>6, <1>7 DEF w, fin

LEMMA NamesWalked == WalkAgrees
<1> SUFFICES ASSUME NEW buf \in NameBufs
             PROVE  NameEnds(buf) = IF process_dname(buf) = NotFound THEN {} ELSE {process_dname(buf)}
  BY DEF WalkAgrees
<1>1. MAX_DNS_NAME \in Nat /\ Len(buf) \in Nat
  BY NameFacts
<1>2. PICK e \in Walked : e = NameWalk(buf)[MAX_DNS_NAME]
  BY <1>1, WalkRounds
<1>3. e.offset \in Nat /\ e.r \in {"continue", "found", "notfound"}
  BY DEF Walked
<1>4. process_dname(buf) = IF e.r = "found" /\ e.offset < Len(buf) THEN e.offset ELSE NotFound
  BY <1>2 DEF process_dname
<1>5. \A end : end \in NameEnds(buf) <=> end \in 1..(Len(buf) - 1) /\ NameAt(buf, end)
  BY DEF NameEnds, NameAt
<1>6. ASSUME NEW end \in NameEnds(buf) PROVE e.r = "found" /\ e.offset = end /\ end < Len(buf)
  <2>1. end \in 1..(Len(buf) - 1) /\ NameAt(buf, end)
    BY <1>5
  <2>2. PICK s \in SUBSET (1..Len(buf)), last \in 1..Len(buf) :
          /\ IsName(buf, s, last) /\ last - 1 <= MAX_DNS_NAME
          /\ end = IF buf[last] = 0 THEN last ELSE last + 1
    BY <2>1 DEF NameAt
  <2>3. e = [r |-> "found", offset |-> end]
    BY <1>2, <2>2, WalkComplete
  <2> QED
    BY <1>1, <2>1, <2>3
<1>7. ASSUME e.r = "found", e.offset < Len(buf) PROVE e.offset \in NameEnds(buf)
  <2>1. NameAt(buf, e.offset)
    BY <1>1, <1>2, <1>7, WalkSound
  <2>2. e.offset \in 1..(Len(buf) - 1)
    BY <1>1, <1>3, <1>7, <2>1 DEF NameAt
  <2> QED
    BY <1>5, <2>1, <2>2
<1>8. NotFound \notin Nat
  BY DEF NotFound
<1>9. CASE e.r = "found" /\ e.offset < Len(buf)
  <2>1. process_dname(buf) = e.offset /\ process_dname(buf) # NotFound
    BY <1>3, <1>4, <1>8, <1>9
  <2> QED
    BY <1>6, <1>7, <1>9, <2>1
<1>10. CASE ~(e.r = "found" /\ e.offset < Len(buf))
  <2>1. process_dname(buf) = NotFound
    BY <1>4, <1>10
  <2>2. NameEnds(buf) = {}
    BY <1>6, <1>10
  <2> QED
    BY <2>1, <2>2
<1> QED
  BY <1>9, <1>10

(* process_dname finds a name exactly where one is: in every buffer, of    *)
(* any length and with any bytes, it returns the place behind the list of  *)
(* labels that starts at the first byte and is closed by an empty label or *)
(* a pointer no further than MAX_DNS_NAME, if something follows it, and    *)
(* NotFound if there is no such list (dns.h, process_dname).               *)
THEOREM NamesAreWalked == Spec => []NamesAgree
<1>1. NamesAgree
  BY NamesWalked DEF NamesAgree
<1> QED
  BY <1>1, PTL

-----------------------------------------------------------------------------
(* Internet checksums *)
M == Word - 1

LEMMA WordFacts == Word \in Nat /\ Word >= 4 /\ M \in Nat \ {0} /\ M = Word - 1
<1>1. WordBits \in Nat /\ WordBits >= 2 /\ 2 \in Nat
  BY SynCookiesAssumption
<1>2. Pow2[2] <= Pow2[WordBits]
  BY <1>1, Pow2Order
<1>3. Pow2[0] = 1 /\ Pow2[0 + 1] = 2 * Pow2[0] /\ Pow2[1 + 1] = 2 * Pow2[1]
  BY Pow2Facts
<1>4. Pow2[WordBits] \in Nat
  BY <1>1, Pow2Facts
<1> QED
  BY <1>2, <1>3, <1>4 DEF Word, M

(* Two sums with the same checksum *)
LEMMA SameOnes ==
    ASSUME NEW a \in Nat \ {0}, NEW x \in 1..M, NEW t \in Nat, a = x + M * t
    PROVE  OnesSum(a) = x
<1>1. M \in Nat \ {0} /\ Word - 1 = M
  BY WordFacts
<1>2. a - 1 \in Nat /\ x \in Nat /\ M * t \in Nat /\ t * M = M * t
  BY <1>1
<1>3. t * M <= a - 1 /\ a - 1 <= t * M + M - 1
  BY <1>1, <1>2
<1>4. (a - 1) \div M = t
  BY <1>1, <1>2, <1>3, DivUnique
<1>5. (a - 1) % M = (a - 1) - M * t
  <2>1. (a - 1) % M = (a - 1) - M * ((a - 1) \div M)
    BY <1>1, <1>2, DivFacts
  <2> QED
    BY <1>4, <2>1
<1> QED
  BY <1>1, <1>2, <1>5 DEF OnesSum

LEMMA OnesFacts ==
    ASSUME NEW a \in Nat \ {0}
    PROVE  OnesSum(a) \in 1..M /\ \E t \in Nat : a = OnesSum(a) + M * t
<1>1. M \in Nat \ {0} /\ Word - 1 = M /\ a - 1 \in Nat
  BY WordFacts
<1>2. PICK t \in Nat : t = (a - 1) \div M
  BY <1>1, DivFacts
<1>3. PICK l \in Nat : l = (a - 1) % M /\ l < M /\ l = (a - 1) - M * t
  BY <1>1, <1>2, DivFacts
<1>4. OnesSum(a) = l + 1
  BY <1>1, <1>3 DEF OnesSum
<1>5. M * t \in Nat
  BY <1>1
<1>6. a = (l + 1) + M * t
  BY <1>3, <1>5
<1> QED
  BY <1>1, <1>3, <1>4, <1>6

LEMMA SameSum ==
    ASSUME NEW a \in Nat \ {0}, NEW b \in Nat \ {0}, NEW t \in Int, a = b + M * t
    PROVE  OnesSum(a) = OnesSum(b)
<1>1. M \in Nat \ {0}
  BY WordFacts
<1>2. PICK x \in 1..M, u \in Nat : x = OnesSum(a) /\ a = x + M * u
  BY OnesFacts
<1>3. PICK y \in 1..M, v \in Nat : y = OnesSum(b) /\ b = y + M * v
  BY OnesFacts
<1>4. M * u \in Int /\ M * v \in Int /\ M * t \in Int /\ x \in Nat /\ y \in Nat
  BY <1>1
<1>5. PICK d \in Int : d = u - v - t
  OBVIOUS
<1>6. M * d = M * u - M * v - M * t
  BY <1>1, <1>5
<1>7. y - x = M * d
  BY <1>2, <1>3, <1>4, <1>6
<1>8. ~(d >= 1)
  <2> SUFFICES ASSUME d >= 1 PROVE FALSE
    OBVIOUS
  <2>1. M * d >= M
    BY <1>1
  <2> QED
    BY <1>1, <1>4, <1>7, <2>1
<1>9. ~(d <= -1)
  <2> SUFFICES ASSUME d <= -1 PROVE FALSE
    OBVIOUS
  <2>1. M * d <= -M
    BY <1>1
  <2> QED
    BY <1>1, <1>4, <1>7, <2>1
<1>10. d = 0
  BY <1>8, <1>9
<1> QED
  BY <1>1, <1>2, <1>3, <1>4, <1>7, <1>10

(* One round of folding *)
Round(v) == IF High(v) # 0 THEN Low(v) + High(v) ELSE v

LEMMA RoundFacts ==
    ASSUME NEW v \in Nat
    PROVE  /\ Round(v) \in Nat /\ (v # 0 => Round(v) # 0) /\ (v = 0 => Round(v) = 0)
           /\ \E t \in Nat : v = Round(v) + M * t
           /\ \A k \in Nat : v <= k * Word + Word - 2 => Round(v) <= k + Word - 2
<1>1. Word \in Nat /\ Word >= 4 /\ M = Word - 1
  BY WordFacts
<1>2. PICK q \in Nat : q = High(v)
  BY <1>1, DivFacts DEF High
<1>3. PICK l \in Nat : l = Low(v) /\ l < Word /\ l = v - Word * q
  <2>1. v % Word \in Nat /\ v % Word < Word /\ v % Word = v - Word * (v \div Word)
    BY <1>1, DivFacts
  <2> QED
    BY <1>2, <2>1 DEF Low, High
<1>4. Word * q \in Nat
  BY <1>1
<1>5. v = Word * q + l
  BY <1>3, <1>4
<1>6. Round(v) = q + l
  <2>1. CASE q = 0
    <3>1. Word * q = 0
      BY <1>1, <2>1
    <3> QED
      BY <1>2, <1>5, <2>1, <3>1 DEF Round
  <2>2. CASE q # 0
    BY <1>2, <1>3, <2>2 DEF Round
  <2> QED
    BY <2>1, <2>2
<1>7. v = (q + l) + M * q
  BY <1>1, <1>5
<1>8. ASSUME NEW k \in Nat, v <= k * Word + Word - 2 PROVE q + l <= k + Word - 2
  <2>1. ~(q >= k + 1)
    <3> SUFFICES ASSUME q >= k + 1 PROVE FALSE
      OBVIOUS
    <3>1. Word * q >= Word * (k + 1) /\ Word * (k + 1) = k * Word + Word
      BY <1>1
    <3> QED
      BY <1>1, <1>4, <1>5, <1>8, <3>1
  <2>2. CASE q = k
    <3>1. Word * q = k * Word /\ k * Word \in Nat
      BY <1>1, <2>2
    <3>2. l <= Word - 2
      BY <1>1, <1>5, <1>8, <3>1
    <3> QED
      BY <1>1, <2>2, <3>2
  <2>3. CASE q <= k - 1
    BY <1>1, <1>3, <2>3
  <2> QED
    BY <2>1, <2>2, <2>3
<1>9. v # 0 => q + l # 0
  <2>1. q = 0 => Word * q = 0
    BY <1>1
  <2> QED
    BY <1>5, <2>1
<1>10. v = 0 => q + l = 0
  <2>1. q >= 1 => Word * q >= Word
    BY <1>1
  <2> QED
    BY <1>1, <1>4, <1>5, <2>1
<1> QED
  BY <1>6, <1>7, <1>8, <1>9, <1>10

(* csum_fold computes the Internet checksum of four words, and a little    *)
(* beyond.                                                                 *)
LEMMA FoldIsChecksum ==
    ASSUME NEW v \in Nat, v <= Word * Word * Word * Word + Word - 2
    PROVE  csum_fold(v) = Checksum(v)
<1>1. Word \in Nat /\ Word >= 4 /\ M = Word - 1 /\ M \in Nat
  BY WordFacts
<1> DEFINE r1 == Round(v)  r2 == Round(r1)  r3 == Round(r2)  r4 == Round(r3)
<1>2. PICK w2 \in Nat : w2 = Word * Word
  BY <1>1
<1>3. PICK w3 \in Nat : w3 = w2 * Word
  BY <1>1
<1>4. v <= w3 * Word + Word - 2
  BY <1>2, <1>3
<1>5. r1 \in Nat /\ r2 \in Nat /\ r3 \in Nat /\ r4 \in Nat
  BY RoundFacts
<1>6. r1 <= w3 + Word - 2
  BY <1>4, RoundFacts
<1>7. r2 <= w2 + Word - 2
  <2>1. r1 <= w2 * Word + Word - 2
    BY <1>3, <1>6
  <2> HIDE DEF r1
  <2> QED
    BY <1>5, <2>1, RoundFacts
<1>8. r3 <= Word + Word - 2
  <2>1. r2 <= Word * Word + Word - 2
    BY <1>2, <1>7
  <2> HIDE DEF r2
  <2> QED
    BY <1>1, <1>5, <2>1, RoundFacts
<1>9. r4 <= Word - 1
  <2>1. r3 <= 1 * Word + Word - 2
    BY <1>1, <1>8
  <2> HIDE DEF r3
  <2>2. Round(r3) <= 1 + Word - 2
    BY <1>5, <2>1, RoundFacts
  <2> QED
    BY <1>1, <2>2
<1>10. csum_fold(v) = Not(Low(r4))
  BY DEF csum_fold, Round
<1>11. Low(r4) = r4
  <2> HIDE DEF r4
  <2> QED
    BY <1>1, <1>5, <1>9 DEF Low
<1>12. r4 = OnesSum(v)
  <2>1. CASE v = 0
    <3>1. r1 = 0 /\ r2 = 0 /\ r3 = 0 /\ r4 = 0
      BY <2>1, RoundFacts
    <3> QED
      BY <2>1, <3>1 DEF OnesSum
  <2>2. CASE v # 0
    <3>1. r1 # 0
      BY <2>2, RoundFacts
    <3>2. r2 # 0
      BY <1>5, <3>1, RoundFacts
    <3>3. r3 # 0
      BY <1>5, <3>2, RoundFacts
    <3>4. r4 # 0
      BY <1>5, <3>3, RoundFacts
    <3>5. PICK t1 \in Nat : v = r1 + M * t1
      BY RoundFacts
    <3>6. PICK t2 \in Nat : r1 = r2 + M * t2
      BY <1>5, RoundFacts
    <3>7. PICK t3 \in Nat : r2 = r3 + M * t3
      BY <1>5, RoundFacts
    <3>8. PICK t4 \in Nat : r3 = r4 + M * t4
      BY <1>5, RoundFacts
    <3> HIDE DEF r1, r2, r3, r4
    <3>9. PICK t \in Nat : t = t1 + t2 + t3 + t4
      OBVIOUS
    <3>10. M * t = M * t1 + M * t2 + M * t3 + M * t4
      BY <1>1, <3>9
    <3>11. M * t1 \in Nat /\ M * t2 \in Nat /\ M * t3 \in Nat /\ M * t4 \in Nat
      BY <1>1
    <3>12. v = r4 + M * t
      BY <1>5, <3>5, <3>6, <3>7, <3>8, <3>10, <3>11
    <3>13. r4 \in 1..M
      BY <1>1, <1>5, <1>9, <3>4
    <3>14. v \in Nat \ {0}
      BY <2>2
    <3> QED
      BY <3>12, <3>13, <3>14, SameOnes
  <2> QED
    BY <2>1, <2>2
<1> HIDE DEF r4
<1> QED
  BY <1>10, <1>11, <1>12 DEF Checksum

(* Replacing two words of a header (ipv4_set_ttl_csum,                     *)
(* ipv4_set_tot_len_csum), for all words.                                  *)
LEMMA ReplacedWords ==
    ASSUME NEW ttl \in 0..M, NEW len \in 0..M, NEW rest \in 0..M, NEW ttl2 \in 0..M, NEW len2 \in 0..M,
           ttl + len + rest > 0, ttl2 + len2 + rest > 0
    PROVE  csum_fold(ReplaceWord(ReplaceWord(csum_unfold(Checksum(ttl + len + rest)), ttl, ttl2),
                                 len, len2))
             = Checksum(ttl2 + len2 + rest)
<1>1. Word \in Nat /\ Word >= 4 /\ M = Word - 1 /\ M \in Nat \ {0}
  BY WordFacts
<1>2. PICK a \in Nat \ {0} : a = ttl + len + rest
  BY <1>1
<1>3. PICK b \in Nat \ {0} : b = ttl2 + len2 + rest
  BY <1>1
<1>4. PICK x \in 1..M, t \in Nat : x = OnesSum(a) /\ a = x + M * t
  BY OnesFacts
<1>5. PICK w2 \in Nat : w2 = Word * Word
  BY <1>1
<1>6. w2 - 1 = M * (Word + 1) /\ w2 >= 4 * Word
  BY <1>1, <1>5
<1>7. PICK v \in Nat : v = ((x + (w2 - 1 - ttl)) + ttl2 + (w2 - 1 - len)) + len2
  <2>1. ttl <= w2 - 1 /\ len <= w2 - 1
    BY <1>1, <1>5, <1>6
  <2> QED
    BY <1>1, <1>5, <2>1
<1>8. csum_unfold(Checksum(a)) = x
  BY <1>1, <1>4 DEF csum_unfold, Checksum, Not
<1>9. ReplaceWord(ReplaceWord(csum_unfold(Checksum(a)), ttl, ttl2), len, len2) = v
  <2>1. ReplaceWord(ReplaceWord(x, ttl, ttl2), len, len2) = v
    BY <1>1, <1>4, <1>5, <1>7 DEF ReplaceWord, NotWide
  <2> QED
    BY <1>8, <2>1
<1>10. PICK s \in Int : s = 2 * (Word + 1) - t
  BY <1>1
<1>11. M * s = 2 * (M * (Word + 1)) - M * t /\ M * t \in Nat
  BY <1>1, <1>10
<1>12. v = b + M * s
  <2>1. x = a - M * t
    BY <1>1, <1>4, <1>11
  <2>2. v = x + 2 * (w2 - 1) - ttl - len + ttl2 + len2
    BY <1>1, <1>7
  <2> QED
    BY <1>1, <1>2, <1>3, <1>6, <1>11, <2>1, <2>2
<1>13. v # 0
  BY <1>1, <1>5, <1>6, <1>7
<1>14. OnesSum(v) = OnesSum(b)
  BY <1>12, <1>13, SameSum
<1>15. v <= Word * Word * Word * Word + Word - 2
  <2>1. v <= 2 * w2 + 3 * Word
    BY <1>1, <1>7
  <2>2. PICK w3 \in Nat : w3 = w2 * Word
    BY <1>1
  <2>3. w3 >= 4 * w2 /\ w3 * Word >= 4 * w3
    BY <1>1, <1>5, <2>2
  <2>4. w3 * Word = Word * Word * Word * Word /\ w3 * Word \in Nat
    BY <1>1, <1>5, <2>2
  <2>5. v <= w3 * Word + Word - 2
    BY <1>1, <1>6, <2>1, <2>3, <2>4
  <2> QED
    BY <2>4, <2>5
<1>16. csum_fold(v) = Checksum(v)
  BY <1>15, FoldIsChecksum
<1> QED
  BY <1>2, <1>3, <1>9, <1>14, <1>16 DEF Checksum

(* The sums of double words (tcp_ipv4_csum_update, tcp_ipv6_csum_update)   *)
LEMMA SummedWords ==
    ASSUME NEW x \in Nat, x <= 10 * (Word * Word - 1)
    PROVE  LET wide == Word * Word
               once(u) == (u % wide) + (u \div wide)
           IN  csum_fold(once(once(x)) % wide) = Checksum(x)
<1>1. Word \in Nat /\ Word >= 4 /\ M = Word - 1 /\ M \in Nat \ {0}
  BY WordFacts
<1>2. PICK w2 \in Nat : w2 = Word * Word
  BY <1>1
<1>3. w2 - 1 = M * (Word + 1) /\ w2 >= 16
  BY <1>1, <1>2
<1>3a. w2 \in Nat \ {0}
  BY <1>3
<1> DEFINE once(u) == (u % w2) + (u \div w2)
<1>4. ASSUME NEW u \in Nat
      PROVE  /\ once(u) \in Nat /\ (u = 0 <=> once(u) = 0)
             /\ \E t \in Nat : u = once(u) + M * t
             /\ \E q, l \in Nat : once(u) = q + l /\ u = w2 * q + l /\ l < w2
  <2>1. PICK q \in Nat : q = u \div w2
    BY <1>3a, DivFacts
  <2>2. PICK l \in Nat : l = u % w2 /\ l < w2 /\ l = u - w2 * q
    <3>1. u % w2 \in Nat /\ u % w2 < w2 /\ u % w2 = u - w2 * (u \div w2)
      BY <1>3a, DivFacts
    <3> QED
      BY <2>1, <3>1
  <2>3. w2 * q \in Nat
    OBVIOUS
  <2>4. u = w2 * q + l
    BY <2>2, <2>3
  <2>5. once(u) = q + l
    BY <2>1, <2>2
  <2>6. PICK t \in Nat : t = (Word + 1) * q
    BY <1>1
  <2>7. M * t = (w2 - 1) * q
    BY <1>1, <1>3, <2>6
  <2>8. (w2 - 1) * q = w2 * q - q
    OBVIOUS
  <2>9. u = once(u) + M * t
    BY <2>3, <2>4, <2>5, <2>7, <2>8
  <2>10. u = 0 <=> once(u) = 0
    <3>1. q = 0 => w2 * q = 0
      OBVIOUS
    <3>2. q >= 1 => w2 * q >= w2
      OBVIOUS
    <3> QED
      BY <1>3, <2>3, <2>4, <2>5, <3>1, <3>2
  <2>11. once(u) \in Nat
    BY <2>5
  <2> HIDE DEF once
  <2>12. \E k, m \in Nat : once(u) = k + m /\ u = w2 * k + m /\ m < w2
    BY <2>2, <2>4, <2>5
  <2> QED
    BY <2>9, <2>10, <2>11, <2>12
<1>5. PICK y \in Nat : y = once(x)
  BY <1>4
<1>6. PICK z \in Nat : z = once(y)
  BY <1>4
<1>7. y <= w2 + 8
  <2>1. PICK q \in Nat, l \in Nat : y = q + l /\ x = w2 * q + l /\ l < w2
    <3> HIDE DEF once
    <3> QED
      BY <1>4, <1>5
  <2>2. ~(q >= 10)
    <3> SUFFICES ASSUME q >= 10 PROVE FALSE
      OBVIOUS
    <3>1. w2 * q >= w2 * 10
      OBVIOUS
    <3>2. x <= 10 * (w2 - 1)
      BY <1>2
    <3> QED
      BY <1>3, <2>1, <3>1, <3>2
  <2> QED
    BY <1>3, <2>1, <2>2
<1>8. z < w2
  <2>1. PICK q \in Nat, l \in Nat : z = q + l /\ y = w2 * q + l /\ l < w2
    <3> HIDE DEF once
    <3> QED
      BY <1>4, <1>6
  <2>2. CASE q = 0
    BY <2>1, <2>2
  <2>3. CASE q >= 2
    <3>1. w2 * q >= w2 * 2
      BY <2>3
    <3> QED
      BY <1>3, <1>7, <2>1, <3>1
  <2>4. CASE q = 1
    BY <1>3, <1>7, <2>1, <2>4
  <2> QED
    BY <2>2, <2>3, <2>4
<1>9. z % w2 = z
  BY <1>3, <1>8
<1>10. csum_fold(z) = Checksum(z)
  <2>1. z <= Word * Word * Word * Word + Word - 2
    <3>1. w2 * Word >= w2 /\ w2 * Word \in Nat
      BY <1>1
    <3>2. (w2 * Word) * Word >= w2 * Word /\ (w2 * Word) * Word \in Nat
      BY <1>1, <3>1
    <3>3. (w2 * Word) * Word = Word * Word * Word * Word
      BY <1>2
    <3> QED
      BY <1>1, <1>8, <3>1, <3>2, <3>3
  <2> QED
    BY <2>1, FoldIsChecksum
<1>11. OnesSum(z) = OnesSum(x)
  <2>1. CASE x = 0
    <3>1. y = 0 /\ z = 0
      <4> HIDE DEF once
      <4> QED
        BY <1>4, <1>5, <1>6, <2>1
    <3> QED
      BY <2>1, <3>1
  <2>2. CASE x # 0
    <3>1. y # 0 /\ z # 0
      <4> HIDE DEF once
      <4> QED
        BY <1>4, <1>5, <1>6, <2>2
    <3>2. PICK t \in Nat : x = y + M * t
      <4> HIDE DEF once
      <4> QED
        BY <1>4, <1>5
    <3>3. PICK u \in Nat : y = z + M * u
      <4> HIDE DEF once
      <4> QED
        BY <1>4, <1>6
    <3>4. OnesSum(x) = OnesSum(y)
      BY <2>2, <3>1, <3>2, SameSum
    <3>5. OnesSum(y) = OnesSum(z)
      BY <3>1, <3>3, SameSum
    <3> QED
      BY <3>4, <3>5
  <2> QED
    BY <2>1, <2>2
<1> QED
  BY <1>2, <1>5, <1>6, <1>9, <1>10, <1>11 DEF Checksum

LEMMA ChecksumsHold == ChecksumsAgree
<1>1. Word \in Nat /\ Word >= 4 /\ M = Word - 1 /\ M \in Nat \ {0}
  BY WordFacts
<1>2. ASSUME NEW v \in 0..(Word * Word * Word * Word - 1) PROVE csum_fold(v) = Checksum(v)
  <2>1. PICK u \in Nat : u = Word * Word * Word * Word
    BY <1>1
  <2>2. v \in Nat /\ v <= u + Word - 2
    BY <1>1, <2>1
  <2> QED
    BY <2>1, <2>2, FoldIsChecksum
<1> DEFINE Words == {0, 1, 2, Word - 2, Word - 1}
<1>3. Words \subseteq 0..M
  BY <1>1
<1>3a. \A ttl, len, rest, new_ttl, new_len \in Words :
          ttl + len + rest > 0 /\ new_ttl + new_len + rest > 0 =>
            csum_fold(ReplaceWord(ReplaceWord(csum_unfold(Checksum(ttl + len + rest)),
                                              ttl, new_ttl), len, new_len))
              = Checksum(new_ttl + new_len + rest)
  <2> HIDE DEF Words
  <2>1. \A t, l, r, t2, l2 \in 0..M : t + l + r > 0 /\ t2 + l2 + r > 0 =>
          csum_fold(ReplaceWord(ReplaceWord(csum_unfold(Checksum(t + l + r)), t, t2), l, l2))
            = Checksum(t2 + l2 + r)
    BY ReplacedWords
  <2> QED
    BY <1>3, <2>1
<1>4. ASSUME NEW csum \in Edge, NEW a \in Edge, NEW b \in Edge, NEW len \in Edge, NEW n \in {1, 4}
      PROVE  tcp_csum_update(n * a + n * b, len, csum) = Checksum(csum + n * a + n * b + len)
  <2>1. PICK w2 \in Nat : w2 = Word * Word /\ w2 >= 4 * Word /\ Word * (Word - 1) = w2 - Word
    BY <1>1
  <2>2. \A k \in Edge : k \in Nat /\ k <= w2 - 1
    BY <1>1, <2>1 DEF Edge
  <2>3. PICK x \in Nat : x = csum + (n * a + n * b) + len
    BY <2>2
  <2>4. x <= 10 * (w2 - 1) /\ x = csum + n * a + n * b + len
    BY <2>1, <2>2, <2>3
  <2>5. x <= 10 * (Word * Word - 1)
    BY <2>1, <2>4
  <2> QED
    BY <2>3, <2>4, <2>5, SummedWords DEF tcp_csum_update
<1> QED
  BY <1>2, <1>3a, <1>4 DEF ChecksumsAgree

LEMMA TsFacts ==
    /\ Pow2[TsWidth] \in Nat
    /\ \E h \in Nat \ {0, 1} : Pow2[TsWidth] = 64 * h
<1>1. TsWidth \in Nat /\ TsWidth > 6
  BY SynCookiesAssumption
<1>2. PICK n \in Nat : TsWidth = n + 6 /\ n >= 1
  <2>1. TsWidth - 6 \in Nat /\ TsWidth = (TsWidth - 6) + 6 /\ TsWidth - 6 >= 1
    BY <1>1
  <2> QED
    BY <2>1
<1>3. /\ Pow2[n] \in Nat \ {0} /\ Pow2[n + 1] = 2 * Pow2[n] /\ Pow2[(n + 1) + 1] = 2 * Pow2[n + 1]
      /\ Pow2[(n + 2) + 1] = 2 * Pow2[n + 2] /\ Pow2[(n + 3) + 1] = 2 * Pow2[n + 3]
      /\ Pow2[(n + 4) + 1] = 2 * Pow2[n + 4] /\ Pow2[(n + 5) + 1] = 2 * Pow2[n + 5]
  BY Pow2Facts
<1>4. (n + 1) + 1 = n + 2 /\ (n + 2) + 1 = n + 3 /\ (n + 3) + 1 = n + 4 /\ (n + 4) + 1 = n + 5 /\ (n + 5) + 1 = n + 6
  OBVIOUS
<1>5. Pow2[n + 6] = 64 * Pow2[n]
  BY <1>3, <1>4
<1>6. 2 * Pow2[n - 1] = Pow2[n] /\ Pow2[n - 1] \in Nat \ {0}
  <2>1. n - 1 \in Nat /\ (n - 1) + 1 = n
    BY <1>2
  <2> QED
    BY <2>1, Pow2Facts
<1> QED
  BY <1>2, <1>3, <1>5, <1>6

(* What the kernel reads back from a timestamp *)
LEMMA ReadBack ==
    ASSUME NEW z \in Nat, NEW c \in Nat, c <= 15, NEW s \in 0..1, NEW e \in 0..1, NEW ts \in Nat,
           ts = 64 * z + c + 16 * s + 32 * e
    PROVE  ts % 16 = c /\ (ts \div 16) % 2 = s /\ (ts \div 32) % 2 = e
  OBVIOUS

LEMMA TimestampsHold == CookieTsAgrees
<1> SUFFICES ASSUME NEW ts_now \in 0..(Pow2[TsWidth] - 1), NEW ws \in 0..14,
                    NEW sack \in BOOLEAN, NEW ece \in BOOLEAN
             PROVE  LET ts == tcp_syncookies_make_cookie_ts([wscale |-> ws, sack |-> sack, ts |-> 1],
                                                            ece, ts_now)
                    IN  /\ (ts_now - ts) % Pow2[TsWidth] < 2 * 64
                        /\ Decoded(ts) = [wscale |-> IF ws = 0 THEN TCPOPT_WSCALE_MASK ELSE ws,
                                          sack |-> sack, ece |-> ece]
  BY DEF CookieTsAgrees
<1>1. PICK h \in Nat \ {0, 1} : Pow2[TsWidth] = 64 * h
  BY TsFacts
<1>2. PICK P \in Nat : P = Pow2[TsWidth] /\ P = 64 * h
  BY <1>1
<1>3. PICK n \in Nat : n = ts_now /\ n < P
  BY <1>2
<1>4. PICK c \in Nat : c = (IF ws = 0 THEN 15 ELSE ws) /\ c <= 15 /\ (IF ws # 0 THEN ws % 16 ELSE 15) = c
  OBVIOUS
<1>5. PICK s \in 0..1 : 16 * s = (IF sack THEN 16 ELSE 0) /\ (s = 1 <=> sack)
  <2>1. CASE sack
    BY <2>1
  <2>2. CASE ~sack
    BY <2>2
  <2> QED
    BY <2>1, <2>2
<1>6. PICK e \in 0..1 : 32 * e = (IF ece THEN 32 ELSE 0) /\ (e = 1 <=> ece)
  <2>1. CASE ece
    BY <2>1
  <2>2. CASE ~ece
    BY <2>2
  <2> QED
    BY <2>1, <2>2
<1>7. PICK z \in Nat : z = n \div 64 /\ 64 * z <= n /\ n < 64 * z + 64
  OBVIOUS
<1>8. PICK co \in Nat : co = c + 16 * s + 32 * e /\ co <= 63
  BY <1>4
<1> DEFINE ts == tcp_syncookies_make_cookie_ts([wscale |-> ws, sack |-> sack, ts |-> 1], ece, ts_now)
<1>9. ts = IF z * 64 + co > n THEN (z * 64 + co - 64) % P ELSE z * 64 + co
  <2>1. ts = LET k == (IF ws # 0 THEN ws % 16 ELSE 15) + (IF sack THEN 16 ELSE 0) + (IF ece THEN 32 ELSE 0)
                 t == (ts_now \div 64) * 64 + k
             IN  IF t > ts_now THEN (t - 64) % P ELSE t
    BY <1>2 DEF tcp_syncookies_make_cookie_ts, TCPOPT_WSCALE_MASK
  <2>2. (IF ws # 0 THEN ws % 16 ELSE 15) + (IF sack THEN 16 ELSE 0) + (IF ece THEN 32 ELSE 0) = co
    BY <1>4, <1>5, <1>6, <1>8
  <2> QED
    BY <1>3, <1>7, <2>1, <2>2
<1>10. PICK y \in Nat : ts = 64 * y + co /\ (n - ts) % P < 128
  <2>1. CASE ~(z * 64 + co > n)
    <3>1. ts = 64 * z + co /\ n - (64 * z + co) \in 0..63
      BY <1>7, <1>9, <2>1
    <3>2. (n - (64 * z + co)) % P = n - (64 * z + co)
      <4>1. P >= 128
        BY <1>2
      <4> QED
        BY <3>1, <4>1
    <3> HIDE DEF ts
    <3> QED
      BY <3>1, <3>2
  <2>2. CASE z * 64 + co > n /\ z # 0
    <3>1. PICK y \in Nat : y = z - 1
      BY <2>2
    <3>2. z * 64 + co - 64 = 64 * y + co /\ 64 * y + co \in Nat /\ 64 * y + co < P
      BY <1>3, <1>7, <1>8, <3>1
    <3>3. ts = 64 * y + co
      <4>1. (64 * y + co) % P = 64 * y + co
        BY <3>2
      <4> QED
        BY <1>9, <2>2, <3>2, <4>1
    <3>4. PICK d \in Nat : d = n - (64 * y + co) /\ d < 128
      BY <1>7, <1>8, <2>2, <3>1
    <3>5. d % P = d
      <4>1. P >= 128
        BY <1>2
      <4> QED
        BY <3>4, <4>1
    <3> HIDE DEF ts
    <3> QED
      BY <3>3, <3>4, <3>5
  <2>3. CASE z * 64 + co > n /\ z = 0
    <3>1. PICK y \in Nat : y = h - 1
      BY <1>1
    <3>2. PICK r \in Nat : r = 64 * y + co /\ r < P
      BY <1>2, <1>8, <3>1
    <3>3. z * 64 + co - 64 = (-1) * P + r
      BY <1>2, <2>3, <3>1, <3>2
    <3>4. (z * 64 + co - 64) % P = r
      <4>1. P \in Nat \ {0} /\ z * 64 + co - 64 \in Int
        BY <1>2
      <4> QED
        BY <3>2, <3>3, <4>1, ModShift
    <3>5. ts = r
      BY <1>9, <2>3, <3>4
    <3>6. PICK d \in Nat : d = n - co + 64 /\ d < 64 /\ n - r = (-1) * P + d
      BY <1>2, <1>7, <1>8, <2>3, <3>1, <3>2
    <3>7. (n - r) % P = d
      <4>1. P \in Nat \ {0} /\ n - r \in Int /\ d < P
        BY <1>2, <3>6
      <4> QED
        BY <3>6, <4>1, ModShift
    <3> HIDE DEF ts
    <3> QED
      BY <3>2, <3>5, <3>6, <3>7
  <2> HIDE DEF ts
  <2> QED
    BY <2>1, <2>2, <2>3
<1> HIDE DEF ts
<1>11. ts % 16 = c /\ (ts \div 16) % 2 = s /\ (ts \div 32) % 2 = e
  <2>1. ts \in Nat /\ ts = 64 * y + c + 16 * s + 32 * e
    BY <1>8, <1>10
  <2> QED
    BY <1>4, <2>1, ReadBack
<1>12. Decoded(ts) = [wscale |-> c, sack |-> s = 1, ece |-> e = 1]
  BY <1>11 DEF Decoded
<1>13. Decoded(ts) = [wscale |-> IF ws = 0 THEN TCPOPT_WSCALE_MASK ELSE ws, sack |-> sack, ece |-> ece]
  <2>1. c = (IF ws = 0 THEN TCPOPT_WSCALE_MASK ELSE ws)
    BY <1>4 DEF TCPOPT_WSCALE_MASK
  <2>2. (s = 1) = sack /\ (e = 1) = ece
    BY <1>5, <1>6
  <2> QED
    BY <1>12, <2>1, <2>2
<1>14. (ts_now - ts) % Pow2[TsWidth] < 2 * 64
  <2>1. (n - ts) % P < 2 * 64
    BY <1>10
  <2> QED
    BY <1>2, <1>3, <2>1
<1> QED
  BY <1>13, <1>14 DEF ts

(* The option words never outgrow the space behind the header. *)
LEMMA OptsFit ==
    ASSUME NEW space \in Nat, NEW opts
    PROVE  Len(tcp_syncookies_write_opts(space, opts)) \in 0..space
<1>1. CASE space < 1
  BY <1>1 DEF tcp_syncookies_write_opts
<1>2. CASE space >= 1 /\ space < 2
  BY <1>2 DEF tcp_syncookies_write_opts
<1>3. CASE space >= 2 /\ space < 3
  BY <1>3 DEF tcp_syncookies_write_opts
<1>4. CASE space >= 3 /\ (opts.ts = 0 \/ space < 5)
  <2>1. CASE opts.sack
    BY <1>4, <2>1 DEF tcp_syncookies_write_opts
  <2>2. CASE ~opts.sack
    BY <1>4, <2>2 DEF tcp_syncookies_write_opts
  <2> QED
    BY <2>1, <2>2
<1>5. CASE space >= 3 /\ ~(opts.ts = 0 \/ space < 5)
  BY <1>5 DEF tcp_syncookies_write_opts
<1> QED
  BY <1>1, <1>2, <1>3, <1>4, <1>5

LEMMA LengthsHold == LengthsAgree
<1> SUFFICES ASSUME NEW doff \in 5..15, NEW pad \in 0..3, NEW sack \in BOOLEAN, NEW ts \in 0..1
             PROVE  LET r == tcp_syncookies_make_synack(doff, doff, doff + pad,
                                                        [wscale |-> 0, sack |-> sack, ts |-> ts])
                    IN  r.ok /\ r.ip_len = r.doff /\ r.ip_len <= doff + pad
  BY DEF LengthsAgree
<1> DEFINE o == [wscale |-> 0, sack |-> sack, ts |-> ts]
<1>1. PICK space \in Nat : space = (doff + pad) - 5
  OBVIOUS
<1>2. PICK l \in 0..space : l = Len(tcp_syncookies_write_opts(space, o))
  BY OptsFit
<1> DEFINE fits == 5 + l <= doff + pad
           len  == doff + ((5 + l) - doff)
           head == 5 + l
<1>3. tcp_syncookies_make_synack(doff, doff, doff + pad, o)
        = [doff |-> head, opts |-> tcp_syncookies_write_opts(space, o), ip_len |-> len, ok |-> fits]
  BY <1>1, <1>2 DEF tcp_syncookies_make_synack
<1>4. fits /\ len = head /\ head <= doff + pad
  BY <1>1, <1>2
<1> HIDE DEF fits, len, head
<1> QED
  BY <1>3, <1>4

(* The options of a SYN *)
OptState(buf) == [buf : {buf}, off : Nat, opts : [wscale : Nat, sack : BOOLEAN, ts : Nat],
                  err : {"E2BIG", "ok", "EINVAL"}, stop : BOOLEAN]

(* What an option at p adds *)
AddOpt(buf, p, opts) ==
    [wscale |-> IF buf[p] = TCPOPT_WSCALE THEN CapWscale(buf[p + 2]) ELSE opts.wscale,
     sack   |-> IF buf[p] = TCPOPT_SACK_PERM THEN TRUE ELSE opts.sack,
     ts     |-> IF buf[p] = TCPOPT_TIMESTAMP /\ opts.ts = 0 THEN buf[p + 2] ELSE opts.ts]

LEMMA PutSack ==
    ASSUME NEW w, NEW s, NEW t, NEW x, NEW s2, x = [wscale |-> w, sack |-> s, ts |-> t]
    PROVE  [x EXCEPT !.sack = s2] = [wscale |-> w, sack |-> s2, ts |-> t]
  OBVIOUS

LEMMA AreaFacts ==
    /\ TCP_OPTS_MAX \in Nat /\ TCPOPT_TIMESTAMP_SZ \in Nat /\ TCPOPT_TIMESTAMP_SZ > 2
    /\ TCPOPT_WSCALE_MAX \in Nat
    /\ \A buf \in OptAreas : /\ Len(buf) \in Nat /\ Len(buf) <= TCP_OPTS_MAX
                             /\ \A i \in 1..Len(buf) : buf[i] \in 0..255
<1>1. TCP_OPTS_MAX \in Nat /\ OptBytes \subseteq 0..255
  BY SynCookiesAssumption
<1>2. ASSUME NEW buf \in OptAreas
      PROVE  /\ Len(buf) \in Nat /\ Len(buf) <= TCP_OPTS_MAX
             /\ \A i \in 1..Len(buf) : buf[i] \in 0..255
  <2>1. PICK n \in 0..TCP_OPTS_MAX : buf \in [1..n -> OptBytes]
    BY DEF OptAreas
  <2>2. n \in Nat /\ buf \in Seq(OptBytes) /\ Len(buf) = n
    BY <1>1, <2>1
  <2>3. Len(buf) \in Nat /\ Len(buf) <= TCP_OPTS_MAX
    BY <1>1, <2>2
  <2>4. \A i \in 1..n : buf[i] \in 0..255
    BY <1>1, <2>1
  <2> QED
    BY <2>2, <2>3, <2>4
<1> QED
  BY <1>2, SynCookiesAssumption

(* A round of bpf_loop in terms of the reference *)
LEMMA OneOpt ==
    ASSUME NEW buf \in OptAreas, NEW c \in OptState(buf), ~c.stop, NEW p \in Nat, p = c.off + 1,
           NEW n \in Nat, n = Len(buf)
    PROVE  /\ p > n \/ buf[p] = TCPOPT_EOL => tcp_parse_one_opt(c) = Fail(c, "ok")
           /\ p <= n /\ buf[p] # TCPOPT_EOL /\ ~WellFormedOpt(buf, p)
                => tcp_parse_one_opt(c) = Fail(c, "EINVAL")
           /\ p <= n /\ buf[p] # TCPOPT_EOL /\ WellFormedOpt(buf, p)
                => /\ OptLen(buf, p) \in Nat \ {0} /\ p + OptLen(buf, p) <= n + 1
                   /\ buf[p] \in {TCPOPT_WSCALE, TCPOPT_TIMESTAMP} => p + 2 <= n
                   /\ tcp_parse_one_opt(c)
                        = [buf |-> buf, off |-> c.off + OptLen(buf, p),
                           opts |-> AddOpt(buf, p, c.opts), err |-> c.err, stop |-> c.stop]
<1> DEFINE o == c.off
           k == buf[p]
           l == buf[p + 1]
           v == buf[p + 2]
           skip == [c EXCEPT !.off = @ + l]
<1>1. /\ c.buf = buf /\ o \in Nat /\ c.opts \in [wscale : Nat, sack : BOOLEAN, ts : Nat]
      /\ c = [buf |-> buf, off |-> c.off, opts |-> c.opts, err |-> c.err, stop |-> c.stop]
  BY DEF OptState
<1>2. o \in Nat /\ o + 1 = p /\ o + 2 = p + 1 /\ o + 3 = p + 2
  BY <1>1
<1>3. tcp_parse_one_opt(c) =
        IF o >= n THEN Fail(c, "ok")
        ELSE IF k = 0 THEN Fail(c, "ok")
        ELSE IF k = 1 THEN [c EXCEPT !.off = @ + 1]
        ELSE IF o + 2 > n \/ l < 2 \/ o + l > n THEN Fail(c, "EINVAL")
        ELSE IF k = 3 THEN IF l # 3 THEN Fail(c, "EINVAL")
                           ELSE [skip EXCEPT !.opts.wscale = CapWscale(v)]
        ELSE IF k = 4 THEN IF l # 2 THEN Fail(c, "EINVAL") ELSE [skip EXCEPT !.opts.sack = TRUE]
        ELSE IF k = 8 THEN IF l # TCPOPT_TIMESTAMP_SZ THEN Fail(c, "EINVAL")
                           ELSE [skip EXCEPT !.opts.ts = IF @ = 0 THEN v ELSE @]
        ELSE skip
  <2>1. /\ Len(c.buf) = n /\ c.buf[c.off + 1] = k /\ c.buf[c.off + 2] = l /\ c.buf[c.off + 3] = v
    BY <1>1, <1>2
  <2> HIDE DEF k, l, v
  <2> QED
    BY <2>1 DEF tcp_parse_one_opt, TCPOPT_EOL, TCPOPT_NOP, TCPOPT_WSCALE, TCPOPT_SACK_PERM, TCPOPT_TIMESTAMP
<1>4. OptLen(buf, p) = IF k = 1 THEN 1 ELSE IF p < n THEN l ELSE 0
  BY DEF OptLen, TCPOPT_NOP
<1>5. WellFormedOpt(buf, p) <=>
        \/ k = 1
        \/ /\ OptLen(buf, p) >= 2 /\ p + OptLen(buf, p) <= n + 1
           /\ k = 3 => OptLen(buf, p) = 3
           /\ k = 4 => OptLen(buf, p) = 2
           /\ k = 8 => OptLen(buf, p) = TCPOPT_TIMESTAMP_SZ
  BY DEF WellFormedOpt, TCPOPT_NOP, TCPOPT_WSCALE, TCPOPT_SACK_PERM, TCPOPT_TIMESTAMP
<1> DEFINE L == OptLen(buf, p)
           wf == WellFormedOpt(buf, p)
           step == tcp_parse_one_opt(c)
           next == [buf |-> buf, off |-> o + L, opts |-> AddOpt(buf, p, c.opts), err |-> c.err, stop |-> c.stop]
<1>6. CASE p > n \/ k = 0
  <2>1. step = Fail(c, "ok")
    <3> HIDE DEF k, l, v, step
    <3> QED
      BY <1>1, <1>2, <1>3, <1>6 DEF step
  <2>2. p > n \/ k = TCPOPT_EOL
    BY <1>6 DEF TCPOPT_EOL
  <2>3. ~(p <= n /\ k # TCPOPT_EOL)
    <3> HIDE DEF k
    <3> QED
      BY <1>6 DEF TCPOPT_EOL
  <2> QED
    BY <2>1, <2>3, Zenon
<1>7. CASE p <= n /\ k # 0
  <2>1. k \in 0..255
    <3>1. p \in 1..n
      BY <1>1, <1>2, <1>7
    <3> QED
      BY <3>1, AreaFacts
  <2>2. p < n => l \in Nat
    <3>1. p < n => p + 1 \in 1..n
      OBVIOUS
    <3>2. p < n => l \in 0..255
      BY <3>1, AreaFacts
    <3>3. 0..255 \subseteq Nat
      OBVIOUS
    <3> QED
      BY <3>2, <3>3, Zenon
  <2>3. TCPOPT_TIMESTAMP_SZ \in Nat /\ TCPOPT_TIMESTAMP_SZ > 2
    BY AreaFacts
  <2>4. ~(p > n \/ k = TCPOPT_EOL) /\ k # TCPOPT_EOL
    <3> HIDE DEF k
    <3> QED
      BY <1>7 DEF TCPOPT_EOL
  <2>5. ASSUME ~wf PROVE step = Fail(c, "EINVAL")
    <3> HIDE DEF o, k, l, v, step, L, wf, skip
    <3>1. k # 1 /\ k # 0 /\ ~(o >= n)
      <4>1. k # 1
        BY <1>5, <2>5 DEF wf
      <4>2. ~(o >= n)
        BY <1>2, <1>7
      <4> QED
        BY <1>7, <4>1, <4>2
    <3>2. L = IF p < n THEN l ELSE 0
      BY <1>4, <3>1 DEF L
    <3>3. ~(/\ L >= 2 /\ p + L <= n + 1
            /\ k = 3 => L = 3
            /\ k = 4 => L = 2
            /\ k = 8 => L = TCPOPT_TIMESTAMP_SZ)
      BY <1>5, <2>5 DEF wf, L
    <3>4. CASE o + 2 > n \/ l < 2 \/ o + l > n
      BY <1>3, <3>1, <3>4 DEF step
    <3>5. CASE ~(o + 2 > n \/ l < 2 \/ o + l > n)
      <4>1. p < n
        BY <1>2, <3>5
      <4>2. L = l /\ l \in Nat
        <5>1. L = l
          BY <3>2, <4>1
        <5> QED
          BY <2>2, <4>1, <5>1, Zenon
      <4>3. p + l <= n + 1 /\ l >= 2
        BY <1>2, <3>5, <4>2
      <4>4. (k = 3 /\ l # 3) \/ (k = 4 /\ l # 2) \/ (k = 8 /\ l # TCPOPT_TIMESTAMP_SZ)
        BY <3>3, <4>2, <4>3
      <4>5. CASE k = 3 /\ l # 3
        BY <1>3, <3>1, <3>5, <4>5 DEF step
      <4>6. CASE k = 4 /\ l # 2
        BY <1>3, <3>1, <3>5, <4>6 DEF step
      <4>7. CASE k = 8 /\ l # TCPOPT_TIMESTAMP_SZ
        BY <1>3, <3>1, <3>5, <4>7 DEF step
      <4> QED
        BY <4>4, <4>5, <4>6, <4>7
    <3> QED
      BY <3>4, <3>5
  <2>6. ASSUME wf
        PROVE  /\ L \in Nat \ {0} /\ p + L <= n + 1 /\ (k \in {3, 8} => p + 2 <= n)
               /\ step = next
    <3> DEFINE add == AddOpt(buf, p, c.opts)
    <3>1. add = [wscale |-> IF k = 3 THEN CapWscale(v) ELSE c.opts.wscale,
                 sack   |-> IF k = 4 THEN TRUE ELSE c.opts.sack,
                 ts     |-> IF k = 8 /\ c.opts.ts = 0 THEN v ELSE c.opts.ts]
      BY DEF AddOpt, TCPOPT_WSCALE, TCPOPT_SACK_PERM, TCPOPT_TIMESTAMP
    <3>2. c.opts = [wscale |-> c.opts.wscale, sack |-> c.opts.sack, ts |-> c.opts.ts]
      BY <1>1
    <3>3. next = [buf |-> buf, off |-> o + L, opts |-> add, err |-> c.err, stop |-> c.stop]
      OBVIOUS
    <3>4. skip = [buf |-> buf, off |-> o + l, opts |-> c.opts, err |-> c.err, stop |-> c.stop]
      BY <1>1
    <3> HIDE DEF k, l, v, step, L, wf, skip, next, add
    <3>5. CASE k = 1
      <4>1. L = 1
        BY <1>4, <3>5 DEF L
      <4>2. step = [c EXCEPT !.off = @ + 1]
        BY <1>1, <1>2, <1>3, <1>7, <3>5 DEF step
      <4>3. add = c.opts
        BY <3>1, <3>2, <3>5
      <4>4. step = [buf |-> buf, off |-> o + 1, opts |-> c.opts, err |-> c.err, stop |-> c.stop]
        BY <1>1, <4>2
      <4>5. L \in Nat \ {0} /\ p + L <= n + 1 /\ k \notin {3, 8}
        BY <1>7, <3>5, <4>1
      <4> QED
        BY <3>3, <4>1, <4>3, <4>4, <4>5
    <3>6. CASE k # 1
      <4>1. L = IF p < n THEN l ELSE 0
        BY <1>4, <3>6 DEF L
      <4>2. /\ L >= 2 /\ p + L <= n + 1
            /\ k = 3 => L = 3
            /\ k = 4 => L = 2
            /\ k = 8 => L = TCPOPT_TIMESTAMP_SZ
        BY <1>5, <2>6, <3>6 DEF wf, L
      <4>3. p < n /\ L = l /\ l \in Nat
        <5>1. p < n
          BY <4>1, <4>2
        <5>2. L = l
          BY <4>1, <5>1
        <5> QED
          BY <2>2, <5>1, <5>2, Zenon
      <4>4. ~(o >= n) /\ ~(o + 2 > n \/ l < 2 \/ o + l > n)
        <5> HIDE DEF o
        <5> QED
          BY <1>2, <4>2, <4>3
      <4>5. L \in Nat \ {0} /\ p + L <= n + 1 /\ (k \in {3, 8} => p + 2 <= n)
        BY <2>3, <4>2, <4>3
      <4>6. step = IF k = 3 THEN [skip EXCEPT !.opts.wscale = CapWscale(v)]
                   ELSE IF k = 4 THEN [skip EXCEPT !.opts.sack = TRUE]
                   ELSE IF k = 8 THEN [skip EXCEPT !.opts.ts = IF @ = 0 THEN v ELSE @]
                   ELSE skip
        BY <1>3, <1>7, <3>6, <4>2, <4>3, <4>4 DEF step
      <4>7. CASE k = 3
        <5>1. step = [buf |-> buf, off |-> o + l, err |-> c.err, stop |-> c.stop,
                      opts |-> [wscale |-> CapWscale(v), sack |-> c.opts.sack, ts |-> c.opts.ts]]
          BY <3>2, <3>4, <4>6, <4>7
        <5>2. add = [wscale |-> CapWscale(v), sack |-> c.opts.sack, ts |-> c.opts.ts]
          BY <3>1, <4>7
        <5> QED
          BY <3>3, <4>3, <4>5, <5>1, <5>2
      <4>8. CASE k = 4
        <5>1. step = [buf |-> buf, off |-> o + l, err |-> c.err, stop |-> c.stop,
                      opts |-> [wscale |-> c.opts.wscale, sack |-> TRUE, ts |-> c.opts.ts]]
          <6>1. step = [skip EXCEPT !.opts = [c.opts EXCEPT !.sack = TRUE]]
            BY <3>4, <4>6, <4>8
          <6>2. [c.opts EXCEPT !.sack = TRUE]
                  = [wscale |-> c.opts.wscale, sack |-> TRUE, ts |-> c.opts.ts]
            <7> DEFINE x == c.opts  w == c.opts.wscale  q == c.opts.sack  t == c.opts.ts  yes == TRUE
            <7>1. x = [wscale |-> w, sack |-> q, ts |-> t]
              BY <3>2
            <7>2. [x EXCEPT !.sack = yes] = [wscale |-> w, sack |-> yes, ts |-> t]
              <8> HIDE DEF x, w, q, t, yes
              <8> QED
                BY <7>1, PutSack
            <7> QED
              BY <7>2
          <6> QED
            BY <3>4, <6>1, <6>2
        <5>2. add = [wscale |-> c.opts.wscale, sack |-> TRUE, ts |-> c.opts.ts]
          BY <3>1, <4>8
        <5> QED
          BY <3>3, <4>3, <4>5, <5>1, <5>2
      <4>9. CASE k = 8
        <5>1. step = [buf |-> buf, off |-> o + l, err |-> c.err, stop |-> c.stop,
                      opts |-> [wscale |-> c.opts.wscale, sack |-> c.opts.sack,
                                ts |-> IF c.opts.ts = 0 THEN v ELSE c.opts.ts]]
          BY <3>2, <3>4, <4>6, <4>9
        <5>2. add = [wscale |-> c.opts.wscale, sack |-> c.opts.sack,
                     ts |-> IF c.opts.ts = 0 THEN v ELSE c.opts.ts]
          BY <3>1, <4>9
        <5> QED
          BY <3>3, <4>3, <4>5, <5>1, <5>2
      <4>10. CASE k \notin {3, 4, 8}
        <5>1. step = skip
          BY <4>6, <4>10
        <5>2. add = c.opts
          BY <3>1, <3>2, <4>10
        <5> QED
          BY <3>3, <3>4, <4>3, <4>5, <5>1, <5>2
      <4> QED
        BY <4>7, <4>8, <4>9, <4>10
    <3> QED
      BY <3>5, <3>6
  <2>7. TCPOPT_WSCALE = 3 /\ TCPOPT_TIMESTAMP = 8
    BY DEF TCPOPT_WSCALE, TCPOPT_TIMESTAMP
  <2> QED
    BY <2>4, <2>5, <2>6, <2>7, Zenon
<1>8. (p > n \/ k = 0) \/ (p <= n /\ k # 0)
  OBVIOUS
<1> QED
  BY <1>6, <1>7, <1>8, Zenon

LEMMA FailFacts ==
    ASSUME NEW buf \in OptAreas, NEW c \in OptState(buf), NEW e \in {"ok", "EINVAL"}
    PROVE  /\ Fail(c, e) \in OptState(buf) /\ Fail(c, e).stop = TRUE /\ Fail(c, e).err = e
           /\ Fail(c, e).opts = c.opts /\ Fail(c, e).off = c.off
  BY DEF Fail, OptState

LEMMA OneOptTypes ==
    ASSUME NEW buf \in OptAreas, NEW c \in OptState(buf)
    PROVE  tcp_parse_one_opt(c) \in OptState(buf)
<1>1. CASE c.stop
  BY <1>1 DEF tcp_parse_one_opt
<1>2. CASE ~c.stop
  <2>1. PICK n \in Nat : n = Len(buf)
    BY AreaFacts
  <2>2. c.off \in Nat /\ c.opts \in [wscale : Nat, sack : BOOLEAN, ts : Nat]
        /\ c.err \in {"E2BIG", "ok", "EINVAL"} /\ c.stop \in BOOLEAN
    BY DEF OptState
  <2>3. PICK p \in Nat : p = c.off + 1
    BY <2>2
  <2>4. CASE p > n \/ buf[p] = TCPOPT_EOL
    <3>1. tcp_parse_one_opt(c) = Fail(c, "ok")
      BY <1>2, <2>1, <2>3, <2>4, OneOpt
    <3> QED
      BY <3>1, FailFacts
  <2>5. CASE p <= n /\ buf[p] # TCPOPT_EOL /\ ~WellFormedOpt(buf, p)
    <3>1. tcp_parse_one_opt(c) = Fail(c, "EINVAL")
      BY <1>2, <2>1, <2>3, <2>5, OneOpt
    <3> QED
      BY <3>1, FailFacts
  <2>6. CASE p <= n /\ buf[p] # TCPOPT_EOL /\ WellFormedOpt(buf, p)
    <3>1. /\ OptLen(buf, p) \in Nat /\ (buf[p] \in {TCPOPT_WSCALE, TCPOPT_TIMESTAMP} => p + 2 <= n)
          /\ tcp_parse_one_opt(c) = [buf |-> buf, off |-> c.off + OptLen(buf, p),
                                     opts |-> AddOpt(buf, p, c.opts), err |-> c.err, stop |-> c.stop]
      BY <1>2, <2>1, <2>3, <2>6, OneOpt
    <3>2. p + 2 <= n => buf[p + 2] \in Nat
      <4>1. p + 2 <= n => p + 2 \in 1..n
        OBVIOUS
      <4>2. p + 2 <= n => buf[p + 2] \in 0..255
        BY <2>1, <4>1, AreaFacts
      <4>3. 0..255 \subseteq Nat
        OBVIOUS
      <4> QED
        BY <4>2, <4>3, Zenon
    <3>3. buf[p] \in {TCPOPT_WSCALE, TCPOPT_TIMESTAMP} => buf[p + 2] \in Nat
      BY <3>1, <3>2, Zenon
    <3>4. \A x \in Nat : CapWscale(x) \in Nat
      BY AreaFacts DEF CapWscale
    <3>5. AddOpt(buf, p, c.opts) \in [wscale : Nat, sack : BOOLEAN, ts : Nat]
      <4>1. (IF buf[p] = TCPOPT_WSCALE THEN CapWscale(buf[p + 2]) ELSE c.opts.wscale) \in Nat
        BY <2>2, <3>3, <3>4
      <4>2. (IF buf[p] = TCPOPT_SACK_PERM THEN TRUE ELSE c.opts.sack) \in BOOLEAN
        BY <2>2
      <4>3. (IF buf[p] = TCPOPT_TIMESTAMP /\ c.opts.ts = 0 THEN buf[p + 2] ELSE c.opts.ts) \in Nat
        BY <2>2, <3>3
      <4> QED
        BY <4>1, <4>2, <4>3 DEF AddOpt
    <3>6. c.off + OptLen(buf, p) \in Nat
      BY <2>2, <3>1
    <3> QED
      BY <2>2, <3>1, <3>5, <3>6 DEF OptState
  <2>7. \/ p > n \/ buf[p] = TCPOPT_EOL
        \/ p <= n /\ buf[p] # TCPOPT_EOL
    BY <2>1, <2>3
  <2> QED
    BY <2>4, <2>5, <2>6, <2>7
<1> QED
  BY <1>1, <1>2

(* The rounds of tcp_parse_opts *)
LEMMA OptRounds ==
    ASSUME NEW buf \in OptAreas
    PROVE  /\ OptLoops \in Nat
           /\ OptLoop(buf)[0] = [buf |-> buf, off |-> 0, opts |-> NoOpts, err |-> "E2BIG", stop |-> FALSE]
           /\ \A i \in 0..OptLoops : OptLoop(buf)[i] \in OptState(buf)
           /\ \A i \in 1..OptLoops : OptLoop(buf)[i] = tcp_parse_one_opt(OptLoop(buf)[i - 1])
<1> DEFINE S == OptState(buf)
           a == [buf |-> buf, off |-> 0, opts |-> NoOpts, err |-> "E2BIG", stop |-> FALSE]
           f == [c \in S |-> tcp_parse_one_opt(c)]
           Def(g) == [i \in 0..OptLoops |-> IF i = 0 THEN a ELSE tcp_parse_one_opt(g[i - 1])]
<1>1. OptLoops \in Nat
  BY AreaFacts DEF OptLoops
<1>2. a \in S
  <2>1. NoOpts \in [wscale : Nat, sack : BOOLEAN, ts : Nat]
    BY DEF NoOpts
  <2> QED
    BY <2>1 DEF OptState
<1>3. f \in [S -> S]
  <2>1. \A c \in S : tcp_parse_one_opt(c) \in S
    BY OneOptTypes
  <2> HIDE DEF S
  <2> QED
    BY <2>1
<1>4. PICK g \in [0..OptLoops -> S] : g[0] = a /\ \A i \in 1..OptLoops : g[i] = f[g[i - 1]]
  <2> HIDE DEF a, f, S
  <2> QED
    <3>1. ASSUME NEW m \in Nat
          PROVE  \E g \in [0..m -> S] : g[0] = a /\ \A i \in 1..m : g[i] = f[g[i - 1]]
      BY <1>2, <1>3, Rounds
    <3> QED
      BY <1>1, <3>1
<1> HIDE DEF S, a
<1>5. g = Def(g)
  <2>1. ASSUME NEW i \in 1..OptLoops PROVE g[i] = tcp_parse_one_opt(g[i - 1])
    <3>1. i - 1 \in 0..OptLoops
      BY <1>1
    <3> QED
      BY <1>4, <3>1
  <2>2. ASSUME NEW i \in 0..OptLoops
        PROVE  g[i] = IF i = 0 THEN a ELSE tcp_parse_one_opt(g[i - 1])
    BY <1>1, <1>4, <2>1
  <2> QED
    BY <2>2
<1> DEFINE w == OptLoop(buf)
<1>6. w = Def(w)
  <2>1. w = CHOOSE h : h = Def(h)
    BY DEF OptLoop, a
  <2> HIDE DEF Def, w
  <2> QED
    BY <1>5, <2>1
<1> HIDE DEF w
<1>7. w[0] = a
  BY <1>1, <1>6
<1>8. \A i \in 1..OptLoops : w[i] = tcp_parse_one_opt(w[i - 1])
  BY <1>1, <1>6
<1> DEFINE Typed == {i \in Nat : i <= OptLoops => w[i] \in S}
<1>9. 0 \in Typed
  BY <1>2, <1>7
<1>10. ASSUME NEW i \in Nat, i \in Typed PROVE i + 1 \in Typed
  <2> SUFFICES ASSUME i + 1 <= OptLoops PROVE w[i + 1] \in S
    OBVIOUS
  <2>1. i + 1 \in 1..OptLoops /\ (i + 1) - 1 = i /\ i <= OptLoops
    BY <1>1
  <2>2. w[i + 1] = tcp_parse_one_opt(w[i])
    BY <1>8, <2>1
  <2> QED
    BY <1>10, <2>1, <2>2, OneOptTypes DEF S
<1>11. Nat \subseteq Typed
  <2> HIDE DEF Typed
  <2> QED
    BY <1>9, <1>10, NatInduct
<1>12. \A i \in 0..OptLoops : w[i] \in S
  BY <1>1, <1>11
<1> QED
  BY <1>1, <1>7, <1>8, <1>12 DEF w, a, S

(* In a list where every item but the first has a predecessor that ends    *)
(* where it starts, no item starts inside another.                         *)
LEMMA NoOverlap ==
    ASSUME NEW s \in SUBSET Nat, NEW L \in [s -> Nat], \A i \in s : i >= 1,
           \A j \in s \ {1} : \E i \in s : i < j /\ i + L[i] = j
    PROVE  \A i, j \in s : i < j => i + L[i] <= j
<1> DEFINE B == {i \in s : \E j \in s : i < j /\ j < i + L[i]}
<1>1. ASSUME B # {} PROVE FALSE
  <2>1. PICK i \in B : \A k \in B : i <= k
    <3>1. B \in SUBSET Nat
      OBVIOUS
    <3> HIDE DEF B
    <3> QED
      BY <1>1, <3>1, LeastNat
  <2> DEFINE J == {j \in s : i < j /\ j < i + L[i]}
  <2>2. PICK j \in J : \A k \in J : j <= k
    <3>1. J \in SUBSET Nat /\ J # {}
      BY <2>1
    <3> HIDE DEF J
    <3> QED
      BY <3>1, LeastNat
  <2>3. i \in s /\ j \in s /\ i \in Nat /\ j \in Nat /\ L[i] \in Nat /\ i < j /\ j < i + L[i] /\ j # 1
    BY <2>1, <2>2
  <2>4. PICK k \in s : k < j /\ k + L[k] = j
    BY <2>3
  <2>5. k \in Nat /\ L[k] \in Nat
    BY <2>4
  <2>6. k # i
    BY <2>3, <2>4
  <2>7. ~(k < i)
    <3> SUFFICES ASSUME k < i PROVE FALSE
      OBVIOUS
    <3>1. k \in B
      BY <2>3, <2>4
    <3> QED
      BY <2>1, <2>3, <2>5, <3>1
  <2>8. ~(i < k)
    <3> SUFFICES ASSUME i < k PROVE FALSE
      OBVIOUS
    <3>1. k \in J
      BY <2>3, <2>4, <2>5
    <3> QED
      BY <2>2, <2>3, <2>4, <2>5, <3>1
  <2> QED
    BY <2>3, <2>5, <2>6, <2>7, <2>8
<1>2. ASSUME NEW i \in s, NEW j \in s, i < j PROVE i + L[i] <= j
  <2>1. i \notin B /\ i \in Nat /\ j \in Nat /\ L[i] \in Nat
    BY <1>1
  <2> QED
    BY <1>2, <2>1
<1> QED
  BY <1>2

(* The last and the first place of a set *)
LEMMA LastOf ==
    ASSUME NEW T \in SUBSET Nat, NEW p \in Nat, \A i \in T : i < p
    PROVE  (CHOOSE i \in T \cup {p} : \A j \in T \cup {p} : j <= i) = p
<1>1. \A j \in T \cup {p} : j <= p
  OBVIOUS
<1>2. ASSUME NEW i \in T \cup {p}, \A j \in T \cup {p} : j <= i PROVE i = p
  BY <1>2
<1> QED
  BY <1>1, <1>2

LEMMA FirstOf ==
    ASSUME NEW T \in SUBSET Nat, T # {}
    PROVE  /\ (CHOOSE i \in T : \A j \in T : i <= j) \in T
           /\ \A p \in Nat : (\A i \in T : i < p) =>
                (CHOOSE i \in T \cup {p} : \A j \in T \cup {p} : i <= j)
                  = CHOOSE i \in T : \A j \in T : i <= j
<1> DEFINE m == CHOOSE i \in T : \A j \in T : i <= j
<1>1. \E i \in T : \A j \in T : i <= j
  BY LeastNat
<1>2. m \in T /\ \A j \in T : m <= j
  BY <1>1
<1> HIDE DEF m
<1>3. ASSUME NEW p \in Nat, \A i \in T : i < p
      PROVE  (CHOOSE i \in T \cup {p} : \A j \in T \cup {p} : i <= j) = m
  <2>1. m \in T \cup {p} /\ \A j \in T \cup {p} : m <= j
    BY <1>2, <1>3
  <2>2. ASSUME NEW i \in T \cup {p}, \A j \in T \cup {p} : i <= j PROVE i = m
    BY <1>2, <1>3, <2>2
  <2> QED
    BY <2>1, <2>2
<1> QED
  BY <1>2, <1>3 DEF m

(* Reading one more option *)
LEMMA MoreValues ==
    ASSUME NEW buf, NEW t \in SUBSET Nat, NEW p \in Nat, \A i \in t : i < p
    PROVE  OptValues(buf, t \cup {p}) = AddOpt(buf, p, OptValues(buf, t))
<1> DEFINE of(u, k) == {i \in u : buf[i] = k}
           last(T) == CHOOSE i \in T : \A j \in T : j <= i
           first(T) == CHOOSE i \in T : \A j \in T : i <= j
           st(u) == {i \in of(u, 8) : buf[i + 2] # 0}
           W(u) == IF of(u, 3) = {} THEN 0 ELSE CapWscale(buf[last(of(u, 3)) + 2])
           T8(u) == IF st(u) = {} THEN 0 ELSE buf[first(st(u)) + 2]
           t2 == t \cup {p}
<1>1. \A u : OptValues(buf, u) = [wscale |-> W(u), sack |-> of(u, 4) # {}, ts |-> T8(u)]
  BY DEF OptValues, TCPOPT_WSCALE, TCPOPT_SACK_PERM, TCPOPT_TIMESTAMP
<1>2. \A k : of(t2, k) = IF buf[p] = k THEN of(t, k) \cup {p} ELSE of(t, k)
  OBVIOUS
<1>3. \A k : of(t, k) \in SUBSET Nat /\ \A i \in of(t, k) : i < p
  OBVIOUS
<1>4. st(t) \in SUBSET Nat /\ \A i \in st(t) : i < p
  OBVIOUS
<1>5. W(t2) = IF buf[p] = 3 THEN CapWscale(buf[p + 2]) ELSE W(t)
  <2>1. CASE buf[p] = 3
    <3>1. of(t2, 3) = of(t, 3) \cup {p} /\ of(t2, 3) # {}
      BY <1>2, <2>1
    <3>2. last(of(t, 3) \cup {p}) = p
      <4> HIDE DEF of
      <4> QED
        BY <1>3, LastOf
    <3> HIDE DEF of, last, t2
    <3> QED
      BY <2>1, <3>1, <3>2
  <2>2. CASE buf[p] # 3
    <3>1. of(t2, 3) = of(t, 3)
      BY <1>2, <2>2
    <3> HIDE DEF of, last, t2
    <3> QED
      BY <2>2, <3>1
  <2> QED
    BY <2>1, <2>2
<1>6. (of(t2, 4) # {}) = (IF buf[p] = 4 THEN TRUE ELSE of(t, 4) # {})
  <2>1. CASE buf[p] = 4
    <3>1. of(t2, 4) # {}
      BY <1>2, <2>1
    <3> HIDE DEF of, t2
    <3> QED
      BY <2>1, <3>1
  <2>2. CASE buf[p] # 4
    <3>1. of(t2, 4) = of(t, 4)
      BY <1>2, <2>2
    <3> HIDE DEF of, t2
    <3> QED
      BY <2>2, <3>1
  <2> QED
    BY <2>1, <2>2
<1>7. T8(t) = 0 <=> st(t) = {}
  <2>1. ASSUME st(t) # {} PROVE T8(t) # 0
    <3>1. first(st(t)) \in st(t)
      <4> HIDE DEF st
      <4> QED
        BY <1>4, <2>1, FirstOf
    <3>2. buf[first(st(t)) + 2] # 0
      <4> HIDE DEF first
      <4> QED
        BY <3>1
    <3> HIDE DEF st, first
    <3> QED
      BY <2>1, <3>2
  <2>2. ASSUME st(t) = {} PROVE T8(t) = 0
    <3> HIDE DEF st, first
    <3> QED
      BY <2>2
  <2> HIDE DEF T8, st
  <2> QED
    BY <2>1, <2>2
<1>8. T8(t2) = IF buf[p] = 8 /\ T8(t) = 0 THEN buf[p + 2] ELSE T8(t)
  <2>1. CASE ~(buf[p] = 8 /\ buf[p + 2] # 0)
    <3>1. st(t2) = st(t)
      BY <2>1
    <3>2. T8(t2) = T8(t)
      <4> HIDE DEF st, first, t2
      <4> QED
        BY <3>1
    <3>3. buf[p] = 8 => buf[p + 2] = 0
      BY <2>1
    <3> HIDE DEF T8
    <3> QED
      BY <3>2, <3>3
  <2>2. CASE buf[p] = 8 /\ buf[p + 2] # 0
    <3>1. st(t2) = st(t) \cup {p}
      BY <2>2
    <3>2. CASE st(t) = {}
      <4>1. st(t2) = {p}
        BY <3>1, <3>2
      <4>2. first({p}) = p
        OBVIOUS
      <4>3. T8(t2) = buf[p + 2]
        <5> HIDE DEF st, first, t2
        <5> QED
          BY <4>1, <4>2
      <4> HIDE DEF T8, st
      <4> QED
        BY <1>7, <2>2, <3>2, <4>3
    <3>3. CASE st(t) # {}
      <4>1. first(st(t) \cup {p}) = first(st(t))
        <5> HIDE DEF st
        <5> QED
          BY <1>4, <3>3, FirstOf
      <4>2. T8(t2) = T8(t)
        <5> HIDE DEF st, first, t2
        <5> QED
          BY <3>1, <3>3, <4>1
      <4> HIDE DEF T8, st
      <4> QED
        BY <1>7, <3>3, <4>2
    <3> HIDE DEF T8, st
    <3> QED
      BY <3>2, <3>3
  <2> HIDE DEF T8
  <2> QED
    BY <2>1, <2>2
<1> HIDE DEF W, T8, of
<1>9. OptValues(buf, t) = [wscale |-> W(t), sack |-> of(t, 4) # {}, ts |-> T8(t)]
  BY <1>1
<1>10. AddOpt(buf, p, OptValues(buf, t))
         = [wscale |-> IF buf[p] = 3 THEN CapWscale(buf[p + 2]) ELSE W(t),
            sack |-> IF buf[p] = 4 THEN TRUE ELSE of(t, 4) # {},
            ts |-> IF buf[p] = 8 /\ T8(t) = 0 THEN buf[p + 2] ELSE T8(t)]
  BY <1>9 DEF AddOpt, TCPOPT_WSCALE, TCPOPT_SACK_PERM, TCPOPT_TIMESTAMP
<1>11. OptValues(buf, t2) = [wscale |-> W(t2), sack |-> of(t2, 4) # {}, ts |-> T8(t2)]
  BY <1>1
<1> QED
  BY <1>5, <1>6, <1>8, <1>10, <1>11

LEMMA NoValues == ASSUME NEW buf PROVE OptValues(buf, {}) = NoOpts
<1>1. OptValues(buf, {}) = [wscale |-> 0, sack |-> {} # {}, ts |-> 0]
  BY DEF OptValues
<1> QED
  BY <1>1 DEF NoOpts

LEMMA LoopCount == OptLoops \in Nat /\ OptLoops = TCP_OPTS_MAX + 1 /\ 0 \in 0..OptLoops /\ OptLoops \in 0..OptLoops
<1>1. OptLoops \in Nat /\ OptLoops = TCP_OPTS_MAX + 1
  BY AreaFacts DEF OptLoops
<1> QED
  BY <1>1

(* The first and the last state of the loop *)
LEMMA LoopEnds ==
    ASSUME NEW buf \in OptAreas
    PROVE  /\ OptLoop(buf)[0].stop = FALSE /\ OptLoop(buf)[0].off = 0 /\ OptLoop(buf)[0].opts = NoOpts
           /\ OptLoop(buf)[OptLoops] \in OptState(buf)
<1>1. OptLoop(buf)[0] = [buf |-> buf, off |-> 0, opts |-> NoOpts, err |-> "E2BIG", stop |-> FALSE]
  <2> HIDE DEF OptLoops
  <2> QED
    BY OptRounds, Zenon
<1>2. \A i \in 0..OptLoops : OptLoop(buf)[i] \in OptState(buf)
  BY OptRounds, Zenon
<1> QED
  BY <1>1, <1>2, LoopCount

(* Whatever list of options an area is, the loop reads its values. *)
LEMMA OptsComplete ==
    ASSUME NEW buf \in OptAreas, NEW n \in Nat, n = Len(buf), NEW s \in SUBSET (1..n),
           NEW end \in 1..(n + 1), IsOptList(buf, s, end)
    PROVE  \A i \in 0..OptLoops : OptLoop(buf)[i].stop =>
              OptLoop(buf)[i].err = "ok" /\ OptLoop(buf)[i].opts = OptValues(buf, s)
<1> DEFINE w == OptLoop(buf)
           Before(p) == {j \in s : j < p}
           On(c) == IF c.stop THEN c.err = "ok" /\ c.opts = OptValues(buf, s)
                    ELSE c.off + 1 \in s \cup {end} /\ c.opts = OptValues(buf, Before(c.off + 1))
           H == {i \in Nat : i <= OptLoops => On(w[i])}
           L == [i \in s |-> OptLen(buf, i)]
<1>1. OptLoops \in Nat /\ s \in SUBSET Nat /\ end \in Nat /\ end >= 1 /\ \A i \in s : i >= 1 /\ i <= n
  BY LoopCount
<1>2. /\ s \subseteq 1..(end - 1) /\ (s = {} <=> end = 1)
      /\ \A i \in s : buf[i] # TCPOPT_EOL /\ WellFormedOpt(buf, i)
      /\ (s # {} => 1 \in s)
      /\ \A i \in s : i + OptLen(buf, i) \in s \cup {end}
      /\ \A j \in s \ {1} : \E i \in s : i < j /\ i + OptLen(buf, i) = j
      /\ (end = n + 1 \/ buf[end] = TCPOPT_EOL)
  BY DEF IsOptList
<1>3. \A i \in s : i < end
  BY <1>1, <1>2
<1>4. ASSUME NEW c \in OptState(buf), On(c) PROVE On(tcp_parse_one_opt(c))
  <2>1. CASE c.stop
    BY <1>4, <2>1 DEF tcp_parse_one_opt
  <2>2. CASE ~c.stop
    <3>1. PICK p \in Nat : p = c.off + 1
      BY DEF OptState
    <3>2. p \in s \cup {end} /\ c.opts = OptValues(buf, Before(p))
      <4> HIDE DEF Before
      <4> QED
        BY <1>4, <2>2, <3>1
    <3>3. CASE p = end
      <4>1. p > n \/ buf[p] = TCPOPT_EOL
        BY <1>2, <3>3
      <4>2. tcp_parse_one_opt(c) = Fail(c, "ok")
        BY <2>2, <3>1, <4>1, OneOpt
      <4>3. Before(p) = s
        BY <1>3, <3>3
      <4>4. Fail(c, "ok").stop = TRUE /\ Fail(c, "ok").err = "ok" /\ Fail(c, "ok").opts = c.opts
        BY FailFacts
      <4> HIDE DEF Before
      <4> QED
        BY <3>2, <4>2, <4>3, <4>4
    <3>4. CASE p \in s
      <4>1. p <= n /\ buf[p] # TCPOPT_EOL /\ WellFormedOpt(buf, p)
        BY <1>1, <1>2, <3>4
      <4>2. \A i \in s : OptLen(buf, i) \in Nat \ {0}
        <5>1. ASSUME NEW i \in s PROVE OptLen(buf, i) \in Nat \ {0}
          <6>1. i \in Nat /\ i >= 1 /\ i - 1 \in Nat /\ (i - 1) + 1 = i
            BY <1>1
          <6> DEFINE d == [buf |-> buf, off |-> i - 1, opts |-> c.opts, err |-> c.err, stop |-> FALSE]
          <6>2. d \in OptState(buf) /\ d.stop = FALSE /\ d.off = i - 1
            BY <6>1 DEF OptState
          <6>3. i <= n /\ buf[i] # TCPOPT_EOL /\ WellFormedOpt(buf, i)
            BY <1>1, <1>2
          <6> HIDE DEF d
          <6>4. ~d.stop /\ i = d.off + 1
            BY <6>1, <6>2
          <6> QED
            BY <6>1, <6>2, <6>3, <6>4, OneOpt
        <5> QED
          BY <5>1
      <4>3. PICK l \in Nat \ {0} : l = OptLen(buf, p)
        BY <3>4, <4>2
      <4>4. tcp_parse_one_opt(c) = [buf |-> buf, off |-> c.off + l,
                                    opts |-> AddOpt(buf, p, c.opts), err |-> c.err, stop |-> c.stop]
        BY <2>2, <3>1, <4>1, <4>3, OneOpt
      <4>5. PICK q \in Nat : q = p + l /\ (c.off + l) + 1 = q
        BY <3>1 DEF OptState
      <4>6. q \in s \cup {end}
        BY <1>2, <3>4, <4>3, <4>5
      <4>7. \A i, j \in s : i < j => i + L[i] <= j
        <5>1. L \in [s -> Nat]
          BY <4>2
        <5>2. \A j \in s \ {1} : \E i \in s : i < j /\ i + L[i] = j
          BY <1>2
        <5> HIDE DEF L
        <5> QED
          BY <1>1, <5>1, <5>2, NoOverlap
      <4>8. \A j \in s : p < j => q <= j
        <5>1. L[p] = l
          BY <3>4, <4>3
        <5> HIDE DEF L
        <5> QED
          BY <3>4, <4>5, <4>7, <5>1
      <4>9. Before(q) = Before(p) \cup {p}
        <5>1. ASSUME NEW j \in s PROVE j < q <=> (j < p \/ j = p)
          BY <1>1, <4>5, <4>8
        <5> QED
          BY <3>4, <5>1
      <4>10. OptValues(buf, Before(q)) = AddOpt(buf, p, OptValues(buf, Before(p)))
        <5>1. Before(p) \in SUBSET Nat /\ \A j \in Before(p) : j < p
          BY <1>1
        <5> HIDE DEF Before
        <5> QED
          BY <4>9, <5>1, MoreValues
      <4>11. /\ tcp_parse_one_opt(c).off = c.off + l /\ tcp_parse_one_opt(c).stop = c.stop
             /\ tcp_parse_one_opt(c).opts = AddOpt(buf, p, c.opts)
        BY <4>4
      <4> HIDE DEF Before
      <4> QED
        BY <2>2, <3>2, <4>5, <4>6, <4>10, <4>11
    <3> QED
      BY <3>2, <3>3, <3>4
  <2> QED
    BY <2>1, <2>2
<1>5. 0 \in H
  <2>1. w[0].stop = FALSE /\ w[0].off + 1 = 1 /\ w[0].opts = NoOpts
    <3>1. w[0].stop = FALSE /\ w[0].off = 0 /\ w[0].opts = NoOpts
      BY LoopEnds, Zenon
    <3> HIDE DEF w
    <3> QED
      BY <3>1
  <2>2. Before(1) = {}
    <3>1. \A j \in s : j \in Nat /\ j >= 1
      BY <1>1
    <3>2. \A j \in s : ~(j < 1)
      BY <3>1
    <3> QED
      BY <3>2, Zenon
  <2>3. 1 \in s \cup {end}
    BY <1>2
  <2>4. On(w[0])
    <3> HIDE DEF w, Before
    <3> QED
      BY <2>1, <2>2, <2>3, NoValues
  <2> HIDE DEF On
  <2> QED
    BY <2>4
<1>6. ASSUME NEW i \in Nat, i \in H PROVE i + 1 \in H
  <2> SUFFICES ASSUME i + 1 <= OptLoops PROVE On(w[i + 1])
    <3> HIDE DEF On
    <3> QED
      OBVIOUS
  <2>1. i + 1 \in 1..OptLoops /\ (i + 1) - 1 = i /\ i \in 0..OptLoops /\ i <= OptLoops
    BY <1>1
  <2>2. w[i] \in OptState(buf) /\ w[i + 1] = tcp_parse_one_opt(w[i])
    BY <2>1, OptRounds
  <2> HIDE DEF On, w
  <2> QED
    BY <1>4, <1>6, <2>1, <2>2
<1>7. Nat \subseteq H
  <2> HIDE DEF H
  <2> QED
    BY <1>5, <1>6, NatInduct
<1>8. ASSUME NEW i \in 0..OptLoops PROVE On(w[i])
  <2>1. i \in Nat /\ i <= OptLoops
    BY <1>1
  <2> HIDE DEF On
  <2> QED
    BY <1>7, <2>1
<1> QED
  BY <1>8

(* The options read so far; p is the place of the next one. *)
OptPrefix(buf, s, p) ==
    /\ s \subseteq 1..(p - 1)
    /\ s = {} <=> p = 1
    /\ \A i \in s : buf[i] # TCPOPT_EOL /\ WellFormedOpt(buf, i)
    /\ s # {} => 1 \in s
    /\ \A i \in s : i + OptLen(buf, i) \in s \cup {p}
    /\ \A j \in (s \cup {p}) \ {1} : \E i \in s : i < j /\ i + OptLen(buf, i) = j

(* Where the loop finds no fault it has read a list of options. *)
LEMMA OptsSound ==
    ASSUME NEW buf \in OptAreas, NEW n \in Nat, n = Len(buf), NEW m \in 0..OptLoops
    PROVE  IF OptLoop(buf)[m].stop
           THEN \/ OptLoop(buf)[m].err = "EINVAL"
                \/ OptLoop(buf)[m].err = "ok" /\ OptLists(buf) # {}
           ELSE OptLoop(buf)[m].off >= m /\ OptLoop(buf)[m].off <= n
<1> DEFINE w == OptLoop(buf)
           On(i, c) == IF c.stop THEN c.err = "EINVAL" \/ (c.err = "ok" /\ OptLists(buf) # {})
                       ELSE /\ c.off >= i /\ c.off <= n
                            /\ \E s : OptPrefix(buf, s, c.off + 1)
           H == {i \in Nat : i <= OptLoops => On(i, w[i])}
<1>1. OptLoops \in Nat
  BY OptRounds
<1>2. ASSUME NEW i \in Nat, NEW c \in OptState(buf), On(i, c) PROVE On(i + 1, tcp_parse_one_opt(c))
  <2>1. CASE c.stop
    BY <1>2, <2>1 DEF tcp_parse_one_opt
  <2>2. CASE ~c.stop
    <3>1. c.off \in Nat /\ c.stop = FALSE
      BY <2>2 DEF OptState
    <3>2. PICK p \in Nat : p = c.off + 1 /\ p >= 1 /\ p >= i + 1 /\ p <= n + 1
      BY <1>2, <2>2, <3>1
    <3>3. PICK s : OptPrefix(buf, s, p)
      BY <1>2, <2>2, <3>2
    <3>4. CASE p > n \/ buf[p] = TCPOPT_EOL
      <4>1. tcp_parse_one_opt(c) = Fail(c, "ok")
        BY <2>2, <3>2, <3>4, OneOpt
      <4>2. p = n + 1 \/ buf[p] = TCPOPT_EOL
        BY <3>2, <3>4
      <4>3. IsOptList(buf, s, p)
        BY <3>3, <4>2 DEF IsOptList, OptPrefix
      <4>4. s \in SUBSET (1..n) /\ p \in 1..(n + 1)
        <5>1. s \subseteq 1..(p - 1)
          BY <3>3 DEF OptPrefix
        <5> QED
          BY <3>2, <5>1
      <4>5. s \in OptLists(buf)
        BY <4>3, <4>4 DEF OptLists
      <4>6. Fail(c, "ok").stop = TRUE /\ Fail(c, "ok").err = "ok"
        BY FailFacts
      <4> QED
        BY <4>1, <4>5, <4>6
    <3>5. CASE p <= n /\ buf[p] # TCPOPT_EOL /\ ~WellFormedOpt(buf, p)
      <4>1. tcp_parse_one_opt(c) = Fail(c, "EINVAL")
        BY <2>2, <3>2, <3>5, OneOpt
      <4>2. Fail(c, "EINVAL").stop = TRUE /\ Fail(c, "EINVAL").err = "EINVAL"
        BY FailFacts
      <4> QED
        BY <4>1, <4>2
    <3>6. CASE p <= n /\ buf[p] # TCPOPT_EOL /\ WellFormedOpt(buf, p)
      <4>1. PICK l \in Nat \ {0} : l = OptLen(buf, p) /\ p + l <= n + 1
        BY <2>2, <3>2, <3>6, OneOpt
      <4>2. tcp_parse_one_opt(c) = [buf |-> buf, off |-> c.off + l,
                                    opts |-> AddOpt(buf, p, c.opts), err |-> c.err, stop |-> c.stop]
        BY <2>2, <3>2, <3>6, <4>1, OneOpt
      <4>3. tcp_parse_one_opt(c).off = c.off + l /\ tcp_parse_one_opt(c).stop = c.stop
        BY <4>2
      <4>4. PICK q \in Nat : q = p + l /\ (c.off + l) + 1 = q /\ c.off + l >= i + 1 /\ c.off + l <= n
        BY <3>1, <3>2, <4>1
      <4> DEFINE t == s \cup {p}
      <4>5. \A j \in s : j \in Nat /\ j >= 1 /\ j < p
        <5>1. s \subseteq 1..(p - 1)
          BY <3>3 DEF OptPrefix
        <5> QED
          BY <5>1
      <4>6. t \subseteq 1..(q - 1)
        BY <3>2, <4>1, <4>4, <4>5
      <4>7. t # {} /\ q # 1
        BY <3>2, <4>1, <4>4
      <4>8. \A j \in t : buf[j] # TCPOPT_EOL /\ WellFormedOpt(buf, j)
        BY <3>3, <3>6 DEF OptPrefix
      <4>9. 1 \in t
        BY <3>3 DEF OptPrefix
      <4>10. \A j \in t : j + OptLen(buf, j) \in t \cup {q}
        BY <3>3, <4>1, <4>4 DEF OptPrefix
      <4>11. ASSUME NEW j \in (t \cup {q}) \ {1} PROVE \E k \in t : k < j /\ k + OptLen(buf, k) = j
        <5>1. CASE j \in t
          BY <3>3, <4>11, <5>1 DEF OptPrefix
        <5>2. CASE j = q
          <6>1. p < q /\ p + OptLen(buf, p) = q
            BY <4>1, <4>4
          <6> QED
            BY <5>2, <6>1
        <5> QED
          BY <5>1, <5>2
      <4>12. OptPrefix(buf, t, q)
        <5> HIDE DEF t
        <5> QED
          BY <4>6, <4>7, <4>8, <4>9, <4>10, <4>11 DEF OptPrefix
      <4>13. \E u : OptPrefix(buf, u, q)
        <5> HIDE DEF t
        <5> QED
          BY <4>12
      <4> HIDE DEF t
      <4> QED
        BY <3>1, <4>3, <4>4, <4>13
    <3>7. \/ p > n \/ buf[p] = TCPOPT_EOL
          \/ p <= n /\ buf[p] # TCPOPT_EOL
      BY <3>2
    <3> HIDE DEF On
    <3> QED
      BY <3>4, <3>5, <3>6, <3>7
  <2> QED
    BY <2>1, <2>2
<1>3. 0 \in H
  <2>1. w[0].stop = FALSE /\ w[0].off = 0 /\ w[0].off + 1 = 1
    <3>1. w[0].stop = FALSE /\ w[0].off = 0
      BY LoopEnds, Zenon
    <3> HIDE DEF w
    <3> QED
      BY <3>1
  <2>2. OptPrefix(buf, {}, 1)
    BY DEF OptPrefix
  <2>3. On(0, w[0])
    <3> HIDE DEF w
    <3> QED
      BY <2>1, <2>2
  <2> HIDE DEF On
  <2> QED
    BY <2>3
<1>4. ASSUME NEW i \in Nat, i \in H PROVE i + 1 \in H
  <2> SUFFICES ASSUME i + 1 <= OptLoops PROVE On(i + 1, w[i + 1])
    <3> HIDE DEF On
    <3> QED
      OBVIOUS
  <2>1. i + 1 \in 1..OptLoops /\ (i + 1) - 1 = i /\ i \in 0..OptLoops /\ i <= OptLoops
    BY <1>1
  <2>2. w[i] \in OptState(buf) /\ w[i + 1] = tcp_parse_one_opt(w[i])
    BY <2>1, OptRounds
  <2> HIDE DEF On, w
  <2> QED
    BY <1>2, <1>4, <2>1, <2>2
<1>5. Nat \subseteq H
  <2> HIDE DEF H
  <2> QED
    BY <1>3, <1>4, NatInduct
<1>6. On(m, w[m])
  <2>1. m \in Nat /\ m <= OptLoops
    BY <1>1
  <2> HIDE DEF On
  <2> QED
    BY <1>5, <2>1
<1> QED
  BY <1>6

LEMMA OptionsHold == OptionsAgree
<1> SUFFICES ASSUME NEW buf \in OptAreas
             PROVE  LET r == tcp_parse_opts(buf)
                    IN  IF OptLists(buf) = {} THEN r.err = "EINVAL"
                        ELSE r.err = "ok" /\ \A s \in OptLists(buf) : r.opts = OptValues(buf, s)
  BY DEF OptionsAgree
<1>1. PICK n \in Nat : n = Len(buf) /\ n <= TCP_OPTS_MAX
  BY AreaFacts
<1>2. PICK e \in OptState(buf) : e = OptLoop(buf)[OptLoops]
  BY LoopEnds
<1>3. tcp_parse_opts(buf) = [err |-> e.err, opts |-> e.opts]
  <2>1. ~(Len(buf) > TCP_OPTS_MAX)
    BY <1>1, AreaFacts
  <2> QED
    BY <1>2, <2>1 DEF tcp_parse_opts
<1>4. e.stop /\ (e.err = "EINVAL" \/ (e.err = "ok" /\ OptLists(buf) # {}))
  <2>1. OptLoops \in Nat /\ OptLoops \in 0..OptLoops /\ OptLoops = TCP_OPTS_MAX + 1 /\ TCP_OPTS_MAX \in Nat
    BY LoopCount, AreaFacts
  <2>2. IF e.stop THEN e.err = "EINVAL" \/ (e.err = "ok" /\ OptLists(buf) # {})
        ELSE e.off >= OptLoops /\ e.off <= n
    BY <1>1, <1>2, <2>1, OptsSound
  <2>3. e.off \in Nat /\ e.stop \in BOOLEAN
    BY DEF OptState
  <2>4. ~(e.off >= OptLoops /\ e.off <= n)
    BY <1>1, <2>1, <2>3
  <2> QED
    BY <2>2, <2>3, <2>4
<1>5. ASSUME NEW s \in OptLists(buf) PROVE e.err = "ok" /\ e.opts = OptValues(buf, s)
  <2>1. PICK end \in 1..(n + 1) : IsOptList(buf, s, end)
    BY <1>1 DEF OptLists
  <2>2. s \in SUBSET (1..n)
    BY <1>1 DEF OptLists
  <2>3. OptLoops \in 0..OptLoops
    BY LoopCount
  <2> QED
    BY <1>1, <1>2, <1>4, <2>1, <2>2, <2>3, OptsComplete
<1> QED
  BY <1>3, <1>4, <1>5

(* A cookie is answered by a well formed packet, for every word width and  *)
(* every option area: the options are those the area lists, or the SYN is  *)
(* refused where it lists none; the folded and the incrementally changed   *)
(* sums are checksums of what is sent; the timestamp gives the options     *)
(* back and is less than two units of 64 in the past; the packet is as     *)
(* long as it says and fits its frame (tcp_syncookies.h).                  *)
THEOREM SynAcksAreWellFormed == Spec => []SynAckWellFormed
<1>1. SynAckAgrees
  BY OptionsHold, ChecksumsHold, TimestampsHold, LengthsHold DEF SynAckAgrees
<1>2. SynAckWellFormed
  BY <1>1 DEF SynAckWellFormed
<1> QED
  BY <1>2, PTL
=============================================================================
