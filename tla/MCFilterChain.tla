--------------------------- MODULE MCFilterChain ----------------------------
(* Settings of FilterChain for TLC.                                        *)
(*   Policy: one CPU, every kind of packet, rules of every action, changed *)
(*     under the packet at any point;                                      *)
(*   Cookies: handshakes on one CPU with SYN cookies, with and without the *)
(*     authentication filter, through the start and end of flood mode;     *)
(*   Race: the packets of a handshake racing on two CPUs;                  *)
(*   Dns: queries and answers racing on two CPUs with a map of one id.     *)
EXTENDS FilterChain
CONSTANTS p1, c1, c2

NoDns == [hdr |-> TRUE, qr |-> "query", id |-> "i1", opcode |-> "QUERY", rcode |-> "OK",
          qdcount |-> 1, ancount |-> 0, nscount |-> 0, arcount |-> 0,
          question |-> TRUE, ixfr |-> FALSE, large |-> FALSE, answers |-> <<>>]
Syn0 == [dir |-> "in", tags |-> 0, l3 |-> "ip4", broken |-> "no", frag |-> FALSE, ext |-> <<>>,
         proto |-> "tcp", kind |-> "syn", peer |-> p1, anomalies |-> {}, protected |-> FALSE,
         dns |-> NoDns]
Tcp(kind)  == [Syn0 EXCEPT !.kind = kind]
Out(p)     == [p EXCEPT !.dir = "out"]
Udp(kind)  == [Syn0 EXCEPT !.proto = "udp", !.kind = kind]
Query(m)   == [Udp("query") EXCEPT !.dns = m]
Answer(i)  == [Udp("answer") EXCEPT !.dns = [NoDns EXCEPT !.qr = "response", !.id = i,
                                                        !.ancount = 1, !.answers = <<1>>]]

Cfg0 == [active |-> TRUE, eval |-> FALSE, protos |-> {"tcp", "udp", "icmp", "gre"},
         anomaly |-> [on |-> FALSE, syn |-> {}], flag_limits |-> {},
         src_ip |-> [p \in {p1} |-> "none"], src_ip_default |-> "allow",
         src_port |-> [p \in {p1} |-> "none"], src_port_default |-> "allow",
         icmp |-> "none", icmp_default |-> "allow",
         dst |-> [p \in {p1} |-> "none"], dst_default |-> "allow",
         auth |-> FALSE, dns |-> FALSE,
         ck |-> [on |-> FALSE, flood |-> 0, passive |-> 0]]

PolicyPackets ==
    {Tcp(k) : k \in {"syn", "synack", "data", "noflags", "fin", "rst"}}
    \cup {[Syn0 EXCEPT !.broken = b] : b \in {"eth", "l3", "l4"}}
    \cup {[Syn0 EXCEPT !.anomalies = {a}] : a \in {"bad flags", "zero port", "no options"}}
    \cup {[Syn0 EXCEPT !.tags = 3], [Syn0 EXCEPT !.frag = TRUE],
          [Syn0 EXCEPT !.l3 = "arp", !.proto = "none"], [Syn0 EXCEPT !.l3 = "other"],
          [Syn0 EXCEPT !.l3 = "ip6", !.ext = <<"hopopts">>],
          [Syn0 EXCEPT !.l3 = "ip6", !.ext = <<"hopopts", "fragment">>, !.frag = TRUE],
          [Syn0 EXCEPT !.l3 = "ip6", !.ext = [i \in 1..6 |-> "dstopts"]],
          [Syn0 EXCEPT !.proto = "icmp", !.kind = "plain"],
          [Syn0 EXCEPT !.proto = "gre", !.kind = "plain"],
          [Syn0 EXCEPT !.proto = "esp", !.kind = "plain"],
          Udp("plain"), [Udp("plain") EXCEPT !.anomalies = {"zero port"}],
          Query([NoDns EXCEPT !.nscount = 1]), Query([NoDns EXCEPT !.hdr = FALSE]), Answer("i1"),
          Out([Syn0 EXCEPT !.protected = TRUE]), Out(Tcp("data")), Out(Udp("plain")),
          Out([Syn0 EXCEPT !.broken = "l4"])}

PolicyCfgs ==
    {[Cfg0 EXCEPT !.active = FALSE],
     [Cfg0 EXCEPT !.auth = TRUE, !.anomaly = [on |-> TRUE, syn |-> {"no options"}],
                  !.icmp_default = "block", !.dns = TRUE],
     [Cfg0 EXCEPT !.eval = TRUE, !.auth = TRUE, !.dst_default = "block", !.dns = TRUE],
     [Cfg0 EXCEPT !.src_ip = [p \in {p1} |-> "allow"], !.dst_default = "block", !.auth = TRUE,
                  !.dns = TRUE],
     [Cfg0 EXCEPT !.src_ip = [p \in {p1} |-> "limit"], !.src_port = [p \in {p1} |-> "allow"],
                  !.dst = [p \in {p1} |-> "block"], !.icmp = "limit", !.flag_limits = {"syn", "rst"}],
     [Cfg0 EXCEPT !.src_ip_default = "block", !.protos = {"tcp", "icmp"}],
     [Cfg0 EXCEPT !.src_port_default = "block", !.dst_default = "limit"]}

Policy == [cpus |-> {c1}, peers |-> {p1}, host |-> TRUE, dns_mode |-> TRUE, dns_cap |-> 1,
           last |-> 0, listening |-> {p1}, packets |-> PolicyPackets, cfgs |-> PolicyCfgs]

CookieCfgs ==
    LET ck == [on |-> TRUE, flood |-> 1, passive |-> 2]
    IN  {[Cfg0 EXCEPT !.auth = TRUE, !.ck = ck], [Cfg0 EXCEPT !.ck = ck], [Cfg0 EXCEPT !.auth = TRUE]}

Cookies == [cpus |-> {c1}, peers |-> {p1}, host |-> TRUE, dns_mode |-> FALSE, dns_cap |-> 1,
            last |-> 3, listening |-> {p1}, cfgs |-> CookieCfgs,
            packets |-> {Tcp(k) : k \in {"syn", "ack", "data", "rst", "fin"}}
                        \cup {Out(Tcp(k)) : k \in {"synack", "rst", "data"}}]

Race == [Cookies EXCEPT !.cpus = {c1, c2}, !.last = 0,
                        !.packets = {Syn0, Tcp("ack"), Tcp("rst"), Out(Tcp("synack"))}]

Dns == [cpus |-> {c1, c2}, peers |-> {p1}, host |-> FALSE, dns_mode |-> TRUE, dns_cap |-> 1,
        last |-> 0, listening |-> {}, cfgs |-> {[Cfg0 EXCEPT !.dns = TRUE], Cfg0},
        packets |-> {Answer("i1"), Answer("i2"), [Answer("i1") EXCEPT !.dns.answers = <<0>>],
                     Query(NoDns), Out(Query(NoDns)), Out(Query([NoDns EXCEPT !.id = "i2"])),
                     Out(Answer("i1"))}]

MCSetting == {Policy, Cookies, Race, Dns}
=============================================================================
