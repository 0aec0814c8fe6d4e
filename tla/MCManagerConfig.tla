--------------------------- MODULE MCManagerConfig ---------------------------
(***************************************************************************)
(* Texts and databases for ManagerConfig.  Every kind of section occurs,   *)
(* with each edit it knows, and texts the parser or the updater refuses.   *)
(***************************************************************************)
EXTENDS ManagerConfig

Edit(v)     == <<[t |-> "edit", v |-> v]>>
Attribute(k, v) == <<[t |-> "attr", k |-> k, v |-> v]>>
Colon       == <<[t |-> ":"]>>
Do(v, limit) == Colon \o <<[t |-> "action", v |-> v, ratelimit |-> limit]>>
Allow       == Do("allow", {})
Deny        == Do("block", {})
Limited(name) == Do("ratelimit", {name})
Semi        == <<[t |-> ";"]>>
Block(items) == <<[t |-> "{"]>> \o [i \in DOMAIN items |-> [t |-> "item", v |-> items[i]]] \o <<[t |-> "}"]>>
Sec(name, alias, toks) == <<[name |-> name, alias |-> alias, toks |-> toks]>>

Ip4(a, mask, port) == [m |-> "ip", ip6 |-> FALSE, addr |-> a, mask |-> mask, port |-> port]
Ip6(a, mask, port) == [m |-> "ip", ip6 |-> TRUE, addr |-> a, mask |-> mask, port |-> port]
Geo(code)          == [m |-> "geo", code |-> code, port |-> {}]
PortRange(from, to) == [m |-> "port", from |-> from, to |-> to]

Udp4 == Attribute("ip4.udp", 0)
Tcp4 == Attribute("ip4.tcp", 0)
Udp6 == Attribute("ip6.udp", 0)

MCTexts == {
    \* named limits
    Sec("ratelimit", "r", Attribute("pps", 5) \o Semi),
    Sec("ratelimit", "r", Attribute("pps", 5) \o Attribute("bps", 9) \o Semi),
    Sec("ratelimit", "r", Edit("del") \o Semi),
    \* source rules: a network, a country, both, edits
    Sec("ratelimit", "r", Attribute("pps", 5) \o Semi)
        \o Sec("src", "a", Udp4 \o Limited("r") \o Block(<<Ip4(4, {}, {}), Ip4(0, {1}, {})>>)),
    Sec("src", "b", Udp4 \o Allow \o Block(<<Geo("DE")>>)),
    Sec("src", "c", Udp4 \o Deny \o Block(<<Geo("FR"), Ip4(6, {2}, {})>>)),
    Sec("src", "b", Edit("add") \o Udp4 \o Block(<<Geo("fr"), Ip4(6, {2}, {})>>)),
    Sec("src", "c", Edit("add") \o Udp4 \o Block(<<Ip4(7, {2}, {})>>)),     \* a host bit
    Sec("src", "b", Edit("del") \o Udp4 \o Block(<<Geo("DE")>>)),
    Sec("src", "a", Edit("del") \o Udp4 \o Block(<<Ip4(4, {}, {})>>)),
    Sec("src", "a", Edit("del") \o Semi),
    Sec("src", "a", Tcp4 \o Allow \o Semi),
    Sec("src", "", Udp6 \o Deny \o Block(<<Geo("de"), Ip6(12, {2}, {})>>)),
    Sec("src", "a", Deny \o Block(<<PortRange(1, {3}), PortRange(4, {})>>)),
    Sec("src", "a", Edit("del") \o Block(<<PortRange(2, {3})>>)),
    \* destination rules, protected networks, ICMP
    Sec("dst", "d", Tcp4 \o Limited("r") \o Block(<<Ip4(1, {}, {2})>>)),
    Sec("dst", "e", Tcp4 \o Allow \o Block(<<Ip4(1, {}, {2}), Ip4(1, {}, {3})>>)),
    Sec("net", "n", Attribute("ip4", 0) \o Block(<<Ip4(4, {1}, {})>>)),
    Sec("net", "o", Attribute("ip4", 0) \o Block(<<Ip4(4, {1}, {}), Ip4(0, {1}, {})>>)),
    Sec("icmp", "i", Attribute("ip4", 0) \o Allow \o Block(<<0, 8>>)),
    Sec("icmp", "i", Edit("del") \o Attribute("ip4", 0) \o Block(<<8>>)),
    Sec("icmp", "", Attribute("ip6", 0) \o Deny \o Block(<<8>>)),
    \* filters and defaults
    Sec("defaults", "", Block(<<Sec("src_ip", "", Attribute("ip4", 0) \o Deny \o Semi)[1],
                                Sec("icmp_default", "", Limited("r") \o Semi)[1]>>)),
    Sec("tcp_flags", "", Limited("r") \o Semi),
    Sec("tcp_flags", "", Edit("del") \o Attribute("syn", 0) \o Semi),
    Sec("dns_filter", "", Semi) \o Sec("tcp_auth_filter", "", Semi),
    Sec("dns_filter", "", Edit("del") \o Semi) \o Sec("evaluation_mode", "", Semi),
    Sec("tcp_syncookies", "", Attribute("flood_timer", 3) \o Semi),
    Sec("tcp_syncookies", "", Edit("del") \o Semi),
    Sec("tcp_anomaly_filter", "", Attribute("syn_with_seqno", 1) \o Attribute("bad_flags", {}) \o Semi),
    Sec("tcp_anomaly_filter", "", Edit("del") \o Semi),
    Sec("ip_proto", "", Block(<<6, 17>>)),
    Sec("ip_proto", "", Edit("del") \o Semi),
    \* refused: by the parser, by the updater
    Sec("src", "x", Udp4 \o Allow \o Block(<<Ip4(0, {4}, {})>>)),
    Sec("src", "x", Edit("add") \o Udp4 \o Allow \o Block(<<Ip4(0, {}, {})>>)),
    Sec("src", "x", Udp4 \o Allow \o Block(<<Ip4(0, {}, {}), Ip4(0, {}, {})>>)),
    Sec("ratelimit", "s", Semi),
    Sec("tcp_auth_filter", "", Edit("add") \o Semi)}

MCAliasRank == [a \in {"a", "b", "c", "ip6.udp"} |->
                  CASE a = "a" -> 1 [] a = "b" -> 2 [] a = "c" -> 3 [] OTHER -> 4]

-----------------------------------------------------------------------------
DE == Data({"de"}, {})
FR == Data({}, {"fr"})

(* Databases are written as trees; V4 stands for the IPv4 subtree.  Nodes  *)
(* are numbered like those of a heap, the subtree's from V4Base.           *)
V4         == [type |-> "v4"]
Node(l, r) == [type |-> "node", left |-> l, right |-> r]
V4Base     == 32

RECURSIVE At(_, _)
At(tree, i) ==
    LET up == At(tree, (i - 1) \div 2) IN
    IF i = 0 THEN tree
    ELSE IF up.type # "node" THEN NoRecord
    ELSE IF i % 2 = 1 THEN up.left ELSE up.right
Numbered(tree, base, v4) ==
    LET Ref(i) == LET r == At(tree, i) IN
                  IF r.type = "node" THEN Child(base + i)
                  ELSE IF r.type # "v4" THEN r
                  ELSE IF v4.type = "node" THEN Child(V4Base) ELSE v4
    IN  [n \in {base + i : i \in {j \in 0..(V4Base - 1) : At(tree, j).type = "node"}} |->
            [left |-> Ref(2 * (n - base) + 1), right |-> Ref(2 * (n - base) + 2)]]
Db4(root)     == [version |-> 4, nodes |-> Numbered(root, 0, NoRecord)]
Db6(root, v4) == [version |-> 6, nodes |-> Numbered(root, 0, v4) @@ Numbered(v4, V4Base, NoRecord)]

(* The databases requests are served with: a country in pieces, the IPv4   *)
(* subtree aliased, malformed data, a cycle.                               *)
First  == Db6(Node(V4, Node(DE, Node(V4, Data({"fr"}, {"de"})))),
              Node(Node(DE, FR), Node(FR, Node(DE, DE))))
Second == Db4(Node(NoRecord, Node(FR, DE)))
NoData == Db4(Node(NoRecord, NoRecord))
Cyclic == [version |-> 4, nodes |-> [n \in {0} |-> [left |-> Child(0), right |-> DE]]]
MCDatabase == {First, Second, Cyclic, Db4(Node(DE, Bad)), Db6(Node(NoRecord, NoRecord), NoRecord)}

(* Every search tree up to the width of IPv4, and IPv6 trees around some   *)
(* of them.                                                                *)
Deeper(trees) == trees \cup {Node(l, r) : l, r \in trees}
Leaves  == {NoRecord, DE, FR}
Trees1  == Leaves \cup {Data({}, {}), Data({"fr"}, {"de"})}
Depth2  == Deeper(Deeper(Leaves))
Depth3  == {Node(l, r) : l, r \in Depth2}
EveryDatabase ==
    {Db4(root) : root \in {t \in Depth2 \cup Depth3 \cup Deeper(Trees1) : t.type = "node"}}
    \cup {Db6(Node(V4, right), v4) : right \in Deeper(Deeper({V4, DE, FR})), v4 \in Deeper(Leaves)}
    \cup {Db6(Node(left, FR), DE) : left \in Trees1 \cup {Bad}}
=============================================================================
