-------------------------------- MODULE GeoIp --------------------------------
(***************************************************************************)
(* The GeoIP importer (manager/xfw/geoip.cc): Country2IpMap::reload walks  *)
(* the search tree of a MaxMind database and turns its leaves into the     *)
(* prefixes of each country, joining siblings of one country into their    *)
(* parent.  Addresses are W4 and W6 bits wide; the IPv4 subtree hangs      *)
(* V4Depth zero bits below the root of an IPv6 tree (96 in a real one) and *)
(* may be aliased elsewhere in it.                                         *)
(*                                                                         *)
(* A database has numbered search nodes, 0 the root, of two records each.  *)
(* A record is empty, data, malformed ("bad") or the number of a node.     *)
(* Malformed data makes the import throw.  An optional value is a set of   *)
(* at most one element.                                                    *)
(***************************************************************************)
EXTENDS Powers, Sequences, FiniteSets, SequencesExt

CONSTANTS W4, W6, V4Depth
ASSUME GeoIpAssumption == W4 \in Nat /\ W6 \in Nat /\ V4Depth \in Nat

NoRecord     == [type |-> "empty"]
Bad          == [type |-> "bad"]
Child(n)     == [type |-> "node", node |-> n]
Data(c, reg) == [type |-> "data", country |-> c, registered |-> reg]

Optional(s) == s = {} \/ \E x \in s : s = {x}
IsRecord(r, nodes) ==
    /\ r.type \in {"empty", "bad", "node", "data"}
    /\ r.type = "node" => r.node \in nodes
    /\ r.type = "data" => Optional(r.country) /\ Optional(r.registered)
IsDatabase(db) ==
    /\ db.version \in {4, 6} /\ 0 \in DOMAIN db.nodes
    /\ \A n \in DOMAIN db.nodes : /\ IsRecord(db.nodes[n].left, DOMAIN db.nodes)
                                 /\ IsRecord(db.nodes[n].right, DOMAIN db.nodes)

(* IsoCountryId folds the two letters to lower case. *)
IsoCountryId == [c \in {"DE", "de", "FR", "fr"} |-> IF c \in {"DE", "de"} THEN "de" ELSE "fr"]
Country      == {"de", "fr"}

Addresses(width) == 0..(Pow2[width] - 1)

(* registered_country is used only when the country is absent. *)
read_country(entry) == IF entry.country # {} THEN entry.country ELSE entry.registered

(* The leaves a record leads to; deeper has those of every node and prefix *)
(* one level down.                                                         *)
visit_rec(rec, addr, len, deeper, skipped) ==
    IF rec.type = "empty" \/ rec \in skipped THEN <<>>
    ELSE IF rec.type = "node" THEN deeper[rec.node][addr]
    ELSE <<[entry |-> rec, addr |-> addr, len |-> len]>>

(* walk_search_tree, by the number of address bits left: the leaves below  *)
(* a node in the order of the walk.                                        *)
Walk(db, width, skipped) ==
    LET walk[left \in 0..width] ==
            [n \in DOMAIN db.nodes |-> [addr \in Addresses(width) |->
                IF left = 0 THEN <<[entry |-> Bad, addr |-> addr, len |-> width]>>
                ELSE LET len == width - left + 1 IN
                     visit_rec(db.nodes[n].left, addr, len, walk[left - 1], skipped)
                     \o visit_rec(db.nodes[n].right, (addr + Pow2[left - 1]) % Pow2[width], len,
                                  walk[left - 1], skipped)]]
    IN  walk
walk_search_tree(db, width, n, skipped) == Walk(db, width, skipped)[width][n][0]

canonicalize_prefix(addr, width, len) == addr - (addr % Pow2[width - len])
Sibling(addr, width, len) ==
    LET bit == Pow2[width - len] IN
    IF (addr \div bit) % 2 = 0 THEN addr + bit ELSE addr - bit

(* A round of merge_prefix: join with the sibling of the same country, if  *)
(* there is one.                                                           *)
JoinAny(c, width, country) ==
    LET joined == {p \in c.buckets : p.len = c.len /\ p.addr = Sibling(c.addr, width, c.len)} IN
    IF c.len > 0 /\ joined # {}
    THEN [buckets |-> c.buckets \ joined, len |-> c.len - 1,
          addr |-> canonicalize_prefix(c.addr, width, c.len - 1)]
    ELSE c
Join(c, width, country) ==
    LET sibling == [len |-> c.len, addr |-> Sibling(c.addr, width, c.len), country |-> country] IN
    IF c.len > 0 /\ sibling \in c.buckets
    THEN [buckets |-> c.buckets \ {sibling}, len |-> c.len - 1,
          addr |-> canonicalize_prefix(c.addr, width, c.len - 1)]
    ELSE c
Joins(buckets, width, country, addr, len) ==
    LET loop[i \in 0..len] ==
            IF i = 0 THEN [buckets |-> buckets, len |-> len,
                           addr |-> canonicalize_prefix(addr, width, len)]
            ELSE Join(loop[i - 1], width, country)
    IN  loop
(* No two leaves share an address, so the bucket has no entry under the     *)
(* final prefix: "Conflicting countries" is never thrown.                   *)
merge_prefix(buckets, width, country, addr, len) ==
    LET end == Joins(buckets, width, country, addr, len)[len]
    IN  end.buckets \cup {[len |-> end.len, addr |-> end.addr, country |-> country]}

add_country_prefix(buckets, width, leaf) ==
    LET found == read_country(leaf.entry) IN
    IF found = {} THEN buckets
    ELSE merge_prefix(buckets, width, CHOOSE c \in found : TRUE, leaf.addr, leaf.len)

(* libmaxminddb: the record reached from the root by V4Depth zero bits. *)
ZeroBits(db) ==
    LET start[d \in 0..V4Depth] ==
            IF d = 0 THEN Child(0)
            ELSE IF start[d - 1].type = "node" THEN db.nodes[start[d - 1].node].left
            ELSE start[d - 1]
    IN  start
ipv4_start_node(db) == ZeroBits(db)[V4Depth]

(* A data record at or above the start node covers all of IPv4. *)
import_ipv4_tree(db) ==
    LET start == ipv4_start_node(db) IN
    IF db.version = 4 THEN walk_search_tree(db, W4, 0, {})
    ELSE IF start.type = "node" THEN walk_search_tree(db, W4, start.node, {})
    ELSE IF start.type = "empty" THEN <<>>
    ELSE <<[entry |-> start, addr |-> 0, len |-> 0]>>

(* Every alias of the IPv4 subtree is skipped. *)
ipv4_subtree(db) == {r \in {ipv4_start_node(db)} : r.type = "node"}
import_ipv6_tree(db) ==
    IF db.version = 6 THEN walk_search_tree(db, W6, 0, ipv4_subtree(db)) ELSE <<>>

(* import_maxmind_geodata, build_country_map: a country has an entry only  *)
(* if it has a network.                                                    *)
ImportFails(db) ==
    \E leaf \in ToSet(import_ipv4_tree(db)) \cup ToSet(import_ipv6_tree(db)) :
        leaf.entry.type = "bad"

build_country_map(ip4, ip6) ==
    [c \in {p.country : p \in ip4 \cup ip6} |->
        [ip4 |-> {[u |-> p.len, addr |-> p.addr] : p \in {q \in ip4 : q.country = c}},
         ip6 |-> {[u |-> p.len, addr |-> p.addr] : p \in {q \in ip6 : q.country = c}}]]

Buckets(leaves, width) ==
    LET loop[i \in 0..Len(leaves)] ==
            IF i = 0 THEN {} ELSE add_country_prefix(loop[i - 1], width, leaves[i])
    IN  loop
import_maxmind_geodata(db) ==
    LET leaves4 == import_ipv4_tree(db)
        leaves6 == import_ipv6_tree(db)
    IN  build_country_map(Buckets(leaves4, W4)[Len(leaves4)], Buckets(leaves6, W6)[Len(leaves6)])

-----------------------------------------------------------------------------
(* What the database says of one address: libmaxminddb's own lookup, bit   *)
(* by bit.  An address behind an alias belongs to IPv4.                    *)
Path(db, width, n, skipped, addr) ==
    LET at[d \in 0..width] ==
            IF d = 0 THEN Child(n)
            ELSE IF at[d - 1].type # "node" \/ (d > 1 /\ at[d - 1] \in skipped) THEN at[d - 1]
            ELSE IF (addr \div Pow2[width - d]) % 2 = 0 THEN db.nodes[at[d - 1].node].left
            ELSE db.nodes[at[d - 1].node].right
    IN  at
Located(rec) == IF rec.type = "data" THEN read_country(rec) ELSE {}
MMDB_lookup(db, width, n, skipped, addr) == Located(Path(db, width, n, skipped, addr)[width])

Country4(db, addr) ==
    LET start == ipv4_start_node(db) IN
    IF db.version = 4 THEN MMDB_lookup(db, W4, 0, {}, addr)
    ELSE IF start.type = "node" THEN MMDB_lookup(db, W4, start.node, {}, addr)
    ELSE Located(start)
Country6(db, addr) ==
    IF db.version = 6 THEN MMDB_lookup(db, W6, 0, ipv4_subtree(db), addr) ELSE {}

Matches(key, addr, width) ==
    /\ key.u \in 0..width
    /\ addr \div Pow2[width - key.u] = key.addr \div Pow2[width - key.u]
Covered(keys, width) == {a \in Addresses(width) : \E k \in keys : Matches(k, a, width)}

(* The prefixes of a country cover exactly its addresses, each of them     *)
(* once, and no two of them could be joined; found = the country of each   *)
(* address.                                                                *)
Exact(keys, width, found) ==
    /\ \A a \in Addresses(width), c \in Country :
          Cardinality({k \in keys[c] : Matches(k, a, width)}) = IF found[a] = {c} THEN 1 ELSE 0
    /\ \A c \in Country : \A k \in keys[c] :
          k.u > 0 => [k EXCEPT !.addr = Sibling(k.addr, width, k.u)] \notin keys[c]

ImportIsExact(map, db) ==
    /\ Exact([c \in Country |-> IF c \in DOMAIN map THEN map[c].ip4 ELSE {}], W4,
             [a \in Addresses(W4) |-> Country4(db, a)])
    /\ Exact([c \in Country |-> IF c \in DOMAIN map THEN map[c].ip6 ELSE {}], W6,
             [a \in Addresses(W6) |-> Country6(db, a)])
=============================================================================
