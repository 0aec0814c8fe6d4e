---------------------------- MODULE ManagerConfig ----------------------------
(***************************************************************************)
(* What a configuration says, from the text the operator writes to the     *)
(* tries the datapath looks addresses up in: the client's parser           *)
(* (ConfigText), the updater (ConfigUpdater), the GeoIP database (GeoIp)   *)
(* and the order in which Xfw::set_config applies the parts.  SetConfig    *)
(* has the steps of set_config and the slots of the limits, MapsManager    *)
(* the double-buffered maps and the buckets; here an update is one step    *)
(* that may stop half way, because a later part throws.                    *)
(***************************************************************************)
EXTENDS ConfigUpdater

CONSTANTS Texts,          \* the texts requests are made of
          Database,       \* the GeoIP files that can be in place
          PinnedMaps,     \* the filters the loaded programs may support
          AliasRank,      \* the order of std::map<std::string, ...>
          XFW_MAX_SRC_IP_RULES, XFW_MAX_PROTECTED_NET_RULES, RlMaxRate,
          MaxRequests     \* bound on accepted updates

ASSUME ManagerConfigAssumption == \A db \in Database : IsDatabase(db)

VARIABLES stored,         \* Xfw::config_
          has_config,     \* config_.has_value()
          tries,         \* the tries of the active maps
          geodb,          \* Xfw::geodb_
          loaded,         \* the file geodb was read from
          file,           \* the file now at geodb_path_
          pinned,         \* which of dns_filter, tcp_syncookies can be used
          intended,       \* what the accepted texts mean
          whole,          \* the last set_config did all its parts
          last,           \* the last request served
          requests
managerVars == <<stored, has_config, tries, geodb, loaded, file, pinned, intended,
                 whole, last, requests>>

-----------------------------------------------------------------------------
(* BpfMapsManager::set_src_rules.  A user's key may be held by one rule    *)
(* only; a country's network is skipped where the key is taken.            *)
RuleNets(rule, v6)   == IF v6 THEN rule.net6s ELSE rule.net4s
CountryNets(rule, v6) == UNION {RuleNets(g, v6) : g \in ToSet(rule.nets)}
SrcRule(rule) ==
    [action |-> IF "ALLOW" \notin rule.flags THEN "BLOCK"
                ELSE IF rule.limit # {} THEN "RATE_LIMIT" ELSE "ALLOW",
     limit  |-> IF "ALLOW" \in rule.flags THEN rule.limit ELSE {}]
IsTcp(rule)          == "TCP" \in rule.flags
Of(rules_map, tcp)   == {a \in DOMAIN rules_map : IsTcp(rules_map[a]) = tcp}
HeldOnce(rules_map, aliases, Keys(_)) ==
    \A a, b \in aliases : a # b => Keys(rules_map[a]) \cap Keys(rules_map[b]) = {}

(* Country networks over the user's *)
TrieGeoFirst(src, v6, tcp) ==
    LET aliases == Of(src, tcp)
        Holders(k) == {a \in aliases : k \in CountryNets(src[a], v6)}
        Users(k) == {a \in aliases : k \in RuleNets(src[a], v6)}
        Chosen(k) == LET s == IF Holders(k) # {} THEN Holders(k) ELSE Users(k)
                     IN CHOOSE a \in s : \A b \in s \ {a} : AliasRank[a] < AliasRank[b]
    IN [k \in UNION {RuleNets(src[a], v6) \cup CountryNets(src[a], v6) : a \in aliases} |->
            SrcRule(src[Chosen(k)])]
Trie(src, v6, tcp) ==
    LET aliases == Of(src, tcp)
        Users(k)    == {a \in aliases : k \in RuleNets(src[a], v6)}
        Holders(k)  == {a \in aliases : k \in CountryNets(src[a], v6)}
        Chosen(k)   == LET s == IF Users(k) # {} THEN Users(k) ELSE Holders(k)
                       IN CHOOSE a \in s : \A b \in s \ {a} : AliasRank[a] < AliasRank[b]
    IN [k \in UNION {RuleNets(src[a], v6) \cup CountryNets(src[a], v6) : a \in aliases} |->
            SrcRule(src[Chosen(k)])]
SrcTries(src) == [v6 \in BOOLEAN |-> [tcp \in BOOLEAN |-> Trie(src, v6, tcp)]]
SrcAccepted(src) ==
    \A tcp \in BOOLEAN :
        /\ \A v6 \in BOOLEAN :
              /\ HeldOnce(src, Of(src, tcp), LAMBDA r : RuleNets(r, v6))
              /\ Cardinality(DOMAIN Trie(src, v6, tcp)) <= XFW_MAX_SRC_IP_RULES
        /\ HeldOnce(src, Of(src, tcp), LAMBDA r : r.ports)

(* set_icmp_rules and set_dst_rules: here only whether they throw. *)
IcmpAccepted(icmp) ==
    HeldOnce(icmp, DOMAIN icmp, LAMBDA r : {<<"IPV6" \in r.flags, t>> : t \in r.types})
DstAccepted(dst) ==
    LET Class(r) == r.flags \cap {"TCP", "IPV6"} IN
    HeldOnce(dst, DOMAIN dst, LAMBDA r : {<<Class(r), FALSE, k>> : k \in r.net4s}
                                         \cup {<<Class(r), TRUE, k>> : k \in r.net6s})

(* set_prot_net_settings: one map per family, whatever the rule. *)
ProtNets(net) == [v6 \in BOOLEAN |-> UNION {RuleNets(net[a], v6) : a \in DOMAIN net}]
NetAccepted(net) ==
    \A v6 \in BOOLEAN :
        /\ HeldOnce(net, DOMAIN net, LAMBDA r : RuleNets(r, v6))
        /\ Cardinality(ProtNets(net)[v6]) <= XFW_MAX_PROTECTED_NET_RULES

(* set_ratelimits and the tests before it: nothing has been written yet. *)
Supported(c) ==
    /\ c.dns_filter => "dns_filter" \in pinned
    /\ c.tcp_syncookies # {} => "tcp_syncookies" \in pinned
    /\ \A a \in DOMAIN c.limits : c.limits[a].pps <= RlMaxRate /\ c.limits[a].bps <= RlMaxRate

(* Xfw::set_config: the source rules are in use before a later part may    *)
(* throw, and config_ is assigned at the end only.                         *)
set_config(c) ==
    LET src == Supported(c) /\ SrcAccepted(c.src)
        all == src /\ IcmpAccepted(c.icmp) /\ DstAccepted(c.dst) /\ NetAccepted(c.net)
    IN /\ tries' = IF all THEN [src |-> SrcTries(c.src), net |-> ProtNets(c.net)]
                    ELSE IF src THEN [tries EXCEPT !.src = SrcTries(c.src)] ELSE tries
       /\ stored' = IF all THEN c ELSE stored
       /\ has_config' = (has_config \/ all)
       /\ whole' = (all \/ (whole /\ tries' = tries))

-----------------------------------------------------------------------------
(* What a text means, read from its tokens, for a reader who never saw the *)
(* parser: a section replaces its rule, adds to it or deletes from it.     *)
Meaningless == [src |-> NoEntries, dst |-> NoEntries, net |-> NoEntries, icmp |-> NoEntries,
                limits |-> NoEntries, defaults |-> NoEntries,
                on |-> {}, ip_proto |-> {}, flags |-> [f \in {"syn", "rst"} |-> {}]]
Toks(sec, t)  == SelectSeq(sec.toks, LAMBDA k : k.t = t)
Values(sec, t) == ToSet(Mapped(Toks(sec, t), LAMBDA k : k.v))
Keyword(sec)  == ToSet(Mapped(Toks(sec, "attr"), LAMBDA k : k.k))
Edits(sec)    == Values(sec, "edit")
Alias(sec)    == IF sec.alias # "" THEN sec.alias
                 ELSE CHOOSE k \in Keyword(sec) : TRUE
Verdict(sec)  == [allow |-> Values(sec, "action") \cap {"allow", "ratelimit"} # {},
                  limit |-> UNION {k.ratelimit : k \in ToSet(Toks(sec, "action"))}]
Named(sec)    == [tcp |-> Keyword(sec) \cap {"ip4.tcp", "ip6.tcp"} # {},
                  v6  |-> Keyword(sec) \cap {"ip6.tcp", "ip6.udp", "ip6"} # {}]
Thing(sec, i) ==
    IF sec.name = "icmp" THEN {<<"type", i>>}
    ELSE CASE i.m = "geo"  -> {<<"geo", i.code>>}
           [] i.m = "port" -> {<<"port", p>> : p \in i.from..(IF i.to = {} THEN i.from
                                                              ELSE CHOOSE p \in i.to : TRUE)}
           [] OTHER -> {<<"ip", i.ip6, i.addr,
                          IF sec.name = "dst" THEN CHOOSE p \in i.port : TRUE
                          ELSE IF i.mask # {} THEN CHOOSE l \in i.mask : TRUE
                          ELSE IF i.ip6 THEN W6 ELSE W4>>}
Things(sec) == UNION {Thing(sec, i) : i \in Values(sec, "item")}

WithRule(m, sec) ==
    LET held == m[sec.name]
        Put(rule) == [m EXCEPT ![sec.name] = (Alias(sec) :> rule) @@ held]
        written == [named |-> Named(sec), verdict |-> Verdict(sec), things |-> Things(sec)]
    IN CASE "add" \in Edits(sec) ->
              Put([held[Alias(sec)] EXCEPT !.things = @ \cup Things(sec)])
         [] "del" \in Edits(sec) /\ Things(sec) # {} ->
              Put([held[Alias(sec)] EXCEPT !.things = @ \ Things(sec)])
         [] "del" \in Edits(sec) /\ Things(sec) = {} ->
              [m EXCEPT ![sec.name] = [a \in DOMAIN held \ {Alias(sec)} |-> held[a]]]
         [] OTHER -> Put(IF Things(sec) # {} THEN written
                         ELSE [written EXCEPT !.things = held[Alias(sec)].things])

(* A default without a protocol, or with a family only, is for all of them. *)
NamesSlot(sub, slot) ==
    /\ slot[1] = sub.name
    /\ \/ Keyword(sub) = {} \/ slot[2] \in Keyword(sub)
       \/ "ip4" \in Keyword(sub) /\ slot[2] \in {"ip4.tcp", "ip4.udp"}
       \/ "ip6" \in Keyword(sub) /\ slot[2] \in {"ip6.tcp", "ip6.udp"}

WithSection(m, sec) ==
    LET del == "del" \in Edits(sec)
        Number(key) == LET given == SelectSeq(sec.toks, LAMBDA k : k.t = "attr" /\ k.k = key)
                       IN IF given = <<>> THEN 0 ELSE Last(given).v
        flags == IF Keyword(sec) = {} THEN {"syn", "rst"} ELSE Keyword(sec)
    IN CASE sec.name \in {"src", "dst", "net", "icmp"} -> WithRule(m, sec)
         [] sec.name = "ratelimit" ->
              [m EXCEPT !.limits = IF del THEN [a \in DOMAIN @ \ {sec.alias} |-> @[a]]
                                   ELSE (sec.alias :> [pps |-> Number("pps"), bps |-> Number("bps")]) @@ @]
         [] sec.name = "defaults" ->
              LET Subs(d) == {sub \in Values(sec, "item") : NamesSlot(sub, d)} IN
              [m EXCEPT !.defaults = [d \in {e \in DefaultSlot : Subs(e) # {}} |->
                  Verdict(CHOOSE sub \in Subs(d) : TRUE)]]
         [] sec.name = "tcp_flags" ->
              [m EXCEPT !.flags = [f \in DOMAIN @ |-> IF f \in flags THEN Verdict(sec).limit ELSE @[f]]]
         [] sec.name = "ip_proto" ->
              [m EXCEPT !.ip_proto = IF del THEN {} ELSE {Values(sec, "item")}]
         [] sec.name \in {"tcp_syncookies", "tcp_anomaly_filter"} -> m
         [] OTHER -> [m EXCEPT !.on = IF del THEN @ \ {sec.name} ELSE @ \cup {sec.name}]

Meant(m, text, patch) == FoldLeft(WithSection, IF patch THEN m ELSE Meaningless, text)

(* The same, of the configuration the manager keeps. *)
VerdictView(r) == [allow |-> "ALLOW" \in r.flags, limit |-> r.limit]
RuleView(r) ==
    [named |-> [tcp |-> IsTcp(r), v6 |-> "IPV6" \in r.flags], verdict |-> VerdictView(r),
     things |-> {<<"ip", FALSE, k.addr, k.u>> : k \in r.net4s}
                \cup {<<"ip", TRUE, k.addr, k.u>> : k \in r.net6s}
                \cup {<<"geo", g.code>> : g \in ToSet(r.nets)}
                \cup {<<"port", p>> : p \in r.ports}]
IcmpView(r) ==
    [named |-> [tcp |-> FALSE, v6 |-> "IPV6" \in r.flags], verdict |-> VerdictView(r),
     things |-> {<<"type", t>> : t \in r.types}]
View(c) ==
    LET Rules(f) == [a \in DOMAIN f |-> RuleView(f[a])] IN
    [src |-> Rules(c.src), dst |-> Rules(c.dst), net |-> Rules(c.net),
     icmp |-> [a \in DOMAIN c.icmp |-> IcmpView(c.icmp[a])],
     limits |-> c.limits, defaults |-> c.defaults, ip_proto |-> c.ip_proto,
     on |-> {f \in {"evaluation_mode", "tcp_auth_filter", "dns_filter"} : c[f]},
     flags |-> [f \in {"syn", "rst"} |-> c[f]]]

-----------------------------------------------------------------------------
(* The constructor of Xfw reads the database; a database that cannot be    *)
(* read ends the manager.                                                  *)
ManagerStart(db) ==
    /\ ~ImportFails(db)
    /\ file = db /\ loaded = db
    /\ geodb = import_maxmind_geodata(db)
    /\ stored = XfwConfig /\ intended = Meaningless
    /\ tries = [src |-> SrcTries(NoEntries), net |-> ProtNets(NoEntries)]
    /\ has_config = FALSE /\ whole = TRUE
    /\ pinned \in PinnedMaps
    /\ last = "none"
    /\ requests = 0
ManagerInit == \E db \in Database : ManagerStart(db)

(* update_xfw_config.  A text or a message that is refused changes nothing. *)
UpdateXfwConfig(text, patch) ==
    LET c == Updated(stored, Message(text, patch), geodb) IN
    /\ requests < MaxRequests
    /\ c.ok
    /\ set_config(c)
    /\ intended' = IF stored' = c THEN Meant(intended, text, patch) ELSE intended
    /\ last' = "update"
    /\ requests' = requests + 1
    /\ UNCHANGED <<geodb, loaded, file, pinned>>

(* The reload request: reload_geodb_if_present, then                       *)
(* reload_config_if_present, which applies the stored configuration again. *)
Reload ==
    /\ ~ImportFails(file)
    /\ geodb' = import_maxmind_geodata(file)
    /\ loaded' = file
    /\ IF has_config THEN set_config(stored)
       ELSE UNCHANGED <<stored, has_config, tries, whole>>
    /\ last' = "reload"
    /\ UNCHANGED <<file, pinned, intended, requests>>

(* The operator puts another database in place. *)
ReplaceDatabase ==
    /\ \E db \in Database : file' = db
    /\ UNCHANGED <<stored, has_config, tries, geodb, loaded, pinned, intended, whole, last, requests>>

ManagerNext ==
    \/ \E text \in Texts, patch \in BOOLEAN : UpdateXfwConfig(text, patch)
    \/ Reload
    \/ ReplaceDatabase

ManagerSpec == ManagerInit /\ [][ManagerNext]_managerVars

-----------------------------------------------------------------------------
(* The configuration the manager keeps is what the texts it accepted mean, *)
(* through any sequence of full updates and patches: names resolved,       *)
(* ranges expanded, replaced rules forgotten, edited ones kept.            *)
EditsAgree == has_config => View(stored) = intended

(* The networks of each country cover exactly the addresses the database   *)
(* in use gives it, once each, for every shape of the search tree.         *)
GeoExact == ImportIsExact(geodb, loaded)

(* Longest-prefix match in a trie. *)
Lookup(trie, addr, width) ==
    LET hits == {k \in DOMAIN trie : Matches(k, addr, width)} IN
    {trie[k] : k \in {j \in hits : \A i \in hits : i.u <= j.u}}

(* The user's rule overrides the country's: where the longest network that *)
(* matches is one the user wrote, the packet gets the action of the rule   *)
(* the user wrote it in, though a country may have the same network.       *)
UserOverridesGeo ==
    whole => \A v6, tcp \in BOOLEAN :
        LET width == IF v6 THEN W6 ELSE W4
            aliases == Of(stored.src, tcp)
            OwnNets(a) == RuleNets(stored.src[a], v6)
            nets == UNION {OwnNets(a) \cup CountryNets(stored.src[a], v6) : a \in aliases}
        IN \A alias \in aliases : \A k \in OwnNets(alias) :
           \A addr \in Covered({k}, width) :
              (\A j \in nets \ {k} : Matches(j, addr, width) => j.u < k.u)
              => Lookup(tries.src[v6][tcp], addr, width) = {SrcRule(stored.src[alias])}

(* "During this operation geo-addresses will be reloaded": after a reload  *)
(* a rule for a country holds the networks the new database gives it.      *)
GeoReloaded ==
    last = "reload" => \A a \in DOMAIN stored.src : \A g \in ToSet(stored.src[a].nets) :
        GeoKnown(g, geodb) => g = load_geo_entry(g, stored.src[a].flags, geodb)
=============================================================================
