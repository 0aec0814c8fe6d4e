---------------------------- MODULE ConfigUpdater ----------------------------
(***************************************************************************)
(* XfwConfigUpdater (manager/xfw_config_updater.cc): what a message does   *)
(* to a configuration, field by field, in the order of prepare_update.     *)
(* Rate limits are known by name here; their slots are SetConfig's         *)
(* subject.  An exception gives a configuration with ok = FALSE.           *)
(***************************************************************************)
EXTENDS ConfigText, GeoIp

NoEntries == [a \in {} |-> 0]
DefaultSlot == ({"src_ip", "src_port", "dst_default"} \X DOMAIN ProtoFlags)
               \cup ({"icmp_default"} \X DOMAIN IpFlags)

(* XfwConfig *)
XfwConfig == [ok |-> TRUE, src |-> NoEntries, dst |-> NoEntries, net |-> NoEntries,
              icmp |-> NoEntries, limits |-> NoEntries,
              defaults |-> NoEntries,
              evaluation_mode |-> FALSE, tcp_auth_filter |-> FALSE, dns_filter |-> FALSE,
              tcp_syncookies |-> {}, ip_proto |-> {}, syn |-> {}, rst |-> {},
              anomaly |-> [enabled |-> FALSE, features |-> {}, seqno |-> {}, bad_flags |-> {}]]
Fail(c) == [c EXCEPT !.ok = FALSE]
Off(msg, name) == <<name, "OFF">> \in msg.flags
On(msg, name)  == <<name, "ON">> \in msg.flags

(* get_ratelimit_idx: the name must be active. *)
KnownLimit(c, o) == o \subseteq DOMAIN c.limits

prepare_protocols(c, msg) ==
    IF Off(msg, "ip_proto") THEN [c EXCEPT !.ip_proto = {}]
    ELSE IF msg.ip_proto = {} THEN c ELSE [c EXCEPT !.ip_proto = msg.ip_proto]

prepare_ratelimits(c, msg) ==
    LET apply(d, r) ==
          IF "DELETE" \in r.flags
          THEN IF r.alias \in DOMAIN d.limits
               THEN [d EXCEPT !.limits = [a \in DOMAIN @ \ {r.alias} |-> @[a]]] ELSE Fail(d)
          ELSE [d EXCEPT !.limits = (r.alias :> [pps |-> r.pps, bps |-> r.bps]) @@ @]
    IN FoldLeft(apply, c, msg.ratelimits)

(* "Section has only replace semantic for now." *)
prepare_defaults(c, msg) ==
    LET named(d) == {i \in DOMAIN msg.defaults : d \in msg.defaults[i].flags} IN
    IF msg.defaults = <<>> THEN c
    ELSE IF \/ \E r \in ToSet(msg.defaults) : ~KnownLimit(c, r.ratelimit)
            \/ \E d \in DefaultSlot : \E i, j \in named(d) : i # j
         THEN Fail(c)
         ELSE [c EXCEPT !.defaults = [d \in {e \in DefaultSlot : named(e) # {}} |->
                  LET rule == msg.defaults[CHOOSE i \in named(d) : TRUE] IN
                  [allow |-> rule.allow, limit |-> rule.ratelimit]]]

-----------------------------------------------------------------------------
(* Net rules.  ProtoWrapper::action and has_matchers *)
EditAction(m) == IF "REPLACE" \in m.flags THEN "REPLACE"
                 ELSE IF "DELETE" \in m.flags THEN "DELETE" ELSE "ADD"
has_matchers(m) == m.net4s # <<>> \/ m.net6s # <<>> \/ m.nets # <<>> \/ m.ports # <<>>

(* get_net4key, get_net6key: prefixlen_ and port_ share a union (u). *)
IsDst(flags) == flags \cap {"SRC", "PROTECTED_NET"} = {}
KeyAllowed(d, flags) == IF IsDst(flags) THEN d.port # 0 /\ d.addr # 0 ELSE d.port = 0
NetKey(d, flags) == [u |-> IF IsDst(flags) THEN d.port ELSE d.prefix, addr |-> d.addr]
NetKeys(list, flags) == Mapped(list, LAMBDA d : NetKey(d, flags))

ports_from_range(p) == IF p.port_end = 0 THEN {p.port} ELSE p.port..p.port_end
ValidRange(p) == p.port_end = 0 \/ p.port < p.port_end
Ports(m) == UNION {ports_from_range(p) : p \in ToSet(m.ports)}
DisjointRanges(m) == \A i, j \in DOMAIN m.ports :
    i # j => ports_from_range(m.ports[i]) \cap ports_from_range(m.ports[j]) = {}

(* Restrictions that do not depend on what the rule holds already. *)
Allowed(m, flags) ==
    /\ \A d \in ToSet(m.net4s) \cup ToSet(m.net6s) : KeyAllowed(d, flags)
    /\ m.ports # <<>> \/ m.nets # <<>> => "SRC" \in flags
    /\ \A p \in ToSet(m.ports) : ValidRange(p)
    /\ IsInjective(NetKeys(m.net4s, flags)) /\ IsInjective(NetKeys(m.net6s, flags))
    /\ DisjointRanges(m)

(* Xfw::load_geo_entry *)
GeoKnown(n, geo) == IsoCountryId[n.code] \in DOMAIN geo
load_geo_entry(n, flags, geo) ==
    [code |-> n.code,
     net4s |-> IF "IPV6" \in flags THEN {} ELSE geo[IsoCountryId[n.code]].ip4,
     net6s |-> IF "IPV6" \in flags THEN geo[IsoCountryId[n.code]].ip6 ELSE {}]

NoRule == [flags |-> {}, limit |-> {}, net4s |-> {}, net6s |-> {}, nets |-> <<>>, ports |-> {}]
set_attributes_to(m, rule) ==
    [rule EXCEPT !.limit = m.ratelimit, !.flags = m.flags \ {"REPLACE", "DELETE"}]

CanAdd(m, rule, geo) ==
    /\ Allowed(m, rule.flags)
    /\ ToSet(NetKeys(m.net4s, rule.flags)) \cap rule.net4s = {}
    /\ ToSet(NetKeys(m.net6s, rule.flags)) \cap rule.net6s = {}
    /\ Ports(m) \cap rule.ports = {}
    /\ \A n \in ToSet(m.nets) : n.port = 0 /\ GeoKnown(n, geo)
add_matchers_to(m, rule, geo) ==
    [rule EXCEPT !.net4s = @ \cup ToSet(NetKeys(m.net4s, rule.flags)),
                 !.net6s = @ \cup ToSet(NetKeys(m.net6s, rule.flags)),
                 !.ports = @ \cup Ports(m),
                 !.nets  = @ \o Mapped(m.nets, LAMBDA n : load_geo_entry(n, rule.flags, geo))]

(* A country is deleted by its code as written, not folded. *)
CanDelete(m, rule) ==
    /\ Allowed(m, rule.flags)
    /\ ToSet(NetKeys(m.net4s, rule.flags)) \subseteq rule.net4s
    /\ ToSet(NetKeys(m.net6s, rule.flags)) \subseteq rule.net6s
    /\ Ports(m) \subseteq rule.ports
    /\ IsInjective(Mapped(m.nets, LAMBDA n : n.code))
    /\ {n.code : n \in ToSet(m.nets)} \subseteq {g.code : g \in ToSet(rule.nets)}
delete_matchers_from(m, rule) ==
    LET gone == {n.code : n \in ToSet(m.nets)} IN
    [rule EXCEPT !.net4s = @ \ ToSet(NetKeys(m.net4s, rule.flags)),
                 !.net6s = @ \ ToSet(NetKeys(m.net6s, rule.flags)),
                 !.ports = @ \ Ports(m),
                 !.nets  = SelectSeq(@, LAMBDA g : g.code \notin gone)]

(* upsert_rule: insert_or_assign puts an empty rule in place of the old. *)
upsert_rule_keeps(alias, set) == IF alias \in DOMAIN set THEN set[alias] ELSE NoRule
upsert_rule(alias, set) == NoRule

apply_edit_action(c, class, m, geo) ==
    LET set == c[class]
        known == m.alias \in DOMAIN set
        Put(rule) == [c EXCEPT ![class] = (m.alias :> rule) @@ set]
        replacement == set_attributes_to(m, upsert_rule(m.alias, set))
    IN CASE EditAction(m) = "REPLACE" /\ has_matchers(m) ->
              IF KnownLimit(c, m.ratelimit) /\ CanAdd(m, replacement, geo)
              THEN Put(add_matchers_to(m, replacement, geo)) ELSE Fail(c)
         [] EditAction(m) = "REPLACE" /\ ~has_matchers(m) ->
              IF known /\ KnownLimit(c, m.ratelimit)
              THEN Put(set_attributes_to(m, set[m.alias])) ELSE Fail(c)
         [] EditAction(m) = "DELETE" /\ has_matchers(m) ->
              IF known /\ CanDelete(m, set[m.alias])
              THEN Put(delete_matchers_from(m, set[m.alias])) ELSE Fail(c)
         [] EditAction(m) = "DELETE" /\ ~has_matchers(m) ->
              IF known THEN [c EXCEPT ![class] = [a \in DOMAIN set \ {m.alias} |-> set[a]]] ELSE Fail(c)
         [] OTHER ->
              IF known /\ CanAdd(m, set[m.alias], geo)
              THEN Put(add_matchers_to(m, set[m.alias], geo)) ELSE Fail(c)

NetClass(m) == IF "SRC" \in m.flags THEN "src"
               ELSE IF "PROTECTED_NET" \in m.flags THEN "net" ELSE "dst"
prepare_net_rules(c, msg, geo) ==
    FoldLeft(LAMBDA d, m : IF d.ok THEN apply_edit_action(d, NetClass(m), m, geo) ELSE d,
             c, msg.net_rules)

(* apply_edit_action for an IcmpRule: its matchers are the types. *)
EditIcmp(c, m) ==
    LET set == c.icmp
        known == m.alias \in DOMAIN set
        types == ToSet(m.types)
        Attributed(held) == [flags |-> m.flags \ {"REPLACE", "DELETE"}, limit |-> m.ratelimit,
                             types |-> held]
        Put(rule) == [c EXCEPT !.icmp = (m.alias :> rule) @@ set]
        old == IF known THEN set[m.alias] ELSE Attributed({})
    IN CASE EditAction(m) = "REPLACE" ->
              IF /\ KnownLimit(c, m.ratelimit) /\ IsInjective(m.types)
                 /\ m.types # <<>> \/ known
              THEN Put(Attributed(IF m.types = <<>> THEN old.types ELSE types)) ELSE Fail(c)
         [] EditAction(m) = "DELETE" /\ m.types # <<>> ->
              IF known /\ IsInjective(m.types) /\ types \subseteq old.types
              THEN Put([old EXCEPT !.types = @ \ types]) ELSE Fail(c)
         [] EditAction(m) = "DELETE" /\ m.types = <<>> ->
              IF known THEN [c EXCEPT !.icmp = [a \in DOMAIN set \ {m.alias} |-> set[a]]] ELSE Fail(c)
         [] OTHER ->
              IF known /\ IsInjective(m.types) /\ types \cap old.types = {}
              THEN Put([old EXCEPT !.types = @ \cup types]) ELSE Fail(c)
prepare_icmp_rules(c, msg) ==
    FoldLeft(LAMBDA d, m : IF d.ok THEN EditIcmp(d, m) ELSE d, c, msg.icmp_rules)

-----------------------------------------------------------------------------
(* A feature named is switched on, and stays on: only /del switches the    *)
(* filter off, and leaves the features for the next time.  Combinations of *)
(* flags start from the prohibited ones each time.                         *)
prepare_tcp_anomaly_filter(c, msg) ==
    IF Off(msg, "tcp_anomaly_filter") THEN [c EXCEPT !.anomaly.enabled = FALSE]
    ELSE IF msg.tcp_anomaly = {} THEN c
    ELSE LET a == CHOOSE x \in msg.tcp_anomaly : TRUE IN
         [c EXCEPT !.anomaly =
            [enabled   |-> TRUE,
             features  |-> @.features \cup (a.features \cap {"syn_without_opt", "syn_with_payload"}),
             seqno     |-> IF a.seqno # {} THEN a.seqno ELSE @.seqno,
             bad_flags |-> {"prohibited"} \cup
                  (IF "bad_flags" \notin a.features THEN {}
                   ELSE IF a.bad_flags = {} THEN {"suspicious"} ELSE UNION a.bad_flags)]]

(* prepare_tcp_auth_filter, prepare_dns_filter, prepare_evaluation_mode *)
PrepareSwitch(c, msg, name) ==
    IF Off(msg, name) THEN [c EXCEPT ![name] = FALSE]
    ELSE IF On(msg, name) THEN [c EXCEPT ![name] = TRUE] ELSE c

(* The OFF flag is looked at only if the message has timers as well. *)
prepare_syncookie_filter(c, msg) ==
    IF msg.syncookie = {} THEN c
    ELSE [c EXCEPT !.tcp_syncookies = IF Off(msg, "tcp_syncookies") THEN {} ELSE msg.syncookie]

prepare_tcp_flags_filter(c, msg) ==
    LET cleared == [c EXCEPT !.syn = IF Off(msg, "syn") THEN {} ELSE @,
                             !.rst = IF Off(msg, "rst") THEN {} ELSE @]
        apply(d, r) == IF ~d.ok \/ ~KnownLimit(d, r.ratelimit) THEN Fail(d)
                       ELSE [d EXCEPT !.syn = IF "syn" \in r.flags THEN r.ratelimit ELSE @,
                                      !.rst = IF "rst" \in r.flags THEN r.ratelimit ELSE @]
    IN FoldLeft(apply, cleared, msg.tcp_flags)

prepare_update(c, msg, geo) ==
    LET rules1 == prepare_net_rules(
                    prepare_defaults(prepare_ratelimits(prepare_protocols(c, msg), msg), msg),
                    msg, geo)
        filters == PrepareSwitch(PrepareSwitch(PrepareSwitch(
                     prepare_tcp_anomaly_filter(rules1, msg),
                     msg, "tcp_auth_filter"), msg, "dns_filter"), msg, "evaluation_mode")
        cookies == prepare_syncookie_filter(filters, msg)
        checked == IF cookies.evaluation_mode /\ cookies.tcp_syncookies # {}
                   THEN Fail(cookies) ELSE cookies
    IN prepare_icmp_rules(prepare_tcp_flags_filter(checked, msg), msg)

(* update_xfw_config: a PATCH edits the stored configuration, any other    *)
(* message starts from an empty one.                                       *)
Updated(c, msg, geo) ==
    IF ~msg.ok THEN Fail(c)
    ELSE prepare_update(IF <<"XFW_CONFIG", "PATCH">> \in msg.flags THEN c ELSE XfwConfig, msg, geo)
=============================================================================
