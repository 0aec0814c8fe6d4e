----------------------------- MODULE ConfigText ------------------------------
(***************************************************************************)
(* From the text of an xfw { ... } block to the message the manager gets:  *)
(* the section parser (lib/cli/section.cc), the commit() of every section  *)
(* (parser.cc, defaults_section.cc, tcp_anomaly_section.cc,                *)
(* ip_proto_section.cc) and serialize() (lib/proto/serialize.cc).          *)
(*                                                                         *)
(* A text is a sequence of sections, a section a name, an alias ("" if     *)
(* none) and its tokens; characters, comments and lines are left out.  An  *)
(* optional value is a set of at most one element.  A text that makes the  *)
(* parser throw gives a configuration with ok = FALSE.                     *)
(***************************************************************************)
EXTENDS Naturals, Sequences, SequencesExt, TLC

CONSTANTS MAX_PORTS,      \* the largest port number
          MaskLimit4, MaskLimit6

ProtoFlags == ("ip4.tcp" :> {"TCP"}) @@ ("ip6.tcp" :> {"TCP", "IPV6"})
              @@ ("ip4.udp" :> {}) @@ ("ip6.udp" :> {"IPV6"})
IpFlags    == ("ip4" :> {}) @@ ("ip6" :> {"IPV6"})
AttrFlags(name) == IF name \in {"src", "dst"} THEN ProtoFlags ELSE IpFlags

NetSections == {"src", "dst", "net"}
(* What process_attributes of each section knows. *)
Attributes(name) ==
    CASE name \in NetSections \cup {"icmp"} -> DOMAIN AttrFlags(name)
      [] name = "tcp_flags" -> {"syn", "rst"}
      [] name = "ratelimit" -> {"pps", "bps"}
      [] name = "tcp_syncookies" -> {"passive_timer", "flood_timer"}
      [] name = "tcp_anomaly_filter" -> {"syn_without_opt", "syn_with_payload",
                                         "syn_with_seqno", "bad_flags"}
      [] name \in {"src_ip", "src_port", "dst_default"} -> DOMAIN ProtoFlags \cup DOMAIN IpFlags
      [] name = "icmp_default" -> DOMAIN IpFlags
      [] OTHER -> {}
DefaultSections == {"src_ip", "src_port", "dst_default", "icmp_default"}
HasEdit(name)   == name \notin DefaultSections \cup {"defaults"}
HasAction(name) == name \in NetSections \cup DefaultSections \cup {"icmp", "tcp_flags", "ratelimit"}
HasBody(name)   == name \in NetSections \cup {"icmp", "ip_proto", "defaults"}

(* Section::consume_line with EditProcessor and ActionProcessor, one token *)
(* at a time.                                                              *)
Started == [state |-> "ProcessEditAction", edit |-> {}, action |-> {}, attrs |-> <<>>, body |-> <<>>]
consume_line(name, s, tok) ==
    LET attributes == s.state \in {"ProcessEditAction", "ReadingAttributes"} IN
    CASE s.state = "ProcessEditAction" /\ tok.t = "edit" /\ HasEdit(name) /\ s.edit = {} ->
            [s EXCEPT !.edit = {tok.v}]
      [] attributes /\ tok.t = "attr" /\ tok.k \in Attributes(name) ->
            [s EXCEPT !.state = "ReadingAttributes", !.attrs = Append(@, tok)]
      [] attributes /\ tok.t = ":" /\ HasAction(name) ->
            [s EXCEPT !.state = "ProcessingAction"]
      [] s.state = "ProcessingAction" /\ tok.t = "action" /\ s.action = {} ->
            [s EXCEPT !.action = {[ratelimit |-> tok.ratelimit, allow |-> tok.v # "block"]}]
      [] (attributes \/ s.state = "ProcessingAction") /\ tok.t = "{" /\ HasBody(name) ->
            [s EXCEPT !.state = "ProcessingBody"]
      [] s.state = "ProcessingBody" /\ tok.t = "item" ->
            [s EXCEPT !.body = Append(@, tok.v)]
      [] \/ (attributes \/ s.state = "ProcessingAction") /\ tok.t = ";"
         \/ s.state = "ProcessingBody" /\ tok.t = "}" ->
            [s EXCEPT !.state = "End"]
      [] OTHER -> [s EXCEPT !.state = "Threw"]

Section(sec) == FoldLeft(LAMBDA s, tok : consume_line(sec.name, s, tok), Started, sec.toks)

-----------------------------------------------------------------------------
(* commit(): what a finished section adds to XfwConf. *)
XfwConf == [ok |-> TRUE, flags |-> {}, net_rules |-> <<>>, icmp_rules |-> <<>>,
            ratelimits |-> <<>>, tcp_flags |-> <<>>, defaults |-> <<>>,
            syncookie |-> {}, tcp_anomaly |-> {}, ip_proto |-> {}]
Throw(conf) == [conf EXCEPT !.ok = FALSE]

KeysOfAttrs(s) == {s.attrs[i].k : i \in DOMAIN s.attrs}
Attr(s, key)   == {s.attrs[i].v : i \in {j \in DOMAIN s.attrs :
                      /\ s.attrs[j].k = key
                      /\ \A l \in DOMAIN s.attrs : s.attrs[l].k = key => l <= j}}
OnlyDelete(s)  == s.edit \subseteq {"del"}
Deletes(s)     == s.edit = {"del"}
AllowFlag(s)   == IF \E a \in s.action : a.allow THEN {"ALLOW"} ELSE {}
Limit(s)       == UNION {a.ratelimit : a \in s.action}
EditFlags(s)   == IF Deletes(s) THEN {"DELETE"} ELSE IF s.edit = {"add"} THEN {} ELSE {"REPLACE"}
AliasOf(sec, s) == IF sec.alias # "" THEN sec.alias
                   ELSE IF s.attrs # <<>> THEN s.attrs[1].k ELSE ""

(* read_ip4_address, read_ip6_address, read_iso_code_address, read_ports *)
ValidPort(o) == \A p \in o : 0 < p /\ p <= MAX_PORTS
ValidMatcher(i, ip6) ==
    CASE i.m = "ip"   -> /\ i.ip6 = ip6
                         /\ \A k \in i.mask : k <= (IF ip6 THEN MaskLimit6 ELSE MaskLimit4)
                         /\ ValidPort(i.port)
                         /\ i.mask = {} \/ i.port = {}
      [] i.m = "geo"  -> ValidPort(i.port)
      [] i.m = "port" -> ValidPort({i.from}) /\ \A p \in i.to : i.from < p /\ p <= MAX_PORTS

Or(o, default) == IF o = {} THEN default ELSE CHOOSE v \in o : TRUE
Items(s, kind) == SelectSeq(s.body, LAMBDA i : i.m = kind)
get_net(i, limit) == [addr |-> i.addr, prefix |-> Or(i.mask, limit), port |-> Or(i.port, 0)]
Mapped(seq, Op(_)) == [j \in DOMAIN seq |-> Op(seq[j])]

(* NetRuleSection::commit and XfwConf::add_netrule *)
CommitNetRule(conf, sec, s) ==
    LET class == CASE sec.name = "src" -> {"SRC"} [] sec.name = "net" -> {"PROTECTED_NET"}
                   [] OTHER -> {}
        proto == UNION {AttrFlags(sec.name)[k] : k \in KeysOfAttrs(s)}
        alias == AliasOf(sec, s)
        Net4(i) == get_net(i, MaskLimit4)
        Net6(i) == get_net(i, MaskLimit6)
        nr == [alias |-> alias,
               flags |-> class \cup proto \cup AllowFlag(s) \cup EditFlags(s),
               net4s |-> Mapped(SelectSeq(Items(s, "ip"), LAMBDA i : ~i.ip6), Net4),
               net6s |-> Mapped(SelectSeq(Items(s, "ip"), LAMBDA i : i.ip6), Net6),
               nets  |-> Items(s, "geo"), ports |-> Items(s, "port"),
               ratelimit |-> Limit(s)]
    IN
    IF /\ \A i \in ToSet(s.body) : ValidMatcher(i, "IPV6" \in proto)
       /\ s.attrs = <<>> => ToSet(s.body) = ToSet(nr.ports)
       /\ alias # ""
       /\ s.edit \cap {"add", "del"} # {} => s.action = {}
       /\ \A r \in ToSet(conf.net_rules) :
             ~(r.alias = alias /\ r.flags \cap {"SRC", "PROTECTED_NET"} = class)
    THEN [conf EXCEPT !.net_rules = Append(@, nr)]
    ELSE Throw(conf)

(* XfwConf::add_rule *)
Fresh(rule_list, alias) == alias # "" /\ \A r \in ToSet(rule_list) : r.alias # alias

(* IcmpSection::commit; a type is read as uint32_t and stored as uint8_t. *)
CommitIcmp(conf, sec, s) ==
    LET rule == [alias |-> AliasOf(sec, s),
                 flags |-> UNION {IpFlags[k] : k \in KeysOfAttrs(s)} \cup AllowFlag(s) \cup EditFlags(s),
                 types |-> Mapped(s.body, LAMBDA n : n % 256),
                 ratelimit |-> Limit(s)]
    IN IF Fresh(conf.icmp_rules, rule.alias)
       THEN [conf EXCEPT !.icmp_rules = Append(@, rule)] ELSE Throw(conf)

(* RatelimitSection::commit *)
CommitRatelimit(conf, sec, s) ==
    LET rule == [alias |-> sec.alias, flags |-> IF Deletes(s) THEN {"DELETE"} ELSE {},
                 pps |-> Attr(s, "pps"), bps |-> Attr(s, "bps")]
    IN IF /\ OnlyDelete(s) /\ Fresh(conf.ratelimits, sec.alias)
          /\ Deletes(s) \/ rule.pps \cup rule.bps # {}
       THEN [conf EXCEPT !.ratelimits = Append(@, rule)] ELSE Throw(conf)

(* TcpFlagSection::commit *)
CommitTcpFlags(conf, s) ==
    LET flags == IF s.attrs = <<>> THEN {"syn", "rst"} ELSE KeysOfAttrs(s) IN
    IF ~OnlyDelete(s) \/ Len(s.attrs) > 1 \/ (Deletes(s) /\ s.action # {}) THEN Throw(conf)
    ELSE IF Deletes(s) THEN [conf EXCEPT !.flags = @ \cup {<<f, "OFF">> : f \in flags}]
    ELSE IF Limit(s) = {} \/ \E r \in ToSet(conf.tcp_flags) : r.flags \cap flags # {} THEN Throw(conf)
    ELSE [conf EXCEPT !.tcp_flags = Append(@, [flags |-> flags, ratelimit |-> Limit(s)])]

(* DnsFilterSection, EvaluationModeSection, TcpAuthSection::commit *)
CommitSwitch(conf, sec, s) ==
    IF ~OnlyDelete(s) THEN Throw(conf)
    ELSE [conf EXCEPT !.flags = @ \cup {<<sec.name, IF Deletes(s) THEN "OFF" ELSE "ON">>}]

(* TcpSyncookieSection::commit *)
CommitSyncookie(conf, s) ==
    IF ~OnlyDelete(s) \/ (~Deletes(s) /\ s.attrs = <<>>) THEN Throw(conf)
    ELSE IF Deletes(s) THEN [conf EXCEPT !.flags = @ \cup {<<"tcp_syncookies", "OFF">>}]
    ELSE [conf EXCEPT !.syncookie = {[passive_timer |-> Or(Attr(s, "passive_timer"), 1),
                                      flood_timer |-> Or(Attr(s, "flood_timer"), 1)]}]

(* TcpAnomalySection::commit; the value of bad_flags is the optional set   *)
(* of combinations listed.                                                 *)
CommitTcpAnomaly(conf, s) ==
    IF ~OnlyDelete(s) THEN Throw(conf)
    ELSE IF Deletes(s) THEN [conf EXCEPT !.flags = @ \cup {<<"tcp_anomaly_filter", "OFF">>}]
    ELSE [conf EXCEPT !.tcp_anomaly = {[features |-> KeysOfAttrs(s),
                                        seqno |-> Attr(s, "syn_with_seqno"),
                                        bad_flags |-> UNION Attr(s, "bad_flags")]}]

(* IpProtoSection::commit *)
CommitIpProto(conf, s) ==
    IF ~OnlyDelete(s) \/ \E n \in ToSet(s.body) : n > 255 THEN Throw(conf)
    ELSE IF Deletes(s) THEN [conf EXCEPT !.flags = @ \cup {<<"ip_proto", "OFF">>}]
    ELSE [conf EXCEPT !.ip_proto = IF s.body = <<>> THEN {} ELSE {ToSet(s.body)}]

(* DefaultsSection and its subsections: no protocol named means all of     *)
(* them, and no slot may be named twice.                                   *)
Slots(name, key) == {p \in (IF name = "icmp_default" THEN DOMAIN IpFlags ELSE DOMAIN ProtoFlags) :
                        \/ p = key
                        \/ key = "ip4" /\ p \in {"ip4.tcp", "ip4.udp"}
                        \/ key = "ip6" /\ p \in {"ip6.tcp", "ip6.udp"}}
DefaultSlots(sub, s) ==
    {<<sub.name, p>> : p \in IF s.attrs = <<>>
                             THEN IF sub.name = "icmp_default" THEN DOMAIN IpFlags ELSE DOMAIN ProtoFlags
                             ELSE UNION {Slots(sub.name, k) : k \in KeysOfAttrs(s)}}
SlotsNamedOnce(sub, s) ==
    \A i, j \in DOMAIN s.attrs :
        i # j => Slots(sub.name, s.attrs[i].k) \cap Slots(sub.name, s.attrs[j].k) = {}
CommitDefaults(conf, s) ==
    LET rule(sub) == [flags |-> DefaultSlots(sub, Section(sub)),
                      allow |-> AllowFlag(Section(sub)) # {},
                      ratelimit |-> Limit(Section(sub))]
    IN IF /\ conf.defaults = <<>>
          /\ \A sub \in ToSet(s.body) : /\ Section(sub).state = "End" /\ Section(sub).action # {}
                                        /\ SlotsNamedOnce(sub, Section(sub))
          /\ \A i, j \in DOMAIN s.body :
                i # j => rule(s.body[i]).flags \cap rule(s.body[j]).flags = {}
       THEN [conf EXCEPT !.defaults = Mapped(s.body, rule)] ELSE Throw(conf)

(* XfwSection::process_body *)
Commit(conf, sec) ==
    LET s == Section(sec) IN
    CASE ~conf.ok \/ s.state # "End"       -> Throw(conf)
      [] sec.name \in NetSections          -> CommitNetRule(conf, sec, s)
      [] sec.name = "icmp"                 -> CommitIcmp(conf, sec, s)
      [] sec.name = "ratelimit"            -> CommitRatelimit(conf, sec, s)
      [] sec.name = "tcp_flags"            -> CommitTcpFlags(conf, s)
      [] sec.name = "tcp_syncookies"       -> CommitSyncookie(conf, s)
      [] sec.name = "tcp_anomaly_filter"   -> CommitTcpAnomaly(conf, s)
      [] sec.name = "ip_proto"             -> CommitIpProto(conf, s)
      [] sec.name = "defaults"             -> CommitDefaults(conf, s)
      [] OTHER                             -> CommitSwitch(conf, sec, s)

parse_config(text) == FoldLeft(Commit, XfwConf, text)

-----------------------------------------------------------------------------
(* serialize: an absent number becomes 0. *)
serialize(conf) ==
    LET Ratelimit(r) == [alias |-> r.alias, flags |-> r.flags,
                         pps |-> Or(r.pps, 0), bps |-> Or(r.bps, 0)]
        Code(n) == [code |-> n.code, port |-> Or(n.port, 0)]
        Pair(p) == [port |-> p.from, port_end |-> Or(p.to, 0)]
        NetRule(r) == [r EXCEPT !.nets = Mapped(@, Code), !.ports = Mapped(@, Pair)]
    IN [conf EXCEPT !.ratelimits = Mapped(@, Ratelimit), !.net_rules = Mapped(@, NetRule)]

(* tcl_parse_conf *)
Message(text, patch) ==
    LET conf == serialize(parse_config(text)) IN
    IF patch THEN [conf EXCEPT !.flags = @ \cup {<<"XFW_CONFIG", "PATCH">>}] ELSE conf
=============================================================================
