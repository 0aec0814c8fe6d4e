------------------------------- MODULE TcpAuth -------------------------------
(***************************************************************************)
(* The TCP authentication filter (bpf/tcp_auth.h): a map of trusted peer   *)
(* addresses shared by the ingress program (xdp.c), which drops TCP        *)
(* packets of unknown or long closed connections, and the egress program   *)
(* (tc.c), which learns connections from what the host sends.  The         *)
(* programs run on several CPUs; each map operation and each access to an  *)
(* entry through the pointer a lookup returned is a step.                  *)
(*                                                                         *)
(* External: BPF_MAP_TYPE_LRU_HASH keeps its elements in a fixed pool.  A  *)
(* deleted element is recycled at once, so a pointer into it may point to  *)
(* the entry of another connection; a full map evicts an entry to make     *)
(* room (here: any).                                                       *)
(*                                                                         *)
(* An ingress SYN without ACK never reaches this filter (tcp_flags_filter).*)
(***************************************************************************)
EXTENDS Naturals, FiniteSets

CONSTANTS NoAddr,
          Elem, NoElem,   \* the elements of the map
          Setting,        \* the settings considered: see SettingType
          MaxTime         \* bound: last jiffy of a behaviour

NoFin == MaxTime + 1      \* TCP_AUTH_CONN_MAX_FIN_TIME_JIFF, "Keep timeout math bounded"
Time  == 0..MaxTime

SettingType(s) ==
    /\ NoAddr \notin s.addrs /\ s.addrs # {}
    /\ s.cpus # {} /\ IsFiniteSet(s.cpus)
    /\ s.timeout \in Nat      \* TCP_AUTH_CONN_CLOSE_TIMEOUT_JIFF
    /\ s.toggle \in BOOLEAN   \* whether the filter is ever switched off
    /\ s.reuse \in BOOLEAN    \* whether a port is reused before its close timed out
    /\ s.last \in Time        \* bound: last jiffy in this setting

ASSUME TcpAuthAssumption ==
    /\ NoElem \notin Elem
    /\ MaxTime \in Nat
    /\ \A s \in Setting : SettingType(s)

VARIABLES
    set,       \* the setting of a behaviour: machine, peers and traffic
    elem,      \* MAP_TCP_CONN: key and last_fin_time_jiff of each element
    enabled,   \* cfg->rules.tcp_auth.enabled
    now,
    pc, pkt,   \* the program on each CPU and its packet
    entered,   \* history: the connection its packet came in on, unless closed since
    conn,      \* the pointer it got from tcp_auth_conn_lookup
    flow,      \* history: the connection the filter has to serve at each address
    finAt,     \* history: its latest FIN
    spoke,     \* history: the host has sent on it since its close timed out
    observed   \* history: the host has opened or used it in a way to learn from

histVars == <<flow, finAt, spoke, observed>>
vars == <<set, elem, enabled, now, pc, pkt, entered, conn, histVars>>

Addr    == set.addrs
CPU     == set.cpus
Timeout == set.timeout

Free == [key |-> NoAddr, fin |-> NoFin]
Packet == [dir : {"in"}, kind : {"normal", "fin", "rst"}, addr : Addr]
          \cup [dir : {"out"}, kind : {"normal", "syn", "fin", "rst"}, addr : Addr]

Init == /\ set \in Setting
        /\ elem = [e \in Elem |-> Free]
        /\ enabled \in (IF set.toggle THEN {FALSE} ELSE {TRUE})
        /\ now = 0
        /\ pc = [c \in CPU |-> "idle"]
        /\ pkt \in [CPU -> {[dir |-> "in", kind |-> "normal", addr |-> a] :
                             a \in {CHOOSE x \in Addr : TRUE}}]
        /\ entered = [c \in CPU |-> "none"]
        /\ conn = [c \in CPU |-> NoElem]
        /\ flow \in [Addr -> IF set.toggle THEN {"none", "old"} ELSE {"none"}]
        /\ finAt = [a \in Addr |-> NoFin]
        /\ spoke = [a \in Addr |-> FALSE]
        /\ observed = [a \in Addr |-> FALSE]

Goto(c, l) == pc' = [pc EXCEPT ![c] = l]
In(c) == pkt[c].dir = "in"

-----------------------------------------------------------------------------
(* History: a connection closes when its FIN or RST arrives and opens when *)
(* the packet that opens it has left the host; one older than the program  *)
(* is live from the first packet the program could learn it from.          *)

TimedOut(a) == finAt[a] # NoFin /\ finAt[a] + Timeout < now

Closes(p) == flow' = [flow EXCEPT ![p.addr] =
                        IF p.kind = "rst" THEN "none"
                        ELSE IF p.kind = "fin" /\ @ # "none" THEN "closing" ELSE @]

Through(p) ==
    /\ flow' = [flow EXCEPT ![p.addr] =
                  IF p.dir = "out" /\ (p.kind = "syn" \/ (p.kind = "normal" /\ @ = "old" /\ ~enabled))
                  THEN "live" ELSE @]
    /\ finAt' = [finAt EXCEPT ![p.addr] =
                   IF p.kind = "fin" THEN now ELSE IF p.kind = "syn" THEN NoFin ELSE @]
    /\ spoke' = [spoke EXCEPT ![p.addr] =
                   IF p.kind = "normal" THEN @ \/ (p.dir = "out" /\ TimedOut(p.addr))
                   ELSE FALSE]

(* Environment: a connection is not opened and closed at the same moment,  *)
(* and without reuse a port rests until its last FIN has timed out.        *)
InFlight(a, kinds) == \E c \in CPU : pc[c] # "idle" /\ pkt[c].addr = a /\ pkt[c].kind \in kinds
Sent(p) ==
    /\ p.kind = "syn" => /\ ~InFlight(p.addr, {"fin", "rst"})
                         /\ set.reuse \/ finAt[p.addr] = NoFin \/ TimedOut(p.addr)
    /\ p.kind \in {"fin", "rst"} => ~InFlight(p.addr, {"syn"})

(* The program ends; a packet the egress program has seen always leaves. *)
Leave(c) == IF In(c) THEN Goto(c, "accept") /\ UNCHANGED <<flow, finAt, spoke>>
            ELSE Goto(c, "idle") /\ Through(pkt[c])

-----------------------------------------------------------------------------
(* A packet reaches tcp_auth_conn_ingress_filter or                        *)
(* tcp_auth_conn_egress_learning.                                          *)
Receive(c, p) ==
    /\ pc[c] = "idle"
    /\ Sent(p)
    /\ pkt' = [pkt EXCEPT ![c] = p]
    /\ entered' = [d \in CPU |->
                     IF d = c THEN flow[p.addr]
                     ELSE IF pkt[d].addr = p.addr /\ p.kind \in {"fin", "rst"} THEN "none"
                     ELSE entered[d]]
    /\ conn' = [conn EXCEPT ![c] = NoElem]
    /\ Closes(p)
    /\ Goto(c, IF p.dir = "in" THEN IF enabled THEN "lookup" ELSE "pass"
               ELSE IF p.kind = "rst" THEN "delete" ELSE "lookup")
    /\ observed' = [observed EXCEPT ![p.addr] =
                      @ \/ (p.dir = "out" /\ (p.kind = "syn" \/ ~enabled))]
    /\ UNCHANGED <<set, elem, enabled, now, finAt, spoke>>

(* tcp_auth_conn_lookup *)
Lookup(c) ==
    /\ pc[c] = "lookup"
    /\ IF \E e \in Elem : elem[e].key = pkt[c].addr
       THEN /\ \E e \in Elem : elem[e].key = pkt[c].addr /\ conn' = [conn EXCEPT ![c] = e]
            /\ Goto(c, IF ~In(c) /\ pkt[c].kind = "fin" THEN "set_fin" ELSE "check")
       ELSE /\ UNCHANGED conn
            /\ Goto(c, IF In(c) THEN "drop" ELSE "learn")
    /\ UNCHANGED <<set, elem, enabled, now, pkt, entered, histVars>>

(* tcp_auth_is_conn_outdated *)
Outdated(c) == elem[conn[c]].fin # NoFin /\ elem[conn[c]].fin + Timeout < now

CheckKeepsOutdated(c) ==
    /\ pc[c] = "check"
    /\ \/ Outdated(c) /\ ~In(c) /\ Goto(c, "clamp") /\ UNCHANGED histVars
       \/ In(c) /\ Leave(c) /\ UNCHANGED observed
    /\ UNCHANGED <<set, elem, enabled, now, pkt, entered, conn>>

Check(c) ==
    /\ pc[c] = "check"
    /\ \/ /\ Outdated(c)
          /\ Goto(c, IF In(c) THEN "expire" ELSE "clamp")
          /\ UNCHANGED histVars
       \/ /\ ~Outdated(c) /\ In(c) /\ pkt[c].kind # "normal"
          /\ Goto(c, IF pkt[c].kind = "rst" THEN "delete" ELSE "set_fin")
          /\ UNCHANGED histVars
       \/ /\ ~Outdated(c) /\ (~In(c) \/ pkt[c].kind = "normal")
          /\ Leave(c)
          /\ UNCHANGED observed
    /\ UNCHANGED <<set, elem, enabled, now, pkt, entered, conn>>

(* tcp_auth_conn_delete: the element keeps its value until it is reused. *)
Deleted(a) == [e \in Elem |-> IF elem[e].key = a THEN [elem[e] EXCEPT !.key = NoAddr]
                                                 ELSE elem[e]]

Expire(c) ==
    /\ pc[c] = "expire"
    /\ elem' = Deleted(pkt[c].addr)
    /\ Goto(c, "drop")
    /\ flow' = [flow EXCEPT ![pkt[c].addr] =
                  IF TimedOut(pkt[c].addr) /\ @ = "closing" THEN "none" ELSE @]
    /\ UNCHANGED <<set, enabled, now, pkt, entered, conn, finAt, spoke, observed>>

Delete(c) ==
    /\ pc[c] = "delete"
    /\ elem' = Deleted(pkt[c].addr)
    /\ Leave(c)
    /\ UNCHANGED <<set, enabled, now, pkt, entered, conn, observed>>

(* tcp_auth_conn_set_fin_time: a store through the pointer, whatever the   *)
(* element holds by now                                                    *)
SetFinOnce(c) ==
    /\ pc[c] = "set_fin"
    /\ elem' = [elem EXCEPT ![conn[c]].fin = IF @ = NoFin THEN now ELSE @]
    /\ Leave(c)
    /\ UNCHANGED <<set, enabled, now, pkt, entered, conn, observed>>

SetFin(c) ==
    /\ pc[c] = "set_fin"
    /\ elem' = [elem EXCEPT ![conn[c]].fin = now]
    /\ Leave(c)
    /\ UNCHANGED <<set, enabled, now, pkt, entered, conn, observed>>

(* "If the close grace period expired, clamp the state back to max age." *)
ClampSkipped(c) ==
    /\ pc[c] = "clamp"
    /\ Leave(c)
    /\ UNCHANGED <<set, elem, enabled, now, pkt, entered, conn, observed>>

Clamp(c) ==
    /\ pc[c] = "clamp"
    /\ elem' = [elem EXCEPT ![conn[c]].fin = NoFin]
    /\ Leave(c)
    /\ UNCHANGED <<set, enabled, now, pkt, entered, conn, observed>>

(* tcp_auth_conn_add: bpf_map_update_elem links a new element and frees    *)
(* the one that had the key.                                               *)
Available == {e \in Elem : elem[e].key = NoAddr}

Add(a) == \E e \in (IF Available # {} THEN Available ELSE Elem) :
    elem' = [Deleted(a) EXCEPT ![e] = [key |-> a, fin |-> NoFin]]

(* The filter is off, or the packet opens a connection. *)
LearnsAnything(c) == TRUE
Learns(c) == ~enabled \/ pkt[c].kind = "syn"

Learn(c) ==
    /\ pc[c] = "learn"
    /\ IF Learns(c) THEN Add(pkt[c].addr) ELSE UNCHANGED elem
    /\ Leave(c)
    /\ UNCHANGED <<set, enabled, now, pkt, entered, conn, observed>>

(* XFW_CTX_CONTINUE, by the filter or past it, and the packet reaches the   *)
(* host; or a drop                                                         *)
Accept(c) ==
    /\ pc[c] \in {"accept", "pass"}
    /\ Goto(c, "idle")
    /\ Through(pkt[c])
    /\ UNCHANGED <<set, elem, enabled, now, pkt, entered, conn, observed>>

Drop(c) ==
    /\ pc[c] = "drop"
    /\ Goto(c, "idle")
    /\ UNCHANGED <<set, elem, enabled, now, pkt, entered, conn, histVars>>

(* set_simple_rules; packets in flight read the new value *)
Switch ==
    /\ set.toggle
    /\ enabled' = ~enabled
    /\ observed' = [a \in Addr |-> observed[a] \/ (enabled /\ \E c \in CPU :
                      pc[c] # "idle" /\ ~In(c) /\ pkt[c].addr = a)]
    /\ UNCHANGED <<set, elem, now, pc, pkt, entered, conn, flow, finAt, spoke>>

(* A step of the clock is a good part of a minute: no program runs that long. *)
Tick ==
    /\ now < set.last
    /\ \A c \in CPU : pc[c] = "idle"
    /\ now' = now + 1
    /\ UNCHANGED <<set, elem, enabled, pc, pkt, entered, conn, histVars>>

Step(c) == \/ Lookup(c) \/ Check(c) \/ Expire(c) \/ Delete(c) \/ SetFin(c)
           \/ Clamp(c) \/ Learn(c) \/ Accept(c) \/ Drop(c)

Next == \/ \E c \in CPU : Step(c)
        \/ \E c \in CPU, p \in Packet : Receive(c, p)
        \/ Switch \/ Tick

Spec == Init /\ [][Next]_vars

-----------------------------------------------------------------------------
(* Properties *)

(* The shape of the state; no address has two elements. *)
TypeOK ==
    /\ set \in Setting
    /\ elem \in [Elem -> [key : Addr \cup {NoAddr}, fin : Time \cup {NoFin}]]
    /\ \A e, f \in Elem : (elem[e].key = elem[f].key /\ elem[e].key # NoAddr) => e = f
    /\ pc \in [CPU -> {"idle", "lookup", "check", "expire", "delete", "set_fin", "clamp",
                       "learn", "accept", "pass", "drop"}]
    /\ pkt \in [CPU -> Packet]
    /\ conn \in [CPU -> Elem \cup {NoElem}]
    /\ flow \in [Addr -> {"none", "old", "live", "closing"}]

(* "The filter blocks ACK and RST floods for TCP flows, which it didn't    *)
(* observe SYN packets for" (tcp_auth.h:7-8): while it is on, a packet is  *)
(* let through only for an address the host itself has opened a connection *)
(* with, or sent to while the filter was learning.                         *)
OnlyObserved == \A c \in CPU : pc[c] = "accept" => observed[pkt[c].addr]

(* "all new connections are tracked via SYN handling in tc.c, so here we   *)
(* can rely on all existing connections" (xdp.c:531-532) and "it's         *)
(* possible to enable the filter during active TCP flows" (tcp_auth.h:34-  *)
(* 35): no packet of a connection that neither side has closed is dropped. *)
(* On one CPU: two may race, one deleting the outdated entry the other has *)
(* just revived.                                                           *)
LiveNotDropped ==
    Cardinality(CPU) = 1 => \A c \in CPU : pc[c] = "drop" => ~(entered[c] = "live" /\ flow[pkt[c].addr] = "live")

(* "Keep a closing connection for one minute after the latest FIN observed *)
(* from either direction" (tcp_auth.h:78-79), first half: a closing        *)
(* connection is served that long, if one CPU handles it and the filter    *)
(* has been on all the time.                                               *)
Undisturbed == Cardinality(CPU) = 1 /\ ~set.toggle
GraceKept ==
    Undisturbed => \A c \in CPU : pc[c] = "drop" =>
        ~(entered[c] = "closing" /\ flow[pkt[c].addr] = "closing" /\ ~TimedOut(pkt[c].addr))

(* Second half: and no longer, unless the host itself still sends on it.   *)
(* (A connection closed while the filter is off stays trusted for ever: an *)
(* ingress FIN is not recorded then, and an egress FIN without an entry    *)
(* adds one.)                                                              *)
ClosedExpires ==
    Undisturbed => \A c \in CPU : pc[c] = "accept" =>
        (TimedOut(pkt[c].addr) => spoke[pkt[c].addr])
=============================================================================
