----------------------------- MODULE DnsFilter ------------------------------
(***************************************************************************)
(* The verdicts of the DNS filter (bpf/dns.h) on a message, and the walk   *)
(* over a domain name.  FilterChain runs them and keeps MAP_DNS_EGR_FD,    *)
(* the transaction ids of the queries the host sent.                       *)
(*                                                                         *)
(* A message is a record: its header (hdr, FALSE if truncated), qr,        *)
(* opcode, rcode, the four counts, whether its question parses (question), *)
(* whether it asks for IXFR, and one entry per answer record: its TTL in   *)
(* weeks rounded up (0 for a TTL of 0), or -1 if it does not parse.        *)
(***************************************************************************)
EXTENDS Integers, Sequences

CONSTANTS MAX_DNS_NAME,   \* 255
          MAX_ANCOUNT,    \* 100
          NameBytes,      \* the bytes tried in a name
          MaxNameBuf      \* bound: length of the packets tried behind a name

ASSUME DnsFilterAssumption ==
    /\ MAX_DNS_NAME \in Nat \ {0} /\ MAX_ANCOUNT \in Nat /\ MaxNameBuf \in Nat
    /\ NameBytes \subseteq 0..255

-----------------------------------------------------------------------------
(* Names.  buf is the packet from the cursor on, offset counts from 0.     *)

DNS_NAME_COMPRESSION_LABEL == 192
IsPointer(o) == o >= DNS_NAME_COMPRESSION_LABEL
NotFound == -1

PointerSizeOne == 1
PointerSize == 2

(* Where the label at offset leads, and whether it ends the name. *)
process_label(buf, offset) ==
    LET o == buf[offset + 1]
    IN  IF offset > MAX_DNS_NAME \/ offset + 1 > Len(buf) THEN [r |-> "notfound", offset |-> 0]
        ELSE IF IsPointer(o) THEN [r |-> "found", offset |-> offset + PointerSize]
        ELSE IF o > 63 \/ offset + o + 1 > Len(buf) THEN [r |-> "notfound", offset |-> 0]
        ELSE [r |-> IF o = 0 THEN "found" ELSE "continue", offset |-> offset + o + 1]

(* A round of bpf_for; c = what the rounds before found. *)
NextLabel(buf, c) == IF c.r # "continue" THEN c ELSE process_label(buf, c.offset)

NameWalk(buf) ==
    LET loop[i \in 0..MAX_DNS_NAME] ==
            IF i = 0 THEN [r |-> "continue", offset |-> 0] ELSE NextLabel(buf, loop[i - 1])
    IN  loop

(* The cursor behind the name; something must follow. *)
process_dname(buf) ==
    LET end == NameWalk(buf)[MAX_DNS_NAME]
    IN  IF end.r = "found" /\ end.offset < Len(buf) THEN end.offset ELSE NotFound

(* Reference (RFC 1035): a name is a list of labels, s the places of their *)
(* length bytes, closed by an empty label or by a pointer at last.         *)
IsName(buf, s, last) ==
    /\ last \in s /\ 1 \in s
    /\ \A i \in s : i <= last
    /\ \A i \in s \ {last} : buf[i] \in 1..63 /\ i + buf[i] + 1 \in s
    /\ \A j \in s \ {1} : \E i \in s \ {last} : i + buf[i] + 1 = j
    /\ buf[last] = 0 \/ IsPointer(buf[last])

NameEnds(buf) ==
    {end \in 1..(Len(buf) - 1) :
       \E s \in SUBSET (1..Len(buf)), last \in 1..Len(buf) :
          /\ IsName(buf, s, last)
          /\ last - 1 <= MAX_DNS_NAME
          /\ end = IF buf[last] = 0 THEN last ELSE last + 1}

NameBufs == UNION {[1..n -> NameBytes] : n \in 0..MaxNameBuf}

WalkAgrees == \A buf \in NameBufs :
                 NameEnds(buf) = IF process_dname(buf) = NotFound THEN {} ELSE {process_dname(buf)}

-----------------------------------------------------------------------------
(* Verdicts. *)

MaxTtlWeeks == 1   \* 604800 seconds

process_ingress_dns_query(m) ==
    IF m.opcode # "QUERY" THEN "continue"
    ELSE IF m.rcode # "OK" THEN "drop"
    ELSE IF m.qdcount = 0 /\ m.ancount = 0 /\ m.nscount = 0 /\ m.arcount = 1
         THEN "continue"                          \* EDNS only
    ELSE IF m.qdcount # 1 \/ ~m.question \/ m.nscount # 0 THEN "drop"
    ELSE IF m.ixfr THEN "continue"
    ELSE IF m.ancount # 0 \/ m.arcount > 2 THEN "drop"
    ELSE "continue"

GoodRecord(rr) == rr \in 1..MaxTtlWeeks

(* asked: the transaction id is in MAP_DNS_EGR_FD. *)
process_ingress_dns_response(m, asked) ==
    IF /\ asked /\ ~m.large /\ m.qdcount = 1 /\ m.question
       /\ m.ancount <= MAX_ANCOUNT
       /\ \A i \in 1..m.ancount : GoodRecord(m.answers[i])
    THEN "continue" ELSE "drop"

ingress_dns_filter_global(m, asked) ==
    IF ~m.hdr THEN "drop"
    ELSE IF m.qr = "query" THEN process_ingress_dns_query(m)
    ELSE process_ingress_dns_response(m, asked)

(* egress_dns_filter: whether the id of a message that leaves is recorded. *)
Recorded(m) == m.hdr /\ m.qr = "query"
=============================================================================
