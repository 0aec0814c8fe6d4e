----------------------------- MODULE SynCookies -----------------------------
(***************************************************************************)
(* The algorithms of the SYN cookie filter (bpf/tcp_syncookies.h): when    *)
(* cookies are used, what is read from the options of a SYN and what the   *)
(* SYN-ACK built in place carries.  They are pure; FilterChain runs them.  *)
(*                                                                         *)
(* Sizes are CONSTANTS so that TLC meets every boundary: the option area   *)
(* and the timestamp option are shorter than in TCP, an Internet checksum  *)
(* has words of WordBits bits and a timestamp TsWidth bits.                *)
(***************************************************************************)
EXTENDS Powers, Integers, Sequences, FiniteSets

CONSTANTS TCP_OPTS_MAX,         \* length of the option area, 40 bytes
          TCPOPT_TIMESTAMP_SZ,  \* 10 bytes: 2 + a value + an echo
          TCPOPT_WSCALE_MAX,    \* 14
          WordBits,             \* 16
          TsWidth,              \* 32
          OptBytes              \* the bytes tried in an option area

ASSUME SynCookiesAssumption ==
    /\ TCP_OPTS_MAX \in Nat /\ TCPOPT_TIMESTAMP_SZ \in Nat /\ TCPOPT_TIMESTAMP_SZ > 2
    /\ TCPOPT_WSCALE_MAX \in 1..14
    /\ WordBits \in Nat \ {0, 1} /\ TsWidth \in Nat /\ TsWidth > 6
    /\ OptBytes \subseteq 0..255

-----------------------------------------------------------------------------
(* Per-CPU timers, ts = [try |-> last_try_jiff, gen |-> last_gen_jiff];    *)
(* ck = rules.syncookie.                                                   *)

tcp_syncookies_flood_mode(ck, ts, now)   == ck.flood >= now - ts.gen
tcp_syncookies_passive_mode(ck, ts, now) == ck.passive <= now - ts.try

(* Either mode being on is an attempt. *)
Attempts(ck, ts, now) == \/ tcp_syncookies_flood_mode(ck, ts, now)
                         \/ tcp_syncookies_passive_mode(ck, ts, now)

-----------------------------------------------------------------------------
(* TCP options.  c = the XfwTCPOptCtx: the area, the offset of the next    *)
(* option, what was read, and err (0, or an errno once the loop stopped).  *)

TCPOPT_EOL == 0
TCPOPT_NOP == 1
TCPOPT_WSCALE == 3
TCPOPT_SACK_PERM == 4
TCPOPT_TIMESTAMP == 8

NoOpts == [wscale |-> 0, sack |-> FALSE, ts |-> 0]
CapWscale(ws) == IF ws <= TCPOPT_WSCALE_MAX THEN ws ELSE TCPOPT_WSCALE_MAX

Fail(c, e) == [c EXCEPT !.err = e, !.stop = TRUE]

(* One iteration of bpf_loop. *)
tcp_parse_one_opt(c) ==
    LET n    == Len(c.buf)
        kind == c.buf[c.off + 1]
        len  == c.buf[c.off + 2]
        skip == [c EXCEPT !.off = @ + len]
    IN  IF c.stop THEN c
        ELSE IF c.off >= n THEN Fail(c, "ok")
        ELSE IF kind = TCPOPT_EOL THEN Fail(c, "ok")
        ELSE IF kind = TCPOPT_NOP THEN [c EXCEPT !.off = @ + 1]
        ELSE IF c.off + 2 > n \/ len < 2 \/ c.off + len > n THEN Fail(c, "EINVAL")
        ELSE IF kind = TCPOPT_WSCALE
             THEN IF len # 3 THEN Fail(c, "EINVAL")
                  ELSE [skip EXCEPT !.opts.wscale = CapWscale(c.buf[c.off + 3])]
        ELSE IF kind = TCPOPT_SACK_PERM
             THEN IF len # 2 THEN Fail(c, "EINVAL") ELSE [skip EXCEPT !.opts.sack = TRUE]
        ELSE IF kind = TCPOPT_TIMESTAMP
             THEN IF len # TCPOPT_TIMESTAMP_SZ THEN Fail(c, "EINVAL")
                  ELSE [skip EXCEPT !.opts.ts = IF @ = 0 THEN c.buf[c.off + 3] ELSE @]
        ELSE skip

OptLoopsShort == TCP_OPTS_MAX   \* mutant: one iteration per byte of options
OptLoops      == TCP_OPTS_MAX + 1

(* bpf_loop(OptLoops, tcp_parse_one_opt) *)
OptLoop(buf) ==
    LET start == [buf |-> buf, off |-> 0, opts |-> NoOpts, err |-> "E2BIG", stop |-> FALSE]
        loop[i \in 0..OptLoops] == IF i = 0 THEN start ELSE tcp_parse_one_opt(loop[i - 1])
    IN  loop

(* A loop that never stopped is E2BIG. *)
tcp_parse_opts(buf) ==
    LET end == OptLoop(buf)[OptLoops]
    IN  IF Len(buf) > TCP_OPTS_MAX THEN [err |-> "E2BIG", opts |-> NoOpts]
        ELSE [err |-> end.err, opts |-> end.opts]

(* Reference: an option area is a list of options that fill it, or that an *)
(* EOL ends; s holds the places where an option starts.                    *)
OptLen(buf, i) == IF buf[i] = TCPOPT_NOP THEN 1
                  ELSE IF i < Len(buf) THEN buf[i + 1] ELSE 0

WellFormedOpt(buf, i) ==
    \/ buf[i] = TCPOPT_NOP
    \/ /\ OptLen(buf, i) >= 2 /\ i + OptLen(buf, i) <= Len(buf) + 1
       /\ buf[i] = TCPOPT_WSCALE => OptLen(buf, i) = 3
       /\ buf[i] = TCPOPT_SACK_PERM => OptLen(buf, i) = 2
       /\ buf[i] = TCPOPT_TIMESTAMP => OptLen(buf, i) = TCPOPT_TIMESTAMP_SZ

IsOptList(buf, s, end) ==
    /\ s \subseteq 1..(end - 1)
    /\ s = {} <=> end = 1
    /\ \A i \in s : buf[i] # TCPOPT_EOL /\ WellFormedOpt(buf, i)
    /\ s # {} => 1 \in s
    /\ \A i \in s : i + OptLen(buf, i) \in s \cup {end}
    /\ \A j \in s \ {1} : \E i \in s : i < j /\ i + OptLen(buf, i) = j
    /\ end = Len(buf) + 1 \/ buf[end] = TCPOPT_EOL

OptLists(buf) == {s \in SUBSET (1..Len(buf)) :
                    \E end \in 1..(Len(buf) + 1) : IsOptList(buf, s, end)}

(* The last window scale, the first timestamp that is not 0. *)
OptValues(buf, s) ==
    LET of(k) == {i \in s : buf[i] = k}
        last(t) == CHOOSE i \in t : \A j \in t : j <= i
        first(t) == CHOOSE i \in t : \A j \in t : i <= j
        ts == {i \in of(TCPOPT_TIMESTAMP) : buf[i + 2] # 0}
    IN  [wscale |-> IF of(TCPOPT_WSCALE) = {} THEN 0
                    ELSE CapWscale(buf[last(of(TCPOPT_WSCALE)) + 2]),
         sack   |-> of(TCPOPT_SACK_PERM) # {},
         ts     |-> IF ts = {} THEN 0 ELSE buf[first(ts) + 2]]

OptAreas == UNION {[1..n -> OptBytes] : n \in 0..TCP_OPTS_MAX}

OptionsAgree ==
    \A buf \in OptAreas :
        LET r == tcp_parse_opts(buf)
        IN  IF OptLists(buf) = {} THEN r.err = "EINVAL"
            ELSE r.err = "ok" /\ \A s \in OptLists(buf) : r.opts = OptValues(buf, s)

-----------------------------------------------------------------------------
(* The SYN-ACK. *)

TSBITS == 6
TCPOPT_WSCALE_MASK == 15

(* The options of the client in the low bits of a timestamp not in the     *)
(* future, wrapping around like uint32_t.                                  *)
tcp_syncookies_make_cookie_ts(opts, ece, ts_now) ==
    LET co == (IF opts.wscale # 0 THEN opts.wscale % 16 ELSE TCPOPT_WSCALE_MASK)
              + (IF opts.sack THEN 16 ELSE 0) + (IF ece THEN 32 ELSE 0)
        ts == (ts_now \div 64) * 64 + co
    IN  IF ts > ts_now THEN (ts - 64) % Pow2[TsWidth] ELSE ts

(* The option words written, given the words of space behind the header. *)
tcp_syncookies_write_opts(space, opts) ==
    IF space < 1 THEN <<>>
    ELSE IF space < 2 THEN <<"mss">>
    ELSE IF space < 3 THEN <<"mss", "wscale">>
    ELSE IF opts.ts = 0 \/ space < 5
         THEN <<"mss", "wscale">> \o (IF opts.sack THEN <<"sack">> ELSE <<>>)
    ELSE <<"mss", "wscale", IF opts.sack THEN "sack+ts" ELSE "ts", "cookie", "echo">>

(* Lengths in words: the SYN has a TCP header of doff, fills ip_len words  *)
(* of its IP packet from there on and lies in a frame with frame words     *)
(* from there on (Ethernet padding included).                              *)
tcp_syncookies_make_synack(doff, ip_len, frame, opts) ==
    LET written  == tcp_syncookies_write_opts(frame - 5, opts)
        new_doff == 5 + Len(written)
    IN  [doff |-> new_doff, opts |-> written, ip_len |-> ip_len + (new_doff - doff),
         ok |-> new_doff <= frame]

-----------------------------------------------------------------------------
(* Internet checksums, in words of WordBits bits. *)

Word     == Pow2[WordBits]
Low(v)   == v % Word
High(v)  == v \div Word
Not(v)   == Word - 1 - v              \* ~ of one word
NotWide(v) == Word * Word - 1 - v     \* ~ of a word promoted to twice its width

csum_fold(csum64) ==
    LET round(v) == IF High(v) # 0 THEN Low(v) + High(v) ELSE v
    IN  Not(Low(round(round(round(round(csum64))))))

csum_unfold(csum) == Not(csum)

(* ipv4_set_ttl_csum, ipv4_set_tot_len_csum: replace a word of the header. *)
ReplaceWord(csum64, old, new) == csum64 + NotWide(old) + new

(* tcp_ipv4_csum_update, tcp_ipv6_csum_update: addrs, the sum of addresses *)
(* cut into double words (2 or 8), and the length are added to the sum of  *)
(* the header and folded.                                                  *)
tcp_csum_update(addrs, len, csum) ==
    LET wide == Word * Word
        once(v) == (v % wide) + (v \div wide)
    IN  csum_fold(once(once(csum + addrs + len)) % wide)

(* Reference: the complement of the one's complement sum of the words. *)
OnesSum(sum) == IF sum = 0 THEN 0 ELSE ((sum - 1) % (Word - 1)) + 1
Checksum(sum) == Not(OnesSum(sum))

Edge == {0, 1, Word - 1, Word, Word + 1, Word * (Word - 1), Word * Word - 1}

ChecksumsAgree ==
    /\ \A v \in 0..(Word * Word * Word * Word - 1) : csum_fold(v) = Checksum(v)
    /\ \A ttl, len, rest, new_ttl, new_len \in {0, 1, 2, Word - 2, Word - 1} :
          ttl + len + rest > 0 /\ new_ttl + new_len + rest > 0 =>
            csum_fold(ReplaceWord(ReplaceWord(csum_unfold(Checksum(ttl + len + rest)),
                                              ttl, new_ttl), len, new_len))
              = Checksum(new_ttl + new_len + rest)
    /\ \A csum, a, b, len \in Edge, n \in {1, 4} :
          tcp_csum_update(n * a + n * b, len, csum) = Checksum(csum + n * a + n * b + len)

-----------------------------------------------------------------------------
(* The kernel reads the options of the client back from the timestamp.     *)
Decoded(ts) == [wscale |-> ts % 16, sack |-> (ts \div 16) % 2 = 1, ece |-> (ts \div 32) % 2 = 1]

CookieTsAgrees ==
    \A ts_now \in 0..(Pow2[TsWidth] - 1), ws \in 0..14, sack \in BOOLEAN, ece \in BOOLEAN :
        LET ts == tcp_syncookies_make_cookie_ts([wscale |-> ws, sack |-> sack, ts |-> 1],
                                                ece, ts_now)
        IN  /\ (ts_now - ts) % Pow2[TsWidth] < 2 * 64
            /\ Decoded(ts) = [wscale |-> IF ws = 0 THEN TCPOPT_WSCALE_MASK ELSE ws,
                              sack |-> sack, ece |-> ece]

(* A SYN that carries no data is answered by a packet that lies in its     *)
(* frame and is as long as its header says.                                *)
LengthsAgree ==
    \A doff \in 5..15, pad \in 0..3, sack \in BOOLEAN, ts \in 0..1 :
        LET r == tcp_syncookies_make_synack(doff, doff, doff + pad,
                                            [wscale |-> 0, sack |-> sack, ts |-> ts])
        IN  r.ok /\ r.ip_len = r.doff /\ r.ip_len <= doff + pad

SynAckAgrees == OptionsAgree /\ ChecksumsAgree /\ CookieTsAgrees /\ LengthsAgree
=============================================================================
