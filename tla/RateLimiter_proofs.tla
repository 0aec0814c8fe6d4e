------------------------- MODULE RateLimiter_proofs -------------------------
(***************************************************************************)
(* Proofs about RateLimiter for any number of CPUs, any window, rate and   *)
(* packet sizes: what the races of the limiter can and cannot do, and what *)
(* it guarantees on one CPU.                                               *)
(***************************************************************************)
EXTENDS RateLimiter, Counting

LEMMA DivLag ==
    ASSUME NEW x \in Nat, NEW y \in Nat, NEW b \in Nat \ {0}, x <= y, y - x <= b
    PROVE  x \div b <= y \div b /\ y \div b <= x \div b + 1
  BY DivFacts

(* Neighbouring windows use different slots. *)
LEMMA Parity ==
    ASSUME NEW w \in Int, NEW v \in Int
    PROVE  /\ w % 2 \in 0..1 /\ (w + 1) % 2 \in 0..1 /\ w % 2 # (w + 1) % 2
           /\ w % 2 = v % 2 => v # w + 1 /\ w # v + 1
           /\ w % 2 = (v + 1) % 2 => v # w
  OBVIOUS

LEMMA DivMono ==
    ASSUME NEW x \in Nat, NEW y \in Nat, NEW b \in Nat \ {0}, x <= y
    PROVE  x \div b <= y \div b
  BY DivFacts

(* The weighted share of a previous window *)
LEMMA Share ==
    ASSUME NEW p \in Nat, NEW b \in Nat \ {0}, NEW o \in 0..b
    PROVE  (p * o) \div b \in Nat /\ (p * o) \div b <= p
<1>1. p * o \in Nat /\ p * o <= p * b
  OBVIOUS
<1>2. p * b \in Nat /\ (p * b) \div b = p
  <2>1. p * b \in Nat
    OBVIOUS
  <2> QED
    BY <2>1, DivUnique
<1> QED
  BY <1>1, <1>2, DivMono, DivFacts

LEMMA ShareMono ==
    ASSUME NEW p \in Nat, NEW b \in Nat \ {0}, NEW o \in 0..b, NEW x \in 0..o
    PROVE  (p * x) \div b <= (p * o) \div b
<1>1. p * x \in Nat /\ p * o \in Nat /\ p * x <= p * o
  OBVIOUS
<1> QED
  BY <1>1, DivMono

(* The most that n wipes of a window can hide, at a limit of P packets *)
Hidden(P, n) == n * P + (n * (n - 1)) \div 2

LEMMA Triangle ==
    ASSUME NEW P \in Nat, NEW n \in Nat
    PROVE  /\ Hidden(P, n) \in Nat
           /\ Hidden(P, n + 1) = Hidden(P, n) + P + n
<1>1. n * (n - 1) \in Nat /\ (n + 1) * n \in Nat /\ (n + 1) * n = n * (n - 1) + 2 * n
  <2>1. CASE n = 0
    BY <2>1
  <2>2. CASE n # 0
    BY <2>2
  <2> QED BY <2>1, <2>2
<1>2. ((n + 1) * n) \div 2 = (n * (n - 1)) \div 2 + n
  BY <1>1
<1>3. (n + 1) * P = n * P + P /\ n * P \in Nat
  OBVIOUS
<1>4. (n * (n - 1)) \div 2 \in Nat
  BY <1>1
<1>5. Hidden(P, n + 1) = (n + 1) * P + ((n + 1) * n) \div 2
  BY DEF Hidden
<1> QED
  BY <1>2, <1>3, <1>4, <1>5 DEF Hidden

LEMMA TriangleMono ==
    ASSUME NEW P \in Nat, NEW n \in Nat, NEW m \in Nat, n <= m
    PROVE  Hidden(P, n) <= Hidden(P, m)
<1>1. n * P <= m * P /\ n * P \in Nat /\ m * P \in Nat
  OBVIOUS
<1>2. n * (n - 1) \in Nat /\ m * (m - 1) \in Nat /\ n * (n - 1) <= m * (m - 1)
  <2>1. CASE n = 0
    <3>1. m * (m - 1) \in Nat
      <4>1. CASE m = 0
        BY <4>1
      <4>2. CASE m # 0
        BY <4>2
      <4> QED BY <4>1, <4>2
    <3> QED BY <2>1, <3>1
  <2>2. CASE n # 0
    BY <2>2
  <2> QED BY <2>1, <2>2
<1>3. (n * (n - 1)) \div 2 <= (m * (m - 1)) \div 2
  BY <1>2, DivMono
<1>4. (n * (n - 1)) \div 2 \in Nat /\ (m * (m - 1)) \div 2 \in Nat
  BY <1>2, DivFacts
<1> QED
  BY <1>1, <1>3, <1>4 DEF Hidden

(* What the share leaves out of p is at most a share of the limit, rounded *)
(* up.                                                                    *)
LEMMA Slide ==
    ASSUME NEW p \in Nat, NEW P \in Nat, NEW b \in Nat \ {0}, NEW x \in Nat, NEW o \in Nat,
           p <= P, x <= o, o < b
    PROVE  p - (p * (b - x)) \div b <= (P * o + b - 1) \div b
<1>1. b - x \in Nat /\ p * (b - x) \in Nat
  OBVIOUS
<1>2. PICK q \in Nat : q = (p * (b - x)) \div b /\ p * (b - x) < b * q + b
  BY <1>1, DivFacts
<1>3. P * o + b - 1 \in Nat
  OBVIOUS
<1>4. PICK r \in Nat : r = (P * o + b - 1) \div b /\ P * o + b - 1 < b * r + b
  BY <1>3, DivFacts
<1>5. p * x <= P * o
  <2>1. p * x <= P * x
    OBVIOUS
  <2>2. P * x <= P * o
    OBVIOUS
  <2> QED BY <2>1, <2>2
<1>6. p * (b - x) = p * b - p * x
  OBVIOUS
<1>7. b * (p - q) < b * (r + 1)
  <2>1. b * (p - q) = b * p - b * q /\ b * (r + 1) = b * r + b /\ b * p = p * b
    OBVIOUS
  <2> QED
    BY <1>2, <1>4, <1>5, <1>6, <2>1
<1>8. p - q < r + 1
  <2> SUFFICES ASSUME r + 1 <= p - q PROVE FALSE
    OBVIOUS
  <2>1. b * (r + 1) <= b * (p - q)
    OBVIOUS
  <2> QED
    BY <1>7, <2>1
<1> QED
  BY <1>2, <1>4, <1>8

-----------------------------------------------------------------------------
Win    == 0..(set.last \div W)
Field  == {"pkts", "bytes"}
Thru(w, f) == Through(w * W, w * W + W - 1, f)

(* A packet of the window may still be under way. *)
Open(w) == now <= w * W + W - 1 + MaxLag

(* No packet is in flight for longer than MaxLag, so the packets in flight *)
(* are of two adjacent windows at most, and those that share a slot are of *)
(* one window.                                                             *)
Clocked ==
    /\ \A c \in CPU : pc[c] # "idle" => now - pkt[c].ts <= MaxLag
    /\ \A t \in Jiff : t > now => log[t].pkts = 0 /\ log[t].bytes = 0
    /\ \A i \in 0..1 : slot[i].window_idx <= now \div W

(* Once past the test, a packet has its slot to its window. *)
Own(c) ==
    pc[c] \in {"curr_pkts", "curr_bytes", "test_prev", "prev_pkts", "prev_bytes",
               "add_pkts", "add_bytes"} => slot[Curr(c)].window_idx = window_idx(c)

(* Nothing was let through in a window whose slot is not set up. *)
Fresh == \A w \in Win, f \in Field :
    (Open(w) /\ slot[w % 2].window_idx # w) => Thru(w, f) = 0

(* A counter never holds more than was let through in its window; a slot   *)
(* that is being recycled not more than in the new one.                    *)
Backed ==
    \A i \in 0..1 : /\ slot[i].pkts <= Thru(slot[i].window_idx, "pkts")
                     /\ slot[i].bytes <= Thru(slot[i].window_idx, "bytes")
Recycled(c) ==
    /\ pc[c] \in {"zero_bytes", "set_idx"} =>
         slot[Curr(c)].pkts <= Thru(window_idx(c), "pkts")
    /\ pc[c] = "set_idx" => slot[Curr(c)].bytes <= Thru(window_idx(c), "bytes")

(* What a packet has read was let through in its window or in a neighbour. *)
Beside(c, f) == Thru(window_idx(c) - 1, f) + Thru(window_idx(c) + 1, f)
Read(c) ==
    /\ pc[c] \in {"prev_pkts", "prev_bytes"} =>
         slot[Prev(c)].window_idx \in {window_idx(c) - 1, window_idx(c) + 1}
    /\ pc[c] # "idle" =>
         /\ loc[c].cp <= Thru(window_idx(c), "pkts") /\ loc[c].cb <= Thru(window_idx(c), "bytes")
         /\ loc[c].pp <= Beside(c, "pkts") /\ loc[c].pb <= Beside(c, "bytes")
    /\ pc[c] = "drop" =>
         \/ Thru(window_idx(c), "pkts") + Beside(c, "pkts") >= set.pkts
         \/ Thru(window_idx(c), "bytes") + Beside(c, "bytes") + pkt[c].sz > set.bytes

BInv == /\ TypeOK /\ Clocked /\ Fresh /\ Backed
        /\ \A c \in CPU : Own(c) /\ Recycled(c) /\ Read(c)

(* The packets that will still wipe the counters of window w, and those    *)
(* that have read a count below the limit and may add to it.               *)
Wipers(w) == {c \in CPU : pc[c] = "zero_pkts" /\ window_idx(c) = w}
Joining(w) ==
    {c \in CPU : /\ pc[c] \in {"curr_bytes", "test_prev", "prev_pkts", "prev_bytes", "add_pkts"}
                 /\ window_idx(c) = w /\ loc[c].cp < set.pkts}

(* Every CPU wipes the counters of a window at most once and adds at most  *)
(* one packet after it: P + N bounds the counter and those still to add to *)
(* it, a wipe hides no more than that.                                     *)
RacedAt(w) ==
    /\ Cardinality(Wipers(w)) <= N - 1
    /\ slot[w % 2].pkts + Cardinality(Joining(w)) + Cardinality(Wipers(w)) + 1 <= set.pkts + N
    /\ Thru(w, "pkts") <= slot[w % 2].pkts + Hidden(set.pkts, N - 1 - Cardinality(Wipers(w)))
Raced == \A w \in Win : (Open(w) /\ slot[w % 2].window_idx = w) => RacedAt(w)

RInv == /\ BInv /\ Raced
        /\ \A c \in CPU : pc[c] = "add_pkts" => loc[c].cp < set.pkts
        /\ \A w \in Win : Thru(w, "pkts") <= Hidden(set.pkts, N)

(* On one CPU the counters of this window and the last are exact, and what *)
(* was let through together with the share of the last window is within    *)
(* the limit; so is what a packet has read of them.                        *)
Ledger(c) ==
    /\ \A t \in Jiff : t > pkt[c].ts => log[t].pkts = 0 /\ log[t].bytes = 0
    /\ \A i \in 0..1 : slot[i].window_idx <= window_idx(c)
    /\ \A w \in {window_idx(c) - 1, window_idx(c)} \cap Nat, f \in Field :
         Thru(w, f) = IF slot[w % 2].window_idx = w THEN slot[w % 2][f] ELSE 0
    /\ \A f \in Field : \/ Thru(window_idx(c), f) = 0
                        \/ Effective(Thru(window_idx(c), f), Thru(window_idx(c) - 1, f), c) <= set[f]
    /\ \A w \in Win, f \in Field : Thru(w, f) <= set[f]
Observed(c) ==
    /\ pc[c] \in {"zero_pkts", "zero_bytes", "set_idx"} => Stale(c)
    /\ pc[c] \in {"curr_bytes", "test_prev", "prev_pkts", "prev_bytes", "add_pkts"} =>
         loc[c].cp = Thru(window_idx(c), "pkts")
    /\ pc[c] \in {"test_prev", "prev_pkts", "prev_bytes", "add_pkts", "add_bytes"} =>
         loc[c].cb = Thru(window_idx(c), "bytes")
    /\ pc[c] \in {"test", "zero_pkts", "zero_bytes", "set_idx", "curr_pkts", "curr_bytes",
                  "test_prev"} => loc[c].pp = 0 /\ loc[c].pb = 0
    /\ pc[c] \in {"prev_pkts", "prev_bytes"} => PrevFilled(c)
    /\ pc[c] \in {"prev_bytes", "add_pkts", "add_bytes"} =>
         loc[c].pp = Thru(window_idx(c) - 1, "pkts")
    /\ pc[c] \in {"add_pkts", "add_bytes"} =>
         /\ loc[c].pb = Thru(window_idx(c) - 1, "bytes") /\ pkt[c].sz <= set.bytes
         /\ Effective(loc[c].cb, loc[c].pb, c) <= set.bytes - pkt[c].sz
    /\ pc[c] = "add_pkts" => Effective(loc[c].cp, loc[c].pp, c) < set.pkts

OneCpu == N = 1 => \A c \in CPU : Ledger(c) /\ Observed(c)
XInv == BInv /\ OneCpu
-----------------------------------------------------------------------------
(* What was let through.  Sum is Through over any set of times; a log is   *)
(* taken as a constant here, so that the log before and the log after a    *)
(* step can be compared.                                                   *)
Sum(L, f, S) == Cardinality(UNION {{t} \X (1..L[t][f]) : t \in S})
Logs(J) == [J -> [pkts : Nat, bytes : Nat]]

LEMMA SumTokens ==
    ASSUME NEW J, NEW L \in Logs(J), NEW f \in Field
    PROVE  \E g \in [J -> Nat] : /\ \A t \in J : g[t] = L[t][f]
                                 /\ \A S \in SUBSET J : Sum(L, f, S) = Cardinality(Tokens(g, S))
<1> DEFINE g == [t \in J |-> L[t][f]]
<1>1. \A t \in J : L[t] \in [pkts : Nat, bytes : Nat]
  BY DEF Logs
<1>2. \A t \in J : L[t].pkts \in Nat /\ L[t].bytes \in Nat
  BY <1>1
<1>3. g \in [J -> Nat] /\ \A t \in J : g[t] = L[t][f]
  BY <1>2 DEF Field
<1>4. ASSUME NEW S \in SUBSET J PROVE Sum(L, f, S) = Cardinality(Tokens(g, S))
  <2>1. {{t} \X (1..L[t][f]) : t \in S} = {{t} \X (1..g[t]) : t \in S}
    <3>1. \A t \in S : g[t] = L[t][f]
      OBVIOUS
    <3> HIDE DEF g
    <3> QED
      BY <3>1
  <2> QED
    BY <2>1 DEF Sum, Tokens
<1> HIDE DEF g
<1> QED
  BY <1>3, <1>4

LEMMA SumUnion ==
    ASSUME NEW J, IsFiniteSet(J), NEW L \in Logs(J), NEW f \in Field,
           NEW A \in SUBSET J, NEW B \in SUBSET J
    PROVE  /\ Sum(L, f, A) \in Nat
           /\ Sum(L, f, A \cup B) <= Sum(L, f, A) + Sum(L, f, B)
           /\ A \cap B = {} => Sum(L, f, A \cup B) = Sum(L, f, A) + Sum(L, f, B)
<1>1. PICK g \in [J -> Nat] : \A S \in SUBSET J : Sum(L, f, S) = Cardinality(Tokens(g, S))
  BY SumTokens
<1>2. /\ Sum(L, f, A) = Cardinality(Tokens(g, A)) /\ Sum(L, f, B) = Cardinality(Tokens(g, B))
      /\ Sum(L, f, A \cup B) = Cardinality(Tokens(g, A \cup B))
  <2>1. A \cup B \in SUBSET J
    OBVIOUS
  <2> QED
    BY <1>1, <2>1
<1>3. /\ Cardinality(Tokens(g, A)) \in Nat
      /\ Cardinality(Tokens(g, A \cup B)) <= Cardinality(Tokens(g, A)) + Cardinality(Tokens(g, B))
      /\ A \cap B = {} => Cardinality(Tokens(g, A \cup B)) =
                             Cardinality(Tokens(g, A)) + Cardinality(Tokens(g, B))
  BY TokensUnion
<1> QED
  BY <1>2, <1>3

LEMMA SumMono ==
    ASSUME NEW J, IsFiniteSet(J), NEW L \in Logs(J), NEW M \in Logs(J), NEW f \in Field,
           NEW T \in SUBSET J, NEW S \in SUBSET T, \A t \in S : L[t][f] <= M[t][f]
    PROVE  Sum(L, f, S) <= Sum(M, f, T)
<1>1. PICK g \in [J -> Nat] : /\ \A t \in J : g[t] = L[t][f]
                              /\ \A X \in SUBSET J : Sum(L, f, X) = Cardinality(Tokens(g, X))
  BY SumTokens
<1>2. PICK h \in [J -> Nat] : /\ \A t \in J : h[t] = M[t][f]
                              /\ \A X \in SUBSET J : Sum(M, f, X) = Cardinality(Tokens(h, X))
  BY SumTokens
<1>3. PICK k \in [T -> Nat] : \A t \in T : k[t] = h[t]
  <2>1. [t \in T |-> h[t]] \in [T -> Nat]
    OBVIOUS
  <2> QED
    BY <2>1
<1>4. Tokens(k, T) = Tokens(h, T)
  <2>1. {{a} \X (1..k[a]) : a \in T} = {{a} \X (1..h[a]) : a \in T}
    BY <1>3
  <2> QED
    BY <2>1 DEF Tokens
<1>5. \A t \in S : g[t] \in Nat /\ g[t] <= k[t]
  BY <1>1, <1>2, <1>3
<1>6. IsFiniteSet(T)
  BY FS_Subset
<1>7. Cardinality(Tokens(g, S)) <= Cardinality(Tokens(k, T))
  BY <1>5, <1>6, TokensMono
<1> QED
  BY <1>1, <1>2, <1>4, <1>7

LEMMA SumSame ==
    ASSUME NEW S, NEW L, NEW M, NEW f, \A t \in S : L[t][f] = M[t][f]
    PROVE  Sum(L, f, S) = Sum(M, f, S)
<1>1. {{t} \X (1..L[t][f]) : t \in S} = {{t} \X (1..M[t][f]) : t \in S}
  OBVIOUS
<1> QED
  BY <1>1 DEF Sum

LEMMA SumZero ==
    ASSUME NEW S, NEW L, NEW f, \A t \in S : L[t][f] = 0
    PROVE  Sum(L, f, S) = 0
<1>1. UNION {{t} \X (1..L[t][f]) : t \in S} = {}
  OBVIOUS
<1> QED
  BY <1>1, FS_EmptySet DEF Sum

LEMMA SumAdd ==
    ASSUME NEW J, IsFiniteSet(J), NEW L \in Logs(J), NEW M \in Logs(J), NEW f \in Field,
           NEW S \in SUBSET J, NEW b \in S, NEW n \in Nat,
           M[b][f] = L[b][f] + n, \A t \in S : t # b => M[t][f] = L[t][f]
    PROVE  Sum(M, f, S) = Sum(L, f, S) + n
<1>1. PICK g \in [J -> Nat] : /\ \A t \in J : g[t] = L[t][f]
                              /\ \A X \in SUBSET J : Sum(L, f, X) = Cardinality(Tokens(g, X))
  BY SumTokens
<1>2. PICK h \in [J -> Nat] : /\ \A t \in J : h[t] = M[t][f]
                              /\ \A X \in SUBSET J : Sum(M, f, X) = Cardinality(Tokens(h, X))
  BY SumTokens
<1>3. PICK i \in [S -> Nat] : \A t \in S : i[t] = g[t]
  <2>1. [t \in S |-> g[t]] \in [S -> Nat]
    OBVIOUS
  <2> QED
    BY <2>1
<1>4. PICK k \in [S -> Nat] : \A t \in S : k[t] = h[t]
  <2>1. [t \in S |-> h[t]] \in [S -> Nat]
    OBVIOUS
  <2> QED
    BY <2>1
<1>5. Tokens(i, S) = Tokens(g, S) /\ Tokens(k, S) = Tokens(h, S)
  <2>1. /\ {{a} \X (1..i[a]) : a \in S} = {{a} \X (1..g[a]) : a \in S}
        /\ {{a} \X (1..k[a]) : a \in S} = {{a} \X (1..h[a]) : a \in S}
    BY <1>3, <1>4
  <2> QED
    BY <2>1 DEF Tokens
<1>6. k[b] = i[b] + n /\ \A t \in S : t # b => k[t] = i[t]
  BY <1>1, <1>2, <1>3, <1>4
<1>7. IsFiniteSet(S)
  BY FS_Subset
<1>8. Cardinality(Tokens(k, S)) = Cardinality(Tokens(i, S)) + n
  BY <1>6, <1>7, TokensAdd
<1> QED
  BY <1>1, <1>2, <1>5, <1>8

-----------------------------------------------------------------------------
(* Facts about states that are well formed *)
LEMMA TypeFacts ==
    ASSUME TypeOK
    PROVE  /\ W \in Nat \ {0} /\ MaxLag \in 0..W /\ set.pkts \in Nat /\ set.bytes \in Nat
           /\ set.last \in Nat /\ now \in Nat /\ now <= set.last
           /\ IsFiniteSet(CPU) /\ N \in Nat \ {0} /\ IsFiniteSet(Jiff) /\ log \in Logs(Jiff)
           /\ \A c \in CPU : /\ pkt[c].ts \in Nat /\ pkt[c].ts <= now /\ pkt[c].ts \in Jiff
                             /\ pkt[c].sz \in Nat
                             /\ window_idx(c) \in Nat /\ window_idx(c) \in Win
                             /\ window_idx(c) <= now \div W
                             /\ Curr(c) \in 0..1 /\ Prev(c) \in 0..1 /\ Curr(c) # Prev(c)
                             /\ overlap(c) \in 0..W
                             /\ loc[c].cp \in Nat /\ loc[c].cb \in Nat
                             /\ loc[c].pp \in Nat /\ loc[c].pb \in Nat
           /\ \A i \in 0..1 : /\ slot[i].window_idx \in Nat /\ slot[i].window_idx \in Win
                              /\ slot[i].pkts \in Nat /\ slot[i].bytes \in Nat
           /\ now \div W \in Nat /\ now \div W \in Win /\ Win \subseteq Nat
<1>1. /\ W \in Nat \ {0} /\ MaxLag \in 0..W /\ set.pkts \in Nat /\ set.bytes \in Nat
      /\ set.last \in Nat /\ IsFiniteSet(CPU) /\ CPU # {}
  BY RateLimiterAssumption DEF TypeOK, SettingType, W, CPU
<1>2. now \in Nat /\ now <= set.last
  BY <1>1 DEF TypeOK, Jiff
<1>3. N \in Nat \ {0}
  BY <1>1, FS_CardinalityType, FS_EmptySet DEF N
<1>4. IsFiniteSet(Jiff)
  BY <1>1, 0 \in Int, FS_Interval DEF Jiff
<1>5. log \in Logs(Jiff)
  BY DEF TypeOK, Logs
<1>6. now \div W \in Nat /\ now \div W <= set.last \div W /\ set.last \div W \in Nat
  BY <1>1, <1>2, DivFacts, DivMono
<1>7. Win \subseteq Nat /\ now \div W \in Win
  BY <1>6 DEF Win
<1>8. ASSUME NEW c \in CPU
      PROVE  /\ pkt[c].ts \in Nat /\ pkt[c].ts <= now /\ pkt[c].ts \in Jiff /\ pkt[c].sz \in Nat
             /\ window_idx(c) \in Nat /\ window_idx(c) \in Win /\ window_idx(c) <= now \div W
             /\ Curr(c) \in 0..1 /\ Prev(c) \in 0..1 /\ Curr(c) # Prev(c)
             /\ overlap(c) \in 0..W
             /\ loc[c].cp \in Nat /\ loc[c].cb \in Nat /\ loc[c].pp \in Nat /\ loc[c].pb \in Nat
  <2>1. pkt[c] \in [ts : 0..now, sz : Nat] /\ loc[c] \in [cp : Nat, cb : Nat, pp : Nat, pb : Nat]
    BY DEF TypeOK
  <2>2. pkt[c].ts \in Nat /\ pkt[c].ts <= now /\ pkt[c].sz \in Nat
    BY <1>2, <2>1
  <2>3. pkt[c].ts \in Jiff
    BY <1>1, <1>2, <2>2 DEF Jiff
  <2>4. window_idx(c) \in Nat /\ window_idx(c) <= now \div W
    BY <1>1, <1>2, <2>2, DivFacts, DivMono DEF window_idx
  <2>5. window_idx(c) \in Win
    BY <1>6, <2>4 DEF Win
  <2>6. Curr(c) \in 0..1 /\ Prev(c) \in 0..1 /\ Curr(c) # Prev(c)
    BY <2>4, Parity DEF Curr, Prev
  <2>7. overlap(c) \in 0..W
    <3>1. offset(c) \in Nat /\ offset(c) < W
      BY <1>1, <2>2, DivFacts DEF offset
    <3> QED
      BY <1>1, <3>1 DEF overlap
  <2> QED
    BY <2>1, <2>2, <2>3, <2>4, <2>5, <2>6, <2>7
<1>9. ASSUME NEW i \in 0..1
      PROVE  /\ slot[i].window_idx \in Nat /\ slot[i].window_idx \in Win
             /\ slot[i].pkts \in Nat /\ slot[i].bytes \in Nat
  <2>1. slot[i] \in [window_idx : Win, pkts : Nat, bytes : Nat]
    BY DEF TypeOK, Win
  <2> QED
    BY <1>7, <2>1
<1> QED
  BY <1>1, <1>2, <1>3, <1>4, <1>5, <1>6, <1>7, <1>8, <1>9

(* The sums of windows *)
Times(w) == (w * W)..(w * W + W - 1) \cap Jiff

LEMMA ThruSum ==
    \A w, f : Thru(w, f) = Sum(log, f, Times(w))
  BY DEF Thru, Through, Sum, Times

LEMMA TimesFacts ==
    ASSUME TypeOK, NEW w \in Int
    PROVE  Times(w) \in SUBSET Jiff /\ \A t \in Jiff : t \in Times(w) <=> t \div W = w
<1>1. W \in Nat \ {0} /\ Jiff \subseteq Nat
  BY TypeFacts DEF Jiff
<1>2. ASSUME NEW t \in Jiff PROVE t \in Times(w) <=> t \div W = w
  <2>1. t \in Nat /\ t \div W \in Nat /\ W * (t \div W) <= t /\ t < W * (t \div W) + W
    BY <1>1, DivFacts
  <2>2. t \in Times(w) <=> (w * W <= t /\ t <= w * W + W - 1)
    BY <1>1, <2>1 DEF Times
  <2>3. CASE t \div W = w
    BY <1>1, <2>1, <2>2, <2>3
  <2>4. CASE t \div W # w
    BY <1>1, <2>1, <2>2, <2>4, DivUnique
  <2> QED
    BY <2>3, <2>4
<1> QED
  BY <1>2 DEF Times

LEMMA ThruNat ==
    ASSUME TypeOK, NEW w \in Int, NEW f \in Field
    PROVE  Thru(w, f) \in Nat
  BY TypeFacts, TimesFacts, ThruSum, SumUnion

LEMMA ThruFuture ==
    ASSUME TypeOK, Clocked, NEW w \in Int, NEW f \in Field, w > now \div W
    PROVE  Thru(w, f) = 0
<1>1. ASSUME NEW t \in Times(w) PROVE log[t][f] = 0
  <2>1. t \in Jiff /\ t \div W = w
    BY TimesFacts
  <2>2. t > now
    <3>1. t \in Nat /\ now \in Nat /\ W \in Nat \ {0}
      BY <2>1, TypeFacts DEF Jiff
    <3> SUFFICES ASSUME t <= now PROVE FALSE
      BY <3>1
    <3>2. t \div W <= now \div W /\ now \div W \in Nat
      BY <3>1, DivMono, DivFacts
    <3> QED
      BY <2>1, <3>2
  <2> QED
    BY <2>1, <2>2 DEF Clocked, Field
<1> QED
  BY <1>1, ThruSum, SumZero

(* A step that leaves the setting and the packets alone keeps all that is  *)
(* computed from them.                                                     *)
LEMMA Frame ==
    ASSUME set' = set
    PROVE  /\ CPU' = CPU /\ W' = W /\ Jiff' = Jiff /\ Win' = Win /\ N' = N
           /\ \A w : Times(w)' = Times(w)
           /\ \A c \in CPU : pkt'[c] = pkt[c] =>
                /\ window_idx(c)' = window_idx(c) /\ Curr(c)' = Curr(c) /\ Prev(c)' = Prev(c)
                /\ overlap(c)' = overlap(c)
  BY DEF CPU, W, Jiff, Win, N, Times, window_idx, Curr, Prev, overlap, offset

LEMMA LogSame ==
    ASSUME set' = set, log' = log
    PROVE  \A w, f : Thru(w, f)' = Thru(w, f)
  BY DEF Thru, Through, W, Jiff

LEMMA LogAdd ==
    ASSUME TypeOK, set' = set, log' \in Logs(Jiff), NEW b \in Jiff, NEW n \in Nat, NEW g \in Field,
           log'[b][g] = log[b][g] + n,
           \A t \in Jiff, f \in Field : (t # b \/ f # g) => log'[t][f] = log[t][f]
    PROVE  /\ Thru(b \div W, g)' = Thru(b \div W, g) + n
           /\ \A w \in Int, f \in Field : (w # b \div W \/ f # g) => Thru(w, f)' = Thru(w, f)
           /\ \A w \in Int, f \in Field : Thru(w, f) <= Thru(w, f)'
<1>1. \A w, f : Thru(w, f)' = Sum(log', f, Times(w))
  <2>1. \A w, f : Thru(w, f)' = Sum(log', f, Times(w)')
    BY DEF Thru, Through, Sum, Times
  <2> QED
    BY <2>1, Frame
<1>2. W \in Nat \ {0} /\ b \in Nat /\ b \div W \in Int /\ IsFiniteSet(Jiff) /\ log \in Logs(Jiff)
  BY TypeFacts, DivFacts DEF Jiff
<1>3. Thru(b \div W, g)' = Thru(b \div W, g) + n
  <2>1. b \in Times(b \div W) /\ Times(b \div W) \in SUBSET Jiff
    BY <1>2, TimesFacts
  <2>2. \A t \in Times(b \div W) : t # b => log'[t][g] = log[t][g]
    BY <2>1
  <2>3. Sum(log', g, Times(b \div W)) = Sum(log, g, Times(b \div W)) + n
    BY <1>2, <2>1, <2>2, SumAdd
  <2>4. PICK v \in Int : v = b \div W
    BY <1>2
  <2>5. Thru(v, g)' = Thru(v, g) + n
    BY <1>1, <2>3, <2>4, ThruSum
  <2> QED
    BY <2>4, <2>5, Frame
<1>4. ASSUME NEW w \in Int, NEW f \in Field, w # b \div W \/ f # g
      PROVE  Thru(w, f)' = Thru(w, f)
  <2>1. \A t \in Times(w) : log'[t][f] = log[t][f]
    BY <1>4, TimesFacts
  <2>2. Sum(log', f, Times(w)) = Sum(log, f, Times(w))
    BY <2>1, SumSame
  <2> QED
    BY <1>1, <2>2, ThruSum
<1>5. ASSUME NEW w \in Int, NEW f \in Field PROVE Thru(w, f) <= Thru(w, f)'
  <2>1. Thru(w, f) \in Nat
    BY ThruNat
  <2>2. CASE w # b \div W \/ f # g
    BY <1>4, <2>1, <2>2
  <2>3. CASE w = b \div W /\ f = g
    <3>1. Thru(w, f)' = Thru(w, f) + n
      BY <1>3, <2>3, Frame
    <3> QED
      BY <2>1, <3>1
  <2> QED
    BY <2>2, <2>3
<1> QED
  BY <1>3, <1>4, <1>5

(* Packets in flight at the same time *)
LEMMA Near ==
    ASSUME TypeOK, Clocked, NEW c \in CPU, NEW d \in CPU, pc[c] # "idle", pc[d] # "idle"
    PROVE  /\ window_idx(d) \in {window_idx(c) - 1, window_idx(c), window_idx(c) + 1}
           /\ Curr(d) = Curr(c) => window_idx(d) = window_idx(c)
           /\ Curr(d) = Prev(c) => window_idx(d) \in {window_idx(c) - 1, window_idx(c) + 1}
<1>1. /\ W \in Nat \ {0} /\ MaxLag \in 0..W /\ now \in Nat
      /\ pkt[c].ts \in Nat /\ pkt[c].ts <= now /\ now - pkt[c].ts <= MaxLag
      /\ pkt[d].ts \in Nat /\ pkt[d].ts <= now /\ now - pkt[d].ts <= MaxLag
      /\ window_idx(c) \in Nat /\ window_idx(d) \in Nat
  BY TypeFacts DEF Clocked
<1>2. window_idx(d) <= window_idx(c) + 1 /\ window_idx(c) <= window_idx(d) + 1
  <2>1. CASE pkt[c].ts <= pkt[d].ts
    <3>1. pkt[d].ts - pkt[c].ts <= W
      BY <1>1, <2>1
    <3>2. window_idx(c) <= window_idx(d) /\ window_idx(d) <= window_idx(c) + 1
      BY <1>1, <2>1, <3>1, DivLag DEF window_idx
    <3> QED
      BY <1>1, <3>2
  <2>2. CASE pkt[d].ts <= pkt[c].ts
    <3>1. pkt[c].ts - pkt[d].ts <= W
      BY <1>1, <2>2
    <3>2. window_idx(d) <= window_idx(c) /\ window_idx(c) <= window_idx(d) + 1
      BY <1>1, <2>2, <3>1, DivLag DEF window_idx
    <3> QED
      BY <1>1, <3>2
  <2>3. pkt[c].ts <= pkt[d].ts \/ pkt[d].ts <= pkt[c].ts
    BY <1>1
  <2> QED
    BY <2>1, <2>2, <2>3
<1>3. window_idx(d) \in {window_idx(c) - 1, window_idx(c), window_idx(c) + 1}
  <2>1. window_idx(c) \in Nat /\ window_idx(d) \in Nat
    BY <1>1
  <2> QED
    BY <1>2, <2>1
<1>4. Curr(d) = Curr(c) => window_idx(d) # window_idx(c) + 1 /\ window_idx(c) # window_idx(d) + 1
  BY <1>1, Parity DEF Curr
<1>5. Curr(d) = Prev(c) => window_idx(d) # window_idx(c)
  BY <1>1, Parity DEF Curr, Prev
<1> QED
  BY <1>1, <1>3, <1>4, <1>5

(* While a packet is in flight no other window of its slot is open. *)
LEMMA Closed ==
    ASSUME TypeOK, Clocked, NEW c \in CPU, pc[c] # "idle", NEW w \in Int,
           w % 2 = Curr(c), w # window_idx(c), w <= now \div W
    PROVE  ~Open(w)
<1>1. /\ W \in Nat \ {0} /\ MaxLag \in 0..W /\ now \in Nat
      /\ pkt[c].ts \in Nat /\ pkt[c].ts <= now /\ now - pkt[c].ts <= MaxLag
      /\ window_idx(c) \in Nat /\ window_idx(c) <= now \div W /\ now \div W \in Nat
  BY TypeFacts DEF Clocked
<1>2. now \div W <= window_idx(c) + 1
  BY <1>1, DivLag DEF window_idx
<1>3. w # window_idx(c) + 1 /\ window_idx(c) # w + 1
  BY <1>1, Parity DEF Curr
<1>4. w + 2 <= window_idx(c)
  BY <1>1, <1>2, <1>3
<1>5. W * window_idx(c) <= now
  <2>1. W * window_idx(c) <= pkt[c].ts
    BY <1>1, DivFacts DEF window_idx
  <2> QED
    BY <1>1, <2>1
<1>6. W * (w + 2) <= W * window_idx(c)
  BY <1>1, <1>4
<1>7. W * (w + 2) = w * W + W + W
  BY <1>1
<1>8. w * W + W + W <= now
  BY <1>1, <1>5, <1>6, <1>7
<1> QED
  BY <1>1, <1>8 DEF Open

-----------------------------------------------------------------------------
(* Types *)
LEMMA InitTypes == ASSUME Init PROVE TypeOK
<1>1. set.jiffies \in Nat \ {0} /\ set.last \in Nat
  BY RateLimiterAssumption DEF Init, SettingType
<1>2. set.last \div W \in Nat
  BY <1>1, DivFacts DEF W
<1>3. slot \in [0..1 -> [window_idx : 0..(set.last \div W), pkts : Nat, bytes : Nat]]
  BY <1>2 DEF Init, ZeroSlot
<1>4. now \in Jiff /\ pkt \in [CPU -> [ts : 0..now, sz : Nat]]
  BY <1>1 DEF Init, Jiff
<1> QED
  BY <1>3, <1>4 DEF Init, TypeOK, NoLocals

LEMMA StepTypes == ASSUME TypeOK, NEW c \in CPU, Step(c) PROVE TypeOK'
<1>1. /\ set' = set /\ now' = now /\ pkt' = pkt
      /\ CPU' = CPU /\ Jiff' = Jiff /\ W' = W
  BY Frame DEF Step, TestCurr, ZeroPkts, ZeroBytes, SetIdx, ReadCurrPkts, ReadCurrBytes,
               TestPrev, ReadPrevPkts, ReadPrevBytes, AddPkts, AddBytes, Drop
<1>2. pc' \in [CPU -> {"idle", "test", "zero_pkts", "zero_bytes", "set_idx", "curr_pkts",
                       "curr_bytes", "test_prev", "prev_pkts", "prev_bytes",
                       "add_pkts", "add_bytes", "drop"}]
  BY DEF TypeOK, Step, Goto, Judge, TestCurr, ZeroPkts, ZeroBytes, SetIdx, ReadCurrPkts,
         ReadCurrBytes, TestPrev, ReadPrevPkts, ReadPrevBytes, AddPkts, AddBytes, Drop
<1>3. slot' \in [0..1 -> [window_idx : 0..(set.last \div W), pkts : Nat, bytes : Nat]]
  <2>1. /\ slot \in [0..1 -> [window_idx : 0..(set.last \div W), pkts : Nat, bytes : Nat]]
        /\ Curr(c) \in 0..1 /\ window_idx(c) \in 0..(set.last \div W) /\ pkt[c].sz \in Nat
    BY TypeFacts DEF TypeOK, Win
  <2> QED
    BY <2>1 DEF Step, TestCurr, ZeroPkts, ZeroBytes, SetIdx, ReadCurrPkts, ReadCurrBytes,
                TestPrev, ReadPrevPkts, ReadPrevBytes, AddPkts, AddBytes, Drop
<1>4. loc' \in [CPU -> [cp : Nat, cb : Nat, pp : Nat, pb : Nat]]
  <2>1. /\ loc \in [CPU -> [cp : Nat, cb : Nat, pp : Nat, pb : Nat]]
        /\ slot[Curr(c)].pkts \in Nat /\ slot[Curr(c)].bytes \in Nat
        /\ slot[Prev(c)].pkts \in Nat /\ slot[Prev(c)].bytes \in Nat
    BY TypeFacts DEF TypeOK
  <2> QED
    BY <2>1 DEF Step, TestCurr, ZeroPkts, ZeroBytes, SetIdx, ReadCurrPkts, ReadCurrBytes,
                TestPrev, ReadPrevPkts, ReadPrevBytes, AddPkts, AddBytes, Drop
<1>5. log' \in [Jiff -> [pkts : Nat, bytes : Nat]]
  <2>1. log \in [Jiff -> [pkts : Nat, bytes : Nat]] /\ pkt[c].ts \in Jiff /\ pkt[c].sz \in Nat
    BY TypeFacts DEF TypeOK
  <2> QED
    BY <2>1 DEF Step, TestCurr, ZeroPkts, ZeroBytes, SetIdx, ReadCurrPkts, ReadCurrBytes,
                TestPrev, ReadPrevPkts, ReadPrevBytes, AddPkts, AddBytes, Drop
<1> QED
  BY <1>1, <1>2, <1>3, <1>4, <1>5 DEF TypeOK

LEMMA NextTypes == ASSUME TypeOK, [Next]_vars PROVE TypeOK'
<1>1. ASSUME NEW c \in CPU, NEW sz \in set.sizes, Receive(c, sz) PROVE TypeOK'
  <2>1. set.sizes \subseteq Nat
    BY RateLimiterAssumption DEF TypeOK, SettingType
  <2>2. now \in Nat /\ sz \in Nat
    BY <2>1, TypeFacts
  <2>3. pkt' \in [CPU -> [ts : 0..now, sz : Nat]]
    BY <1>1, <2>2 DEF TypeOK, Receive
  <2>4. loc' \in [CPU -> [cp : Nat, cb : Nat, pp : Nat, pb : Nat]]
    BY <1>1 DEF TypeOK, Receive, NoLocals
  <2>5. UNCHANGED <<set, slot, now, log>> /\ CPU' = CPU /\ Jiff' = Jiff /\ W' = W
    BY <1>1, Frame DEF Receive
  <2> QED
    BY <1>1, <2>3, <2>4, <2>5 DEF TypeOK, Receive, Goto
<1>2. CASE Tick
  <2>1. now \in Nat /\ set.last \in Nat /\ now < set.last /\ now' = now + 1
        /\ UNCHANGED <<set, slot, pc, pkt, loc, log>>
    BY <1>2, TypeFacts DEF Tick
  <2>2. now' \in Jiff /\ 0..now \subseteq 0..now'
    BY <2>1 DEF Jiff
  <2>3. pkt' \in [CPU -> [ts : 0..now', sz : Nat]]
    BY <2>1, <2>2 DEF TypeOK
  <2> QED
    BY <2>1, <2>2, <2>3, Frame DEF TypeOK
<1>3. CASE UNCHANGED vars
  BY <1>3 DEF vars, TypeOK, CPU, Jiff, W
<1> QED
  BY <1>1, <1>2, <1>3, StepTypes DEF Next

-----------------------------------------------------------------------------
(* Any number of CPUs: what the counters hold was let through *)
LEMMA InitB == ASSUME Init PROVE BInv
<1>1. TypeOK
  BY InitTypes
<1>2. \A t \in Jiff : log[t].pkts = 0 /\ log[t].bytes = 0
  BY DEF Init
<1>3. ASSUME NEW w \in Int, NEW f \in Field PROVE Thru(w, f) = 0
  <2>1. \A t \in Times(w) : log[t][f] = 0
    BY <1>1, <1>2, TimesFacts DEF Field
  <2> QED
    BY <2>1, ThruSum, SumZero
<1>4. Clocked
  <2>1. now \div W \in Nat /\ \A i \in 0..1 : slot[i].window_idx = 0
    BY <1>1, TypeFacts DEF Init, ZeroSlot
  <2> QED
    BY <1>2, <2>1 DEF Clocked, Init
<1>5. Fresh
  BY <1>1, <1>3, TypeFacts DEF Fresh
<1>6. Backed
  BY <1>3 DEF Backed, Init, ZeroSlot, Field
<1>7. ASSUME NEW c \in CPU PROVE Own(c) /\ Recycled(c) /\ Read(c)
  <2>1. pc[c] = "idle"
    BY DEF Init
  <2> QED
    BY <2>1 DEF Own, Recycled, Read
<1> QED
  BY <1>1, <1>4, <1>5, <1>6, <1>7 DEF BInv

(* The neighbours of a window *)
LEMMA BesideFacts ==
    ASSUME TypeOK, NEW c \in CPU, NEW f \in Field
    PROVE  /\ Thru(window_idx(c), f) \in Nat /\ Beside(c, f) \in Nat
           /\ Thru(window_idx(c) - 1, f) \in Nat /\ Thru(window_idx(c) + 1, f) \in Nat
           /\ Thru(window_idx(c) - 1, f) <= Beside(c, f)
           /\ Thru(window_idx(c) + 1, f) <= Beside(c, f)
<1>1. window_idx(c) \in Int /\ window_idx(c) - 1 \in Int /\ window_idx(c) + 1 \in Int
  BY TypeFacts
<1>2. /\ Thru(window_idx(c), f) \in Nat
      /\ Thru(window_idx(c) - 1, f) \in Nat /\ Thru(window_idx(c) + 1, f) \in Nat
  BY <1>1, ThruNat
<1> QED
  BY <1>2 DEF Beside

(* A step that only reads *)
LEMMA QuietB ==
    ASSUME BInv, TypeOK', NEW c \in CPU, pc[c] # "idle",
           UNCHANGED <<set, now, slot, pkt, log>>,
           \A d \in CPU : d # c => pc'[d] = pc[d] /\ loc'[d] = loc[d],
           (Own(c) /\ Recycled(c) /\ Read(c))'
    PROVE  BInv'
<1>1. \A w, f : Thru(w, f)' = Thru(w, f)
  BY LogSame
<1>2. /\ CPU' = CPU /\ W' = W /\ Jiff' = Jiff /\ Win' = Win
      /\ \A d \in CPU : /\ window_idx(d)' = window_idx(d) /\ Curr(d)' = Curr(d)
                        /\ Prev(d)' = Prev(d)
  BY Frame
<1>3. Clocked'
  BY <1>2 DEF BInv, Clocked
<1>4. Fresh' /\ Backed'
  BY <1>1, <1>2 DEF BInv, Fresh, Open, Backed
<1>5. ASSUME NEW d \in CPU, d # c PROVE (Own(d) /\ Recycled(d) /\ Read(d))'
  <2>1. Beside(d, "pkts")' = Beside(d, "pkts") /\ Beside(d, "bytes")' = Beside(d, "bytes")
    BY <1>1, <1>2 DEF Beside
  <2>2. Own(d) /\ Recycled(d) /\ Read(d) /\ pc'[d] = pc[d] /\ loc'[d] = loc[d]
    BY <1>5 DEF BInv
  <2> QED
    BY <1>1, <1>2, <2>1, <2>2 DEF Own, Recycled, Read
<1> QED
  BY <1>2, <1>3, <1>4, <1>5 DEF BInv

(* The steps that only read, one by one *)
LEMMA ReadsB ==
    ASSUME BInv, NEW c \in CPU,
           TestCurr(c) \/ ReadCurrPkts(c) \/ ReadCurrBytes(c) \/ ReadPrevPkts(c) \/ Drop(c)
    PROVE  BInv'
<1>1. TypeOK' /\ TypeOK /\ Clocked /\ Own(c) /\ Recycled(c) /\ Read(c)
  BY StepTypes DEF BInv, Step
<1>2. /\ pc[c] # "idle" /\ UNCHANGED <<set, now, slot, pkt, log>>
      /\ \A d \in CPU : d # c => pc'[d] = pc[d] /\ loc'[d] = loc[d]
  BY <1>1 DEF TestCurr, ReadCurrPkts, ReadCurrBytes, ReadPrevPkts, Drop, Goto, TypeOK
<1>3. \A w, f : Thru(w, f)' = Thru(w, f)
  BY <1>2, LogSame
<1>4. /\ window_idx(c)' = window_idx(c) /\ Curr(c)' = Curr(c) /\ Prev(c)' = Prev(c)
      /\ Beside(c, "pkts")' = Beside(c, "pkts") /\ Beside(c, "bytes")' = Beside(c, "bytes")
  BY <1>2, <1>3, Frame DEF Beside
<1>5. /\ \A f \in Field : Thru(window_idx(c), f) \in Nat /\ Beside(c, f) \in Nat
      /\ Thru(window_idx(c) - 1, "pkts") <= Beside(c, "pkts")
      /\ Thru(window_idx(c) + 1, "pkts") <= Beside(c, "pkts")
      /\ Curr(c) \in 0..1 /\ Prev(c) \in 0..1
      /\ slot[Curr(c)].pkts <= Thru(slot[Curr(c)].window_idx, "pkts")
      /\ slot[Curr(c)].bytes <= Thru(slot[Curr(c)].window_idx, "bytes")
      /\ slot[Prev(c)].pkts <= Thru(slot[Prev(c)].window_idx, "pkts")
  BY <1>1, TypeFacts, BesideFacts DEF BInv, Backed, Field
<1>6. pc \in [CPU -> {"idle", "test", "zero_pkts", "zero_bytes", "set_idx", "curr_pkts",
                      "curr_bytes", "test_prev", "prev_pkts", "prev_bytes",
                      "add_pkts", "add_bytes", "drop"}]
  BY <1>1 DEF TypeOK
<1>7. loc[c] \in [cp : Nat, cb : Nat, pp : Nat, pb : Nat] /\ loc \in [CPU -> [cp : Nat, cb : Nat, pp : Nat, pb : Nat]]
  BY <1>1 DEF TypeOK
<1>8. CASE TestCurr(c)
  <2>1. pc[c] = "test" /\ pc'[c] = (IF Stale(c) THEN "zero_pkts" ELSE "curr_pkts") /\ loc'[c] = loc[c]
    BY <1>6, <1>8 DEF TestCurr, Goto
  <2> QED
    BY <1>1, <1>2, <1>3, <1>4, <2>1, QuietB DEF Own, Recycled, Read, Stale
<1>9. CASE ReadCurrPkts(c)
  <2>1. /\ pc[c] = "curr_pkts" /\ pc'[c] = "curr_bytes" /\ loc'[c].cp = slot[Curr(c)].pkts
        /\ loc'[c].cb = loc[c].cb /\ loc'[c].pp = loc[c].pp /\ loc'[c].pb = loc[c].pb
    BY <1>6, <1>7, <1>9 DEF ReadCurrPkts, Goto
  <2>2. Own(c)' /\ Recycled(c)'
    BY <1>1, <1>2, <1>4, <2>1 DEF Own, Recycled
  <2>3. Read(c)'
    BY <1>1, <1>2, <1>3, <1>4, <1>5, <2>1 DEF Own, Read
  <2> QED
    BY <1>1, <1>2, <2>2, <2>3, QuietB
<1>10. CASE ReadCurrBytes(c)
  <2>1. /\ pc[c] = "curr_bytes" /\ pc'[c] = "test_prev" /\ loc'[c].cb = slot[Curr(c)].bytes
        /\ loc'[c].cp = loc[c].cp /\ loc'[c].pp = loc[c].pp /\ loc'[c].pb = loc[c].pb
    BY <1>6, <1>7, <1>10 DEF ReadCurrBytes, Goto
  <2>2. Own(c)' /\ Recycled(c)'
    BY <1>1, <1>2, <1>4, <2>1 DEF Own, Recycled
  <2>3. Read(c)'
    BY <1>1, <1>2, <1>3, <1>4, <1>5, <2>1 DEF Own, Read
  <2> QED
    BY <1>1, <1>2, <2>2, <2>3, QuietB
<1>11. CASE ReadPrevPkts(c)
  <2>1. /\ pc[c] = "prev_pkts" /\ pc'[c] = "prev_bytes" /\ loc'[c].pp = slot[Prev(c)].pkts
        /\ loc'[c].cp = loc[c].cp /\ loc'[c].cb = loc[c].cb /\ loc'[c].pb = loc[c].pb
    BY <1>6, <1>7, <1>11 DEF ReadPrevPkts, Goto
  <2>2. Own(c)' /\ Recycled(c)'
    BY <1>1, <1>2, <1>4, <2>1 DEF Own, Recycled
  <2>3. slot[Prev(c)].pkts <= Beside(c, "pkts")
    <3>1. slot[Prev(c)].window_idx \in {window_idx(c) - 1, window_idx(c) + 1}
      BY <1>1, <2>1 DEF Read
    <3>2. slot[Prev(c)].pkts <= Thru(window_idx(c) - 1, "pkts")
          \/ slot[Prev(c)].pkts <= Thru(window_idx(c) + 1, "pkts")
      BY <1>5, <3>1
    <3> QED
      BY <1>1, <1>5, <3>2, TypeFacts, BesideFacts DEF Field
  <2>4. Read(c)'
    BY <1>1, <1>2, <1>3, <1>4, <1>5, <2>1, <2>3 DEF Read
  <2> QED
    BY <1>1, <1>2, <2>2, <2>4, QuietB
<1>12. CASE Drop(c)
  <2>1. pc'[c] = "idle"
    BY <1>6, <1>12 DEF Drop, Goto
  <2> QED
    BY <1>1, <1>2, <2>1, QuietB DEF Own, Recycled, Read
<1> QED
  BY <1>8, <1>9, <1>10, <1>11, <1>12

(* A packet is refused only on counts that use the limit up. *)
LEMMA Refused ==
    ASSUME TypeOK, NEW c \in CPU, NEW l \in [cp : Nat, cb : Nat, pp : Nat, pb : Nat],
           l.cp <= Thru(window_idx(c), "pkts"), l.cb <= Thru(window_idx(c), "bytes"),
           l.pp <= Beside(c, "pkts"), l.pb <= Beside(c, "bytes"), ~Within(c, l)
    PROVE  \/ Thru(window_idx(c), "pkts") + Beside(c, "pkts") >= set.pkts
           \/ Thru(window_idx(c), "bytes") + Beside(c, "bytes") + pkt[c].sz > set.bytes
<1>1. /\ W \in Nat \ {0} /\ overlap(c) \in 0..W /\ set.pkts \in Nat /\ set.bytes \in Nat
      /\ pkt[c].sz \in Nat /\ l.cp \in Nat /\ l.cb \in Nat /\ l.pp \in Nat /\ l.pb \in Nat
  BY TypeFacts
<1>2. /\ (l.pp * overlap(c)) \div W \in Nat /\ (l.pp * overlap(c)) \div W <= l.pp
      /\ (l.pb * overlap(c)) \div W \in Nat /\ (l.pb * overlap(c)) \div W <= l.pb
  BY <1>1, Share
<1>3. /\ Effective(l.cp, l.pp, c) \in Nat /\ Effective(l.cp, l.pp, c) <= l.cp + l.pp
      /\ Effective(l.cb, l.pb, c) \in Nat /\ Effective(l.cb, l.pb, c) <= l.cb + l.pb
  BY <1>1, <1>2 DEF Effective
<1>4. \/ Effective(l.cp, l.pp, c) >= set.pkts
      \/ Effective(l.cb, l.pb, c) + pkt[c].sz > set.bytes
  BY <1>1, <1>3 DEF Within
<1>5. \A f \in Field : Thru(window_idx(c), f) \in Nat /\ Beside(c, f) \in Nat
  BY BesideFacts
<1> QED
  BY <1>1, <1>3, <1>4, <1>5 DEF Field

LEMMA JudgesB ==
    ASSUME BInv, NEW c \in CPU, TestPrev(c) \/ ReadPrevBytes(c)
    PROVE  BInv'
<1>1. TypeOK' /\ TypeOK /\ Clocked /\ Own(c) /\ Recycled(c) /\ Read(c)
  BY StepTypes DEF BInv, Step
<1>2. /\ pc[c] \in {"test_prev", "prev_bytes"} /\ UNCHANGED <<set, now, slot, pkt, log>>
      /\ \A d \in CPU : d # c => pc'[d] = pc[d] /\ loc'[d] = loc[d]
  BY <1>1 DEF TestPrev, ReadPrevBytes, Judge, Goto, TypeOK
<1>3. \A w, f : Thru(w, f)' = Thru(w, f)
  BY <1>2, LogSame
<1>4. /\ window_idx(c)' = window_idx(c) /\ Curr(c)' = Curr(c) /\ Prev(c)' = Prev(c)
      /\ Beside(c, "pkts")' = Beside(c, "pkts") /\ Beside(c, "bytes")' = Beside(c, "bytes")
  BY <1>2, <1>3, Frame DEF Beside
<1>5. loc[c] \in [cp : Nat, cb : Nat, pp : Nat, pb : Nat] /\ loc'[c] \in [cp : Nat, cb : Nat, pp : Nat, pb : Nat]
  <2>1. CPU' = CPU
    BY <1>2, Frame
  <2> QED
    BY <1>1, <2>1 DEF TypeOK
<1>6. /\ loc'[c].cp = loc[c].cp /\ loc'[c].cb = loc[c].cb /\ loc'[c].pp = loc[c].pp
      /\ loc'[c].pb <= Beside(c, "bytes")
  <2>1. CASE TestPrev(c)
    BY <1>1, <1>2, <2>1 DEF TestPrev, Read
  <2>2. CASE ReadPrevBytes(c)
    <3>1. /\ loc'[c].pb = slot[Prev(c)].bytes /\ loc'[c].cp = loc[c].cp
          /\ loc'[c].cb = loc[c].cb /\ loc'[c].pp = loc[c].pp /\ pc[c] = "prev_bytes"
      BY <1>1, <1>5, <2>2 DEF ReadPrevBytes, TypeOK
    <3>2. slot[Prev(c)].window_idx \in {window_idx(c) - 1, window_idx(c) + 1}
      BY <1>1, <3>1 DEF Read
    <3>3. slot[Prev(c)].bytes <= Thru(slot[Prev(c)].window_idx, "bytes")
          /\ slot[Prev(c)].bytes \in Nat
      BY <1>1, TypeFacts DEF BInv, Backed
    <3>4. /\ Thru(window_idx(c) - 1, "bytes") <= Beside(c, "bytes")
          /\ Thru(window_idx(c) + 1, "bytes") <= Beside(c, "bytes")
          /\ Thru(window_idx(c) - 1, "bytes") \in Nat /\ Thru(window_idx(c) + 1, "bytes") \in Nat
          /\ Beside(c, "bytes") \in Nat
      BY <1>1, BesideFacts DEF Field
    <3> QED
      BY <3>1, <3>2, <3>3, <3>4
  <2> QED
    BY <2>1, <2>2
<1>7. /\ loc'[c].cp <= Thru(window_idx(c), "pkts") /\ loc'[c].cb <= Thru(window_idx(c), "bytes")
      /\ loc'[c].pp <= Beside(c, "pkts") /\ loc'[c].pb <= Beside(c, "bytes")
  BY <1>1, <1>2, <1>6 DEF Read
<1>8. \/ pc'[c] = "prev_pkts" /\ PrevFilled(c)
      \/ pc'[c] = "add_pkts"
      \/ pc'[c] = "drop" /\ ~Within(c, loc'[c])
  BY <1>1, <1>2 DEF TestPrev, ReadPrevBytes, Judge, Goto, TypeOK
<1>9. Own(c)' /\ Recycled(c)'
  BY <1>1, <1>2, <1>4, <1>8 DEF Own, Recycled
<1>10. pc'[c] = "drop" =>
         \/ Thru(window_idx(c), "pkts") + Beside(c, "pkts") >= set.pkts
         \/ Thru(window_idx(c), "bytes") + Beside(c, "bytes") + pkt[c].sz > set.bytes
  BY <1>1, <1>5, <1>7, <1>8, Refused
<1>11. Read(c)'
  BY <1>2, <1>3, <1>4, <1>7, <1>8, <1>10 DEF Read, PrevFilled
<1> QED
  BY <1>1, <1>2, <1>9, <1>11, QuietB

(* Recycling a slot *)
LEMMA ZeroB ==
    ASSUME BInv, NEW c \in CPU, ZeroPkts(c) \/ ZeroBytes(c)
    PROVE  BInv'
<1>1. TypeOK' /\ TypeOK /\ Clocked /\ Fresh /\ Backed
  BY StepTypes DEF BInv, Step
<1>2. /\ UNCHANGED <<set, now, pkt, loc, log>>
      /\ \A d \in CPU : d # c => pc'[d] = pc[d]
      /\ \/ pc[c] = "zero_pkts" /\ pc'[c] = "zero_bytes" /\ slot'[Curr(c)].pkts = 0
         \/ pc[c] = "zero_bytes" /\ pc'[c] = "set_idx" /\ slot'[Curr(c)].bytes = 0
  BY <1>1, TypeFacts DEF ZeroPkts, ZeroBytes, Goto, TypeOK
<1>3. ASSUME NEW i \in 0..1
      PROVE  /\ slot'[i].window_idx = slot[i].window_idx
             /\ slot'[i].pkts \in {0, slot[i].pkts} /\ slot'[i].bytes \in {0, slot[i].bytes}
             /\ pc[c] = "zero_bytes" => slot'[i].pkts = slot[i].pkts
             /\ slot'[i].pkts \in Nat /\ slot'[i].bytes \in Nat
             /\ slot'[i].pkts <= slot[i].pkts /\ slot'[i].bytes <= slot[i].bytes
  <2>1. slot[i] \in [window_idx : Win, pkts : Nat, bytes : Nat] /\ Curr(c) \in 0..1
    BY <1>1, TypeFacts DEF TypeOK, Win
  <2>2. /\ slot'[i].window_idx = slot[i].window_idx
        /\ slot'[i].pkts \in {0, slot[i].pkts} /\ slot'[i].bytes \in {0, slot[i].bytes}
        /\ pc[c] = "zero_bytes" => slot'[i].pkts = slot[i].pkts
    BY <1>1, <2>1 DEF ZeroPkts, ZeroBytes, TypeOK
  <2> QED
    BY <2>1, <2>2
<1>4. \A w, f : Thru(w, f)' = Thru(w, f)
  BY <1>2, LogSame
<1>5. /\ CPU' = CPU /\ W' = W /\ Jiff' = Jiff /\ Win' = Win
      /\ \A d \in CPU : /\ window_idx(d)' = window_idx(d) /\ Curr(d)' = Curr(d)
                        /\ Prev(d)' = Prev(d) /\ Curr(d) \in 0..1 /\ Prev(d) \in 0..1
                        /\ window_idx(d) \in Nat
  BY <1>1, <1>2, Frame, TypeFacts
<1>6. \A w \in Int : w % 2 \in 0..1
  BY Parity
<1>7. Clocked'
  <2>1. \A d \in CPU : pc'[d] # "idle" => pc[d] # "idle"
    BY <1>2
  <2> QED
    BY <1>1, <1>2, <1>3, <1>5, <2>1 DEF Clocked
<1>8. Fresh'
  <2>1. Win \subseteq Nat
    BY <1>1, TypeFacts
  <2> QED
    BY <1>1, <1>2, <1>3, <1>4, <1>5, <1>6, <2>1 DEF Fresh, Open
<1>9. Backed'
  <2> SUFFICES ASSUME NEW i \in 0..1
               PROVE  /\ slot'[i].pkts <= Thru(slot[i].window_idx, "pkts")
                      /\ slot'[i].bytes <= Thru(slot[i].window_idx, "bytes")
    BY <1>3, <1>4 DEF Backed
  <2>1. /\ slot[i].pkts <= Thru(slot[i].window_idx, "pkts") /\ slot[i].pkts \in Nat
        /\ slot[i].bytes <= Thru(slot[i].window_idx, "bytes") /\ slot[i].bytes \in Nat
        /\ slot[i].window_idx \in Int
    BY <1>1, TypeFacts DEF Backed
  <2>2. Thru(slot[i].window_idx, "pkts") \in Nat /\ Thru(slot[i].window_idx, "bytes") \in Nat
    BY <1>1, <2>1, ThruNat DEF Field
  <2> QED
    BY <1>3, <2>1, <2>2
<1>10. ASSUME NEW d \in CPU PROVE (Own(d) /\ Recycled(d) /\ Read(d))'
  <2>1. Beside(d, "pkts")' = Beside(d, "pkts") /\ Beside(d, "bytes")' = Beside(d, "bytes")
    BY <1>4, <1>5 DEF Beside
  <2>2. Own(d) /\ Recycled(d) /\ Read(d)
    BY DEF BInv
  <2>3. Own(d)'
    BY <1>2, <1>3, <1>5, <2>2 DEF Own
  <2>4. Read(d)'
    BY <1>2, <1>3, <1>4, <1>5, <2>1, <2>2 DEF Read
  <2>5. /\ Thru(window_idx(d), "pkts") \in Nat /\ Thru(window_idx(d), "bytes") \in Nat
        /\ slot[Curr(d)].pkts \in Nat /\ slot[Curr(d)].bytes \in Nat
    BY <1>1, TypeFacts, BesideFacts DEF Field
  <2>6. CASE d = c
    <3>1. pc'[c] \in {"zero_bytes", "set_idx"} => slot'[Curr(c)].pkts <= Thru(window_idx(c), "pkts")
      BY <1>2, <1>3, <1>5, <2>2, <2>5, <2>6 DEF Recycled
    <3>2. pc'[c] = "set_idx" => slot'[Curr(c)].bytes <= Thru(window_idx(c), "bytes")
      BY <1>2, <2>5, <2>6
    <3> QED
      BY <1>4, <1>5, <2>3, <2>4, <2>6, <3>1, <3>2 DEF Recycled
  <2>7. CASE d # c
    <3>1. /\ pc[d] \in {"zero_bytes", "set_idx"} => slot'[Curr(d)].pkts <= Thru(window_idx(d), "pkts")
          /\ pc[d] = "set_idx" => slot'[Curr(d)].bytes <= Thru(window_idx(d), "bytes")
      BY <1>3, <1>5, <2>2, <2>5 DEF Recycled
    <3> QED
      BY <1>2, <1>4, <1>5, <2>3, <2>4, <2>7, <3>1 DEF Recycled
  <2> QED
    BY <2>6, <2>7
<1> QED
  BY <1>1, <1>5, <1>7, <1>8, <1>9, <1>10 DEF BInv

LEMMA SetIdxB ==
    ASSUME BInv, NEW c \in CPU, SetIdx(c)
    PROVE  BInv'
<1>1. TypeOK' /\ TypeOK /\ Clocked /\ Fresh /\ Backed /\ Recycled(c)
  BY StepTypes DEF BInv, Step
<1>2. /\ UNCHANGED <<set, now, pkt, loc, log>> /\ pc[c] = "set_idx" /\ pc'[c] = "curr_pkts"
      /\ \A d \in CPU : d # c => pc'[d] = pc[d]
  BY <1>1, TypeFacts DEF SetIdx, Goto, TypeOK
<1>3. ASSUME NEW i \in 0..1
      PROVE  /\ slot'[i].window_idx = IF i = Curr(c) THEN window_idx(c) ELSE slot[i].window_idx
             /\ slot'[i].pkts = slot[i].pkts /\ slot'[i].bytes = slot[i].bytes
  <2>1. slot[i] \in [window_idx : Win, pkts : Nat, bytes : Nat] /\ Curr(c) \in 0..1
    BY <1>1, TypeFacts DEF TypeOK, Win
  <2> QED
    BY <1>1, <2>1 DEF SetIdx, TypeOK
<1>4. \A w, f : Thru(w, f)' = Thru(w, f)
  BY <1>2, LogSame
<1>5. /\ CPU' = CPU /\ W' = W /\ Jiff' = Jiff /\ Win' = Win
      /\ \A d \in CPU : /\ window_idx(d)' = window_idx(d) /\ Curr(d)' = Curr(d)
                        /\ Prev(d)' = Prev(d) /\ Curr(d) \in 0..1 /\ Prev(d) \in 0..1
                        /\ window_idx(d) \in Nat /\ window_idx(d) <= now \div W
  BY <1>1, <1>2, Frame, TypeFacts
<1>6. Clocked'
  <2>1. \A d \in CPU : pc'[d] # "idle" => pc[d] # "idle"
    BY <1>2
  <2> QED
    BY <1>1, <1>2, <1>3, <1>5, <2>1 DEF Clocked
<1>7. Fresh'
  <2> SUFFICES ASSUME NEW w \in Win, NEW f \in Field, Open(w), slot'[w % 2].window_idx # w
               PROVE  Thru(w, f) = 0
    BY <1>2, <1>4, <1>5 DEF Fresh, Open
  <2>1. w \in Int /\ w % 2 \in 0..1 /\ now \div W \in Nat
    BY <1>1, TypeFacts, Parity
  <2>2. CASE slot[w % 2].window_idx # w
    BY <1>1, <2>2 DEF Fresh
  <2>3. CASE slot[w % 2].window_idx = w
    <3>1. w % 2 = Curr(c) /\ w # window_idx(c)
      BY <1>3, <2>1, <2>3
    <3>2. w <= now \div W
      BY <1>1, <2>1, <2>3 DEF Clocked
    <3> QED
      BY <1>1, <1>2, <2>1, <3>1, <3>2, Closed
  <2> QED
    BY <2>2, <2>3
<1>8. Backed'
  <2> SUFFICES ASSUME NEW i \in 0..1
               PROVE  /\ slot'[i].pkts <= Thru(slot'[i].window_idx, "pkts")
                      /\ slot'[i].bytes <= Thru(slot'[i].window_idx, "bytes")
    BY <1>4 DEF Backed
  <2>1. CASE i = Curr(c)
    BY <1>1, <1>2, <1>3, <2>1 DEF Recycled
  <2>2. CASE i # Curr(c)
    BY <1>1, <1>3, <2>2 DEF Backed
  <2> QED
    BY <2>1, <2>2
<1>9. ASSUME NEW d \in CPU PROVE (Own(d) /\ Recycled(d) /\ Read(d))'
  <2>1. Beside(d, "pkts")' = Beside(d, "pkts") /\ Beside(d, "bytes")' = Beside(d, "bytes")
    BY <1>4, <1>5 DEF Beside
  <2>2. Own(d) /\ Recycled(d) /\ Read(d)
    BY DEF BInv
  <2>3. pc[d] # "idle" => /\ Curr(d) = Curr(c) => window_idx(d) = window_idx(c)
                          /\ Curr(c) = Prev(d) =>
                               window_idx(c) \in {window_idx(d) - 1, window_idx(d) + 1}
    BY <1>1, <1>2, Near
  <2>4. Own(d)'
    <3>1. CASE d = c
      BY <1>2, <1>3, <1>5, <3>1 DEF Own
    <3>2. CASE d # c
      BY <1>2, <1>3, <1>5, <2>2, <2>3, <3>2 DEF Own
    <3> QED
      BY <3>1, <3>2
  <2>5. Recycled(d)'
    BY <1>2, <1>3, <1>4, <1>5, <2>2 DEF Recycled
  <2>6. Read(d)'
    <3>1. CASE d = c
      BY <1>2, <1>4, <1>5, <2>1, <2>2, <3>1 DEF Read
    <3>2. CASE d # c
      <4>1. pc'[d] \in {"prev_pkts", "prev_bytes"} =>
              slot'[Prev(d)].window_idx \in {window_idx(d) - 1, window_idx(d) + 1}
        BY <1>2, <1>3, <1>5, <2>2, <2>3, <3>2 DEF Read
      <4> QED
        BY <1>2, <1>4, <1>5, <2>1, <2>2, <3>2, <4>1 DEF Read
    <3> QED
      BY <3>1, <3>2
  <2> QED
    BY <2>4, <2>5, <2>6
<1> QED
  BY <1>1, <1>5, <1>6, <1>7, <1>8, <1>9 DEF BInv

(* An add counts in the slot and in the history alike. *)
LEMMA Adds ==
    ASSUME BInv, NEW c \in CPU, AddPkts(c) \/ AddBytes(c)
    PROVE  /\ UNCHANGED <<set, now, pkt, loc>> /\ \A d \in CPU : d # c => pc'[d] = pc[d]
           /\ \A i \in 0..1 : slot'[i].window_idx = slot[i].window_idx
           /\ \E g \in Field, n \in Nat :
                /\ \/ g = "pkts" /\ n = 1 /\ pc[c] = "add_pkts" /\ pc'[c] = "add_bytes"
                   \/ g = "bytes" /\ n = pkt[c].sz /\ pc[c] = "add_bytes" /\ pc'[c] = "idle"
                /\ \A i \in 0..1, f \in Field :
                     slot'[i][f] = slot[i][f] + (IF i = Curr(c) /\ f = g THEN n ELSE 0)
                /\ \A w \in Int, f \in Field :
                     Thru(w, f)' = Thru(w, f) + (IF w = window_idx(c) /\ f = g THEN n ELSE 0)
                /\ \A t \in Jiff, f \in Field : (t # pkt[c].ts \/ f # g) => log'[t][f] = log[t][f]
<1>1. TypeOK' /\ TypeOK
  BY StepTypes DEF BInv, Step
<1>2. /\ UNCHANGED <<set, now, pkt, loc>> /\ \A d \in CPU : d # c => pc'[d] = pc[d]
      /\ \/ AddPkts(c) /\ pc[c] = "add_pkts" /\ pc'[c] = "add_bytes"
         \/ AddBytes(c) /\ pc[c] = "add_bytes" /\ pc'[c] = "idle"
  BY <1>1 DEF AddPkts, AddBytes, Goto, TypeOK
<1>3. /\ Curr(c) \in 0..1 /\ pkt[c].ts \in Jiff /\ pkt[c].sz \in Nat /\ 1 \in Nat
      /\ log \in [Jiff -> [pkts : Nat, bytes : Nat]]
      /\ slot \in [0..1 -> [window_idx : Win, pkts : Nat, bytes : Nat]]
      /\ log' \in Logs(Jiff) /\ window_idx(c) = pkt[c].ts \div W /\ window_idx(c) \in Int
  <2>1. Jiff' = Jiff
    BY <1>2, Frame
  <2> QED
    BY <1>1, <2>1, TypeFacts DEF TypeOK, Win, Logs, window_idx
<1>4. \A i \in 0..1 : slot'[i].window_idx = slot[i].window_idx
  BY <1>2, <1>3 DEF AddPkts, AddBytes
<1>5. \A i \in 0..1 : slot[i].pkts \in Nat /\ slot[i].bytes \in Nat
  BY <1>1, TypeFacts
<1>6. PICK g \in Field, n \in Nat :
        /\ \/ g = "pkts" /\ n = 1 /\ pc[c] = "add_pkts" /\ pc'[c] = "add_bytes"
           \/ g = "bytes" /\ n = pkt[c].sz /\ pc[c] = "add_bytes" /\ pc'[c] = "idle"
        /\ \A i \in 0..1, f \in Field :
             slot'[i][f] = slot[i][f] + (IF i = Curr(c) /\ f = g THEN n ELSE 0)
        /\ log'[pkt[c].ts][g] = log[pkt[c].ts][g] + n
        /\ \A t \in Jiff, f \in Field : (t # pkt[c].ts \/ f # g) => log'[t][f] = log[t][f]
  <2>1. CASE AddPkts(c)
    <3>1. /\ log'[pkt[c].ts]["pkts"] = log[pkt[c].ts]["pkts"] + 1
          /\ \A t \in Jiff, f \in Field : (t # pkt[c].ts \/ f # "pkts") => log'[t][f] = log[t][f]
      BY <1>3, <2>1 DEF AddPkts, Field
    <3>2. \A i \in 0..1, f \in Field :
             slot'[i][f] = slot[i][f] + (IF i = Curr(c) /\ f = "pkts" THEN 1 ELSE 0)
      BY <1>3, <1>5, <2>1 DEF AddPkts, Field
    <3> QED
      BY <1>2, <1>3, <2>1, <3>1, <3>2 DEF Field, AddPkts, AddBytes
  <2>2. CASE AddBytes(c)
    <3>1. /\ log'[pkt[c].ts]["bytes"] = log[pkt[c].ts]["bytes"] + pkt[c].sz
          /\ \A t \in Jiff, f \in Field : (t # pkt[c].ts \/ f # "bytes") => log'[t][f] = log[t][f]
      BY <1>3, <2>2 DEF AddBytes, Field
    <3>2. \A i \in 0..1, f \in Field :
             slot'[i][f] = slot[i][f] + (IF i = Curr(c) /\ f = "bytes" THEN pkt[c].sz ELSE 0)
      BY <1>3, <1>5, <2>2 DEF AddBytes, Field
    <3> QED
      BY <1>2, <1>3, <2>2, <3>1, <3>2 DEF Field, AddPkts, AddBytes
  <2> QED
    BY <1>2, <2>1, <2>2
<1>7. ASSUME NEW w \in Int, NEW f \in Field
      PROVE  Thru(w, f)' = Thru(w, f) + (IF w = window_idx(c) /\ f = g THEN n ELSE 0)
  <2>1. PICK b \in Jiff : b = pkt[c].ts
    BY <1>3
  <2>2. W' = W /\ Thru(w, f) \in Nat
    BY <1>1, <1>2, Frame, ThruNat
  <2>3. /\ Thru(b \div W, g)' = Thru(b \div W, g) + n
        /\ (w # b \div W \/ f # g) => Thru(w, f)' = Thru(w, f)
    BY <1>1, <1>2, <1>3, <1>6, <2>1, LogAdd
  <2>4. CASE w = b \div W /\ f = g
    BY <1>3, <2>1, <2>2, <2>3, <2>4
  <2>5. CASE w # b \div W \/ f # g
    BY <1>3, <2>1, <2>2, <2>3, <2>5
  <2> QED
    BY <2>4, <2>5
<1> QED
  BY <1>2, <1>4, <1>6, <1>7

LEMMA AddB ==
    ASSUME BInv, NEW c \in CPU, AddPkts(c) \/ AddBytes(c)
    PROVE  BInv'
<1>1. TypeOK' /\ TypeOK /\ Clocked /\ Fresh /\ Backed /\ Own(c)
  BY StepTypes DEF BInv, Step
<1>2. /\ UNCHANGED <<set, now, pkt, loc>> /\ \A d \in CPU : d # c => pc'[d] = pc[d]
      /\ \A i \in 0..1 : slot'[i].window_idx = slot[i].window_idx
  BY Adds
<1>3. PICK g \in Field, n \in Nat :
        /\ \/ g = "pkts" /\ n = 1 /\ pc[c] = "add_pkts" /\ pc'[c] = "add_bytes"
           \/ g = "bytes" /\ n = pkt[c].sz /\ pc[c] = "add_bytes" /\ pc'[c] = "idle"
        /\ \A i \in 0..1, f \in Field :
             slot'[i][f] = slot[i][f] + (IF i = Curr(c) /\ f = g THEN n ELSE 0)
        /\ \A w \in Int, f \in Field :
             Thru(w, f)' = Thru(w, f) + (IF w = window_idx(c) /\ f = g THEN n ELSE 0)
        /\ \A t \in Jiff, f \in Field : (t # pkt[c].ts \/ f # g) => log'[t][f] = log[t][f]
  BY Adds
<1>4. slot[Curr(c)].window_idx = window_idx(c)
  BY <1>1, <1>3 DEF Own
<1>5. /\ CPU' = CPU /\ W' = W /\ Jiff' = Jiff /\ Win' = Win
      /\ \A d \in CPU : /\ window_idx(d)' = window_idx(d) /\ Curr(d)' = Curr(d)
                        /\ Prev(d)' = Prev(d) /\ Curr(d) \in 0..1 /\ Prev(d) \in 0..1
                        /\ window_idx(d) \in Nat
  BY <1>1, <1>2, Frame, TypeFacts
<1>6. \A w \in Int, f \in Field : Thru(w, f) \in Nat
  BY <1>1, ThruNat
<1>7. Clocked'
  <2>1. \A d \in CPU : pc'[d] # "idle" => pc[d] # "idle"
    BY <1>2, <1>3
  <2>2. \A t \in Jiff : t > now => t # pkt[c].ts
    BY <1>1, TypeFacts DEF Jiff
  <2>3. \A t \in Jiff : t > now => log'[t].pkts = 0 /\ log'[t].bytes = 0
    BY <1>1, <1>3, <2>2 DEF Clocked, Field
  <2> QED
    BY <1>1, <1>2, <1>5, <2>1, <2>3 DEF Clocked
<1>8. Fresh'
  <2> SUFFICES ASSUME NEW w \in Win, NEW f \in Field, Open(w), slot[w % 2].window_idx # w
               PROVE  Thru(w, f)' = 0
    <3>1. \A w \in Win : w % 2 \in 0..1
      BY <1>1, TypeFacts, Parity
    <3> QED
      BY <1>2, <1>5, <3>1 DEF Fresh, Open
  <2>1. w \in Int /\ Thru(w, f) = 0
    BY <1>1, TypeFacts DEF Fresh
  <2>2. w # window_idx(c)
    BY <1>4 DEF Curr
  <2> QED
    BY <1>3, <2>1, <2>2
<1>9. Backed'
  <2> SUFFICES ASSUME NEW i \in 0..1, NEW f \in Field
               PROVE  slot'[i][f] <= Thru(slot[i].window_idx, f)'
    <3>1. \A i \in 0..1 : slot'[i].window_idx = slot[i].window_idx
      BY <1>2
    <3> QED
      BY <3>1 DEF Backed, Field
  <2>1. PICK v \in Int : v = slot[i].window_idx /\ v = slot'[i].window_idx
    BY <1>1, <1>2, TypeFacts
  <2>2. slot[i][f] <= Thru(v, f) /\ slot[i][f] \in Nat /\ Thru(v, f) \in Nat
    BY <1>1, <1>6, <2>1, TypeFacts DEF Backed, Field
  <2>3. i = Curr(c) => v = window_idx(c)
    BY <1>4, <2>1
  <2>4. slot'[i][f] <= Thru(v, f)'
    BY <1>3, <2>2, <2>3
  <2> QED
    BY <2>1, <2>4
<1>10. ASSUME NEW d \in CPU PROVE (Own(d) /\ Recycled(d) /\ Read(d))'
  <2>1. PICK v \in Int : v = window_idx(d) /\ v = window_idx(d)' /\ v - 1 \in Int /\ v + 1 \in Int
    BY <1>5
  <2>2. /\ \A f \in Field : Beside(d, f) = Thru(v - 1, f) + Thru(v + 1, f)
        /\ \A f \in Field : Beside(d, f)' = Thru(v - 1, f)' + Thru(v + 1, f)'
    BY <2>1 DEF Beside
  <2>3. \A f \in Field : /\ Thru(v, f) \in Nat /\ Thru(v, f)' \in Nat /\ Thru(v, f) <= Thru(v, f)'
                         /\ Beside(d, f) \in Nat /\ Beside(d, f)' \in Nat
                         /\ Beside(d, f) <= Beside(d, f)'
    <3>1. \A w \in Int, f \in Field :
             Thru(w, f) \in Nat /\ Thru(w, f)' \in Nat /\ Thru(w, f) <= Thru(w, f)'
      BY <1>3, <1>6
    <3> QED
      BY <2>1, <2>2, <3>1
  <2>4. Own(d) /\ Recycled(d) /\ Read(d)
    BY DEF BInv
  <2>5. Own(d)'
    BY <1>2, <1>3, <1>5, <2>4 DEF Own
  <2>6. Recycled(d)'
    <3>1. CASE pc'[d] \in {"zero_bytes", "set_idx"}
      <4>1. d # c /\ pc[d] = pc'[d] /\ pc[d] # "idle" /\ pc[c] # "idle"
        BY <1>2, <1>3, <3>1
      <4>2. Curr(d) = Curr(c) => v = window_idx(c)
        BY <1>1, <2>1, <4>1, Near
      <4>3. slot[Curr(d)].pkts \in Nat /\ slot[Curr(d)].bytes \in Nat
        BY <1>1, TypeFacts
      <4>4. ASSUME NEW f \in Field, slot[Curr(d)][f] <= Thru(v, f)
            PROVE  slot'[Curr(d)][f] <= Thru(v, f)'
        BY <1>3, <1>5, <2>3, <4>2, <4>3, <4>4 DEF Field
      <4> QED
        BY <1>5, <2>1, <2>4, <4>1, <4>4 DEF Recycled, Field
    <3>2. CASE pc'[d] \notin {"zero_bytes", "set_idx"}
      BY <3>2 DEF Recycled
    <3> QED
      BY <3>1, <3>2
  <2>7. Read(d)'
    <3>1. pc'[d] \in {"prev_pkts", "prev_bytes"} =>
            slot'[Prev(d)].window_idx \in {v - 1, v + 1}
      BY <1>2, <1>3, <1>5, <2>1, <2>4 DEF Read
    <3>2. ASSUME pc'[d] # "idle"
          PROVE  /\ loc'[d].cp <= Thru(v, "pkts")' /\ loc'[d].cb <= Thru(v, "bytes")'
                 /\ loc'[d].pp <= Beside(d, "pkts")' /\ loc'[d].pb <= Beside(d, "bytes")'
      <4>1. /\ loc[d].cp <= Thru(v, "pkts") /\ loc[d].cb <= Thru(v, "bytes")
            /\ loc[d].pp <= Beside(d, "pkts") /\ loc[d].pb <= Beside(d, "bytes")
        BY <1>2, <1>3, <2>1, <2>4, <3>2 DEF Read
      <4>2. loc[d].cp \in Nat /\ loc[d].cb \in Nat /\ loc[d].pp \in Nat /\ loc[d].pb \in Nat
        BY <1>1, TypeFacts
      <4> QED
        BY <1>2, <2>3, <4>1, <4>2 DEF Field
    <3>3. ASSUME pc'[d] = "drop"
          PROVE  \/ Thru(v, "pkts")' + Beside(d, "pkts")' >= set.pkts
                 \/ Thru(v, "bytes")' + Beside(d, "bytes")' + pkt[d].sz > set.bytes
      <4>1. \/ Thru(v, "pkts") + Beside(d, "pkts") >= set.pkts
            \/ Thru(v, "bytes") + Beside(d, "bytes") + pkt[d].sz > set.bytes
        BY <1>2, <1>3, <2>1, <2>4, <3>3 DEF Read
      <4>2. set.pkts \in Nat /\ set.bytes \in Nat /\ pkt[d].sz \in Nat
        BY <1>1, TypeFacts
      <4> QED
        BY <2>3, <4>1, <4>2 DEF Field
    <3> QED
      BY <1>2, <1>5, <2>1, <3>1, <3>2, <3>3 DEF Read
  <2> QED
    BY <2>5, <2>6, <2>7
<1> QED
  BY <1>1, <1>5, <1>7, <1>8, <1>9, <1>10 DEF BInv

LEMMA ReceiveB ==
    ASSUME BInv, NEW c \in CPU, NEW sz \in set.sizes, Receive(c, sz)
    PROVE  BInv'
<1>1. TypeOK' /\ TypeOK /\ Clocked /\ Fresh /\ Backed
  BY NextTypes DEF BInv, Next
<1>2. /\ UNCHANGED <<set, slot, now, log>> /\ pc'[c] = "test" /\ pkt'[c].ts = now
      /\ loc'[c] = NoLocals
      /\ \A d \in CPU : d # c => pc'[d] = pc[d] /\ pkt'[d] = pkt[d] /\ loc'[d] = loc[d]
  BY <1>1 DEF Receive, Goto, TypeOK
<1>3. \A w, f : Thru(w, f)' = Thru(w, f)
  BY <1>2, LogSame
<1>4. /\ CPU' = CPU /\ W' = W /\ Jiff' = Jiff /\ Win' = Win
      /\ \A d \in CPU : d # c => /\ window_idx(d)' = window_idx(d) /\ Curr(d)' = Curr(d)
                                 /\ Prev(d)' = Prev(d)
  BY <1>2, Frame
<1>5. Clocked'
  <2>1. \A d \in CPU : pc'[d] # "idle" => now - pkt'[d].ts <= MaxLag
    <3> TAKE d \in CPU
    <3>1. now \in Nat /\ MaxLag \in Nat
      BY <1>1, TypeFacts
    <3> QED
      BY <1>1, <1>2, <3>1 DEF Clocked
  <2> QED
    BY <1>1, <1>2, <1>4, <2>1 DEF Clocked
<1>6. Fresh' /\ Backed'
  BY <1>1, <1>2, <1>3, <1>4 DEF Fresh, Open, Backed
<1>7. ASSUME NEW d \in CPU PROVE (Own(d) /\ Recycled(d) /\ Read(d))'
  <2>1. CASE d = c
    <3>1. /\ Thru(window_idx(c), "pkts")' \in Nat /\ Thru(window_idx(c), "bytes")' \in Nat
          /\ Beside(c, "pkts")' \in Nat /\ Beside(c, "bytes")' \in Nat
      <4>1. PICK v \in Int : v = window_idx(c)'
        <5>1. window_idx(c)' = now \div W
          BY <1>2, <1>4 DEF window_idx
        <5> QED
          BY <1>1, <5>1, TypeFacts
      <4>2. v - 1 \in Int /\ v + 1 \in Int
        OBVIOUS
      <4>3. \A f \in Field : Thru(v, f) \in Nat /\ Thru(v - 1, f) \in Nat /\ Thru(v + 1, f) \in Nat
        BY <1>1, <4>2, ThruNat
      <4> QED
        BY <1>3, <4>1, <4>3 DEF Beside, Field
    <3>2. loc'[c].cp = 0 /\ loc'[c].cb = 0 /\ loc'[c].pp = 0 /\ loc'[c].pb = 0
      BY <1>2 DEF NoLocals
    <3> QED
      BY <1>2, <2>1, <3>1, <3>2 DEF Own, Recycled, Read
  <2>2. CASE d # c
    <3>1. Beside(d, "pkts")' = Beside(d, "pkts") /\ Beside(d, "bytes")' = Beside(d, "bytes")
      BY <1>3, <1>4, <2>2 DEF Beside
    <3>2. Own(d) /\ Recycled(d) /\ Read(d)
      BY DEF BInv
    <3> QED
      BY <1>2, <1>3, <1>4, <2>2, <3>1, <3>2 DEF Own, Recycled, Read
  <2> QED
    BY <2>1, <2>2
<1> QED
  BY <1>1, <1>4, <1>5, <1>6, <1>7 DEF BInv

LEMMA TickB ==
    ASSUME BInv, Tick
    PROVE  BInv'
<1>1. TypeOK' /\ TypeOK /\ Clocked /\ Fresh /\ Backed
  BY NextTypes DEF BInv, Next
<1>2. UNCHANGED <<set, slot, pc, pkt, loc, log>> /\ now' = now + 1
  BY DEF Tick
<1>3. \A w, f : Thru(w, f)' = Thru(w, f)
  BY <1>2, LogSame
<1>4. /\ CPU' = CPU /\ W' = W /\ Jiff' = Jiff /\ Win' = Win
      /\ \A d \in CPU : /\ window_idx(d)' = window_idx(d) /\ Curr(d)' = Curr(d)
                        /\ Prev(d)' = Prev(d)
  BY <1>2, Frame
<1>5. now \in Nat /\ W \in Nat \ {0} /\ MaxLag \in Nat
  BY <1>1, TypeFacts
<1>6. Clocked'
  <2>1. \A d \in CPU : pc'[d] # "idle" => now' - pkt'[d].ts <= MaxLag
    BY <1>1, <1>2, <1>5, TypeFacts DEF Tick
  <2>2. \A t \in Jiff : t > now' => log'[t].pkts = 0 /\ log'[t].bytes = 0
    BY <1>1, <1>2, <1>5 DEF Clocked, Jiff
  <2>3. \A i \in 0..1 : slot'[i].window_idx <= now' \div W
    <3> TAKE i \in 0..1
    <3>1. now \div W <= now' \div W /\ now \div W \in Nat /\ now' \div W \in Nat
      BY <1>2, <1>5, DivMono, DivFacts
    <3>2. slot[i].window_idx <= now \div W /\ slot[i].window_idx \in Nat
      BY <1>1, TypeFacts DEF Clocked
    <3> QED
      BY <1>2, <3>1, <3>2
  <2> QED
    BY <1>4, <2>1, <2>2, <2>3 DEF Clocked
<1>7. Fresh'
  <2>1. \A w \in Win : Open(w)' => Open(w)
    <3> TAKE w \in Win
    <3>1. w \in Nat
      BY <1>1, TypeFacts
    <3>2. w * W + W - 1 + MaxLag \in Int
      BY <1>5, <3>1
    <3> QED
      BY <1>2, <1>4, <1>5, <3>2 DEF Open
  <2> QED
    BY <1>1, <1>2, <1>3, <1>4, <2>1 DEF Fresh
<1>8. Backed'
  BY <1>1, <1>2, <1>3 DEF Backed
<1>9. ASSUME NEW d \in CPU PROVE (Own(d) /\ Recycled(d) /\ Read(d))'
  <2>1. Beside(d, "pkts")' = Beside(d, "pkts") /\ Beside(d, "bytes")' = Beside(d, "bytes")
    BY <1>3, <1>4 DEF Beside
  <2>2. Own(d) /\ Recycled(d) /\ Read(d)
    BY DEF BInv
  <2> QED
    BY <1>2, <1>3, <1>4, <2>1, <2>2 DEF Own, Recycled, Read
<1> QED
  BY <1>1, <1>4, <1>6, <1>7, <1>8, <1>9 DEF BInv

LEMMA IdleB ==
    ASSUME BInv, UNCHANGED vars
    PROVE  BInv'
<1>1. TypeOK'
  BY NextTypes DEF BInv
<1>2. UNCHANGED <<set, slot, now, pc, pkt, loc, log>>
  BY DEF vars
<1>3. \A w, f : Thru(w, f)' = Thru(w, f)
  BY <1>2, LogSame
<1>4. /\ CPU' = CPU /\ W' = W /\ Jiff' = Jiff /\ Win' = Win
      /\ \A d \in CPU : /\ window_idx(d)' = window_idx(d) /\ Curr(d)' = Curr(d)
                        /\ Prev(d)' = Prev(d)
  BY <1>2, Frame
<1>5. Clocked' /\ Fresh' /\ Backed'
  BY <1>2, <1>3, <1>4 DEF BInv, Clocked, Fresh, Open, Backed
<1>6. ASSUME NEW d \in CPU PROVE (Own(d) /\ Recycled(d) /\ Read(d))'
  <2>1. Beside(d, "pkts")' = Beside(d, "pkts") /\ Beside(d, "bytes")' = Beside(d, "bytes")
    BY <1>3, <1>4 DEF Beside
  <2>2. Own(d) /\ Recycled(d) /\ Read(d)
    BY DEF BInv
  <2> QED
    BY <1>2, <1>3, <1>4, <2>1, <2>2 DEF Own, Recycled, Read
<1> QED
  BY <1>1, <1>4, <1>5, <1>6 DEF BInv

LEMMA NextB == BInv /\ [Next]_vars => BInv'
<1> SUFFICES ASSUME BInv, [Next]_vars PROVE BInv'
  OBVIOUS
<1>1. ASSUME NEW c \in CPU, Step(c) PROVE BInv'
  BY <1>1, ReadsB, JudgesB, ZeroB, SetIdxB, AddB DEF Step
<1> QED
  BY <1>1, ReceiveB, TickB, IdleB DEF Next

(* BInv is inductive. *)
THEOREM Invariant == Spec => []BInv
  BY InitB, NextB, PTL DEF Spec

(* The slots, the packets in flight and the history always have the shape  *)
(* xfw_is_within_rlimit works on.                                          *)
THEOREM TypeCorrect == Spec => []TypeOK
<1>1. BInv => TypeOK
  BY DEF BInv
<1> QED
  BY <1>1, Invariant, PTL

LEMMA LogSums ==
    ASSUME TypeOK, NEW f \in Field
    PROVE  \A X, Y \in SUBSET Jiff :
             /\ Sum(log, f, X) \in Nat
             /\ Sum(log, f, X \cup Y) <= Sum(log, f, X) + Sum(log, f, Y)
             /\ X \cap Y = {} => Sum(log, f, X \cup Y) = Sum(log, f, X) + Sum(log, f, Y)
<1>1. IsFiniteSet(Jiff) /\ log \in Logs(Jiff)
  BY TypeFacts
<1>2. PICK J, L : J = Jiff /\ L = log /\ IsFiniteSet(J) /\ L \in Logs(J)
  BY <1>1
<1> SUFFICES ASSUME NEW X \in SUBSET J, NEW Y \in SUBSET J
             PROVE  /\ Sum(L, f, X) \in Nat
                    /\ Sum(L, f, X \cup Y) <= Sum(L, f, X) + Sum(L, f, Y)
                    /\ X \cap Y = {} => Sum(L, f, X \cup Y) = Sum(L, f, X) + Sum(L, f, Y)
  BY <1>2
<1> QED
  BY <1>2, SumUnion

(* What was let through in the windows next to a packet's and in its own   *)
LEMMA AroundSum ==
    ASSUME TypeOK, NEW c \in CPU, NEW f \in Field
    PROVE  Thru(window_idx(c), f) + Beside(c, f) <= Around(c, f)
<1>1. PICK v \in Nat : v = window_idx(c)
  BY TypeFacts
<1>2. v - 1 \in Int /\ v + 1 \in Int /\ W \in Nat \ {0} /\ IsFiniteSet(Jiff) /\ log \in Logs(Jiff)
  BY TypeFacts
<1>3. /\ Times(v) \in SUBSET Jiff /\ Times(v - 1) \in SUBSET Jiff /\ Times(v + 1) \in SUBSET Jiff
      /\ Times(v) \cap Times(v - 1) = {} /\ (Times(v) \cup Times(v - 1)) \cap Times(v + 1) = {}
  <2>1. /\ Times(v) \in SUBSET Jiff /\ Times(v - 1) \in SUBSET Jiff /\ Times(v + 1) \in SUBSET Jiff
        /\ \A t \in Jiff : /\ t \in Times(v) <=> t \div W = v
                           /\ t \in Times(v - 1) <=> t \div W = v - 1
                           /\ t \in Times(v + 1) <=> t \div W = v + 1
    BY <1>2, TimesFacts
  <2>2. v # v - 1 /\ v # v + 1 /\ v - 1 # v + 1
    OBVIOUS
  <2>3. \A t : ~(t \in Times(v) /\ t \in Times(v - 1)) /\ ~(t \in Times(v) /\ t \in Times(v + 1))
               /\ ~(t \in Times(v - 1) /\ t \in Times(v + 1))
    BY <2>1, <2>2
  <2> QED
    BY <2>1, <2>3
<1> DEFINE lo == (IF v = 0 THEN 0 ELSE v - 1) * W
           hi == v * W + 2 * W - 1
           A == (lo..hi) \cap Jiff
           T == (Times(v) \cup Times(v - 1)) \cup Times(v + 1)
<1>4. Around(c, f) = Sum(log, f, A)
  BY <1>1 DEF Around, Through, Sum
<1>5. T \subseteq A
  <2> SUFFICES ASSUME NEW t \in T PROVE t \in A
    OBVIOUS
  <2>1. t \in Jiff /\ t \in Nat
    BY <1>3 DEF Jiff
  <2>2. t \div W \in {v - 1, v, v + 1}
    BY <1>2, <2>1, TimesFacts
  <2>3. t \div W \in Nat /\ W * (t \div W) <= t /\ t < W * (t \div W) + W
    BY <1>2, <2>1, DivFacts
  <2>4. PICK q \in Nat : q = t \div W /\ (v = 0 => 0 <= q) /\ (v # 0 => v - 1 <= q) /\ q <= v + 1
    BY <1>1, <2>2, <2>3
  <2>5. t <= hi
    <3>1. W * q <= W * (v + 1)
      BY <1>2, <2>4
    <3>2. W * (v + 1) = v * W + W /\ v * W \in Nat
      BY <1>2
    <3> QED
      BY <1>2, <2>1, <2>3, <2>4, <3>1, <3>2
  <2>6. lo <= t
    <3>1. CASE v = 0
      BY <1>2, <2>1, <3>1
    <3>2. CASE v # 0
      <4>1. W * (v - 1) <= W * q
        BY <1>2, <2>4, <3>2
      <4>2. W * (v - 1) = (v - 1) * W
        BY <1>2
      <4> QED
        BY <1>2, <2>1, <2>3, <2>4, <3>2, <4>1, <4>2
    <3> QED
      BY <3>1, <3>2
  <2>7. lo \in Int /\ hi \in Int
    BY <1>2
  <2> QED
    BY <2>1, <2>5, <2>6, <2>7
<1> HIDE DEF A
<1>6. A \in SUBSET Jiff
  BY DEF A
<1>7. Sum(log, f, T) = (Sum(log, f, Times(v)) + Sum(log, f, Times(v - 1))) + Sum(log, f, Times(v + 1))
  <2>0. \A X, Y \in SUBSET Jiff : X \cap Y = {} => Sum(log, f, X \cup Y) = Sum(log, f, X) + Sum(log, f, Y)
    BY LogSums
  <2>1. Sum(log, f, Times(v) \cup Times(v - 1)) = Sum(log, f, Times(v)) + Sum(log, f, Times(v - 1))
    BY <1>3, <2>0
  <2>2. Times(v) \cup Times(v - 1) \in SUBSET Jiff
    BY <1>3
  <2>3. Sum(log, f, T) = Sum(log, f, Times(v) \cup Times(v - 1)) + Sum(log, f, Times(v + 1))
    BY <1>3, <2>0, <2>2
  <2> QED
    BY <2>1, <2>3
<1>8. Sum(log, f, T) <= Sum(log, f, A)
  <2>1. \A t \in T : log[t][f] <= log[t][f]
    <3>1. \A t \in T : t \in Jiff
      BY <1>5, <1>6
    <3>2. \A t \in Jiff : log[t].pkts \in Nat /\ log[t].bytes \in Nat
      BY DEF TypeOK
    <3> QED
      BY <3>1, <3>2 DEF Field
  <2> HIDE DEF T
  <2> QED
    BY <1>2, <1>5, <1>6, <2>1, SumMono
<1>9. /\ Sum(log, f, Times(v)) = Thru(v, f) /\ Sum(log, f, Times(v - 1)) = Thru(v - 1, f)
      /\ Sum(log, f, Times(v + 1)) = Thru(v + 1, f)
      /\ Thru(v, f) \in Nat /\ Thru(v - 1, f) \in Nat /\ Thru(v + 1, f) \in Nat
  BY <1>2, ThruSum, ThruNat
<1> HIDE DEF T
<1> QED
  BY <1>1, <1>4, <1>7, <1>8, <1>9 DEF Beside

(* Whatever the races between CPUs do to the two slots, xfw_is_within_rlimit *)
(* refuses a packet only when the packets it let through around the window *)
(* of this one really use the limit of the rule up.                        *)
THEOREM DropsAreEarned == Spec => []NoSpuriousDrop
<1>1. BInv => NoSpuriousDrop
  <2> SUFFICES ASSUME BInv, NEW c \in CPU, pc[c] = "drop"
               PROVE  \/ Around(c, "pkts") >= set.pkts
                      \/ Around(c, "bytes") + pkt[c].sz > set.bytes
    BY DEF NoSpuriousDrop
  <2>1. TypeOK /\ Read(c)
    BY DEF BInv
  <2>2. \/ Thru(window_idx(c), "pkts") + Beside(c, "pkts") >= set.pkts
        \/ Thru(window_idx(c), "bytes") + Beside(c, "bytes") + pkt[c].sz > set.bytes
    BY <2>1 DEF Read
  <2>3. \A f \in Field : /\ Thru(window_idx(c), f) + Beside(c, f) <= Around(c, f)
                         /\ Thru(window_idx(c), f) + Beside(c, f) \in Nat
    BY <2>1, AroundSum, BesideFacts
  <2>4. \A f \in Field : Around(c, f) \in Nat
    <3>2. \A lo, hi : \A f \in Field : Through(lo, hi, f) \in Nat
      <4>1. ASSUME NEW lo, NEW hi, NEW f \in Field PROVE Through(lo, hi, f) \in Nat
        <5>1. Through(lo, hi, f) = Sum(log, f, (lo..hi) \cap Jiff)
          BY DEF Through, Sum
        <5> QED
          BY <2>1, <5>1, LogSums
      <4> QED
        BY <4>1
    <3> QED
      BY <3>2 DEF Around
  <2>5. set.pkts \in Nat /\ set.bytes \in Nat /\ pkt[c].sz \in Nat
    BY <2>1, TypeFacts
  <2> QED
    BY <2>2, <2>3, <2>4, <2>5 DEF Field
<1> QED
  BY <1>1, Invariant, PTL

-----------------------------------------------------------------------------
(* Any number of CPUs: how far the races can overshoot the limit *)
LEMMA RaceFacts ==
    ASSUME TypeOK, NEW w
    PROVE  /\ IsFiniteSet(Wipers(w)) /\ IsFiniteSet(Joining(w))
           /\ Cardinality(Wipers(w)) \in Nat /\ Cardinality(Joining(w)) \in Nat
           /\ Cardinality(Wipers(w)) + Cardinality(Joining(w)) <= N
           /\ N \in Nat \ {0} /\ set.pkts \in Nat
<1>1. IsFiniteSet(CPU) /\ N \in Nat \ {0} /\ set.pkts \in Nat
  BY TypeFacts
<1>2. Wipers(w) \subseteq CPU /\ Joining(w) \subseteq CPU /\ Wipers(w) \cap Joining(w) = {}
  BY DEF Wipers, Joining
<1>3. IsFiniteSet(Wipers(w)) /\ IsFiniteSet(Joining(w))
  BY <1>1, <1>2, FS_Subset
<1>4. Cardinality(Wipers(w)) \in Nat /\ Cardinality(Joining(w)) \in Nat
  BY <1>3, FS_CardinalityType
<1>5. Cardinality(Wipers(w) \cup Joining(w)) = Cardinality(Wipers(w)) + Cardinality(Joining(w))
  <2>1. Cardinality(Wipers(w) \cup Joining(w)) =
          Cardinality(Wipers(w)) + Cardinality(Joining(w)) - Cardinality(Wipers(w) \cap Joining(w))
    BY <1>3, FS_Union
  <2>2. Cardinality(Wipers(w) \cap Joining(w)) = 0
    BY <1>2, FS_EmptySet
  <2> QED
    BY <1>4, <2>1, <2>2
<1>6. Cardinality(Wipers(w) \cup Joining(w)) <= N
  <2>1. Wipers(w) \cup Joining(w) \subseteq CPU
    BY <1>2
  <2> QED
    BY <1>1, <2>1, FS_Subset DEF N
<1> QED
  BY <1>1, <1>3, <1>4, <1>5, <1>6

(* A step of one CPU changes neither set but for that CPU. *)
LEMMA RaceFrame ==
    ASSUME TypeOK, set' = set, pkt' = pkt, NEW c \in CPU,
           \A d \in CPU : d # c => pc'[d] = pc[d] /\ loc'[d] = loc[d]
    PROVE  \A w : /\ Wipers(w)' \ {c} = Wipers(w) \ {c} /\ Joining(w)' \ {c} = Joining(w) \ {c}
                  /\ w # window_idx(c) => Wipers(w)' = Wipers(w) /\ Joining(w)' = Joining(w)
<1>1. CPU' = CPU /\ \A d \in CPU : window_idx(d)' = window_idx(d)
  BY Frame
<1> TAKE w
<1>2. \A d \in CPU : d # c => /\ d \in Wipers(w)' <=> d \in Wipers(w)
                              /\ d \in Joining(w)' <=> d \in Joining(w)
  BY <1>1 DEF Wipers, Joining
<1>3. Wipers(w) \subseteq CPU /\ Joining(w) \subseteq CPU /\ Wipers(w)' \subseteq CPU /\ Joining(w)' \subseteq CPU
  BY <1>1 DEF Wipers, Joining
<1>4. w # window_idx(c) => c \notin Wipers(w) /\ c \notin Joining(w) /\ c \notin Wipers(w)' /\ c \notin Joining(w)'
  BY <1>1 DEF Wipers, Joining
<1> QED
  BY <1>2, <1>3, <1>4

LEMMA RacedKept ==
    ASSUME TypeOK, NEW w \in Win, set' = set, RacedAt(w), slot'[w % 2].pkts = slot[w % 2].pkts,
           Thru(w, "pkts")' = Thru(w, "pkts"), Wipers(w)' = Wipers(w),
           Joining(w)' \subseteq Joining(w)
    PROVE  RacedAt(w)'
<1>1. PICK X, Y : X = Wipers(w)' /\ Y = Joining(w)'
  OBVIOUS
<1>2. Cardinality(Y) \in Nat /\ Cardinality(Y) <= Cardinality(Joining(w))
  BY <1>1, RaceFacts, FS_Subset, FS_CardinalityType
<1>3. slot[w % 2].pkts \in Nat
  BY TypeFacts, Parity
<1>4. Cardinality(Wipers(w)) \in Nat /\ Cardinality(Joining(w)) \in Nat /\ N \in Nat /\ set.pkts \in Nat
  BY RaceFacts
<1>5. N' = N
  BY Frame
<1>6. slot[w % 2].pkts + Cardinality(Y) + Cardinality(X) + 1 <= set.pkts + N
  BY <1>1, <1>2, <1>3, <1>4 DEF RacedAt
<1> QED
  BY <1>1, <1>5, <1>6 DEF RacedAt

LEMMA InitR == ASSUME Init PROVE RInv
<1>1. BInv /\ TypeOK
  BY InitB DEF BInv
<1>2. ASSUME NEW w \in Win PROVE Thru(w, "pkts") = 0
  <2>1. w \in Int /\ \A t \in Jiff : log[t].pkts = 0
    BY <1>1, TypeFacts DEF Init
  <2>2. \A t \in Times(w) : log[t]["pkts"] = 0
    BY <1>1, <2>1, TimesFacts
  <2> QED
    BY <2>2, ThruSum, SumZero
<1>3. N \in Nat \ {0} /\ set.pkts \in Nat /\ N - 1 \in Nat
  BY <1>1, TypeFacts
<1>4. Hidden(set.pkts, N) \in Nat /\ Hidden(set.pkts, N - 1) \in Nat
  BY <1>3, Triangle
<1>5. Raced
  <2> SUFFICES ASSUME NEW w \in Win PROVE RacedAt(w)
    BY DEF Raced
  <2>1. Wipers(w) = {} /\ Joining(w) = {}
    BY DEF Wipers, Joining, Init
  <2>2. Cardinality(Wipers(w)) = 0 /\ Cardinality(Joining(w)) = 0
    BY <2>1, FS_EmptySet
  <2>3. slot[w % 2].pkts = 0
    BY <1>1, TypeFacts, Parity DEF Init, ZeroSlot
  <2>4. N - 1 - Cardinality(Wipers(w)) = N - 1
    BY <1>3, <2>2
  <2> QED
    BY <1>2, <1>3, <1>4, <2>2, <2>3, <2>4 DEF RacedAt
<1>6. \A c \in CPU : pc[c] # "add_pkts"
  BY DEF Init
<1> QED
  BY <1>1, <1>2, <1>4, <1>5, <1>6 DEF RInv

(* A step that neither counts packets nor changes whose a slot is *)
LEMMA QuietR ==
    ASSUME RInv, BInv', set' = set,
           \A i \in 0..1 : /\ slot'[i].pkts = slot[i].pkts
                           /\ slot'[i].window_idx = slot[i].window_idx,
           \A w \in Win : /\ Thru(w, "pkts")' = Thru(w, "pkts") /\ (Open(w)' => Open(w))
                          /\ slot[w % 2].window_idx = w =>
                               Wipers(w)' = Wipers(w) /\ Joining(w)' \subseteq Joining(w),
           \A c \in CPU : pc'[c] = "add_pkts" => loc'[c].cp < set.pkts
    PROVE  RInv'
<1>1. TypeOK /\ Raced
  BY DEF RInv, BInv
<1>2. CPU' = CPU /\ Win' = Win /\ N' = N
  BY Frame
<1>3. Raced'
  <2> SUFFICES ASSUME NEW w \in Win, Open(w)', slot'[w % 2].window_idx = w
               PROVE  RacedAt(w)'
    BY <1>2 DEF Raced
  <2>1. w % 2 \in 0..1
    BY <1>1, TypeFacts, Parity
  <2>2. RacedAt(w) /\ Wipers(w)' = Wipers(w) /\ Joining(w)' \subseteq Joining(w)
    BY <1>1, <2>1 DEF Raced
  <2> QED
    BY <1>1, <2>1, <2>2, RacedKept
<1>4. \A w \in Win : Thru(w, "pkts")' <= Hidden(set.pkts, N)
  BY DEF RInv
<1> QED
  BY <1>2, <1>3, <1>4 DEF RInv

(* The verdict is taken on the count that was read. *)
LEMMA Passed ==
    ASSUME TypeOK, NEW c \in CPU, NEW l \in [cp : Nat, cb : Nat, pp : Nat, pb : Nat], Within(c, l)
    PROVE  l.cp < set.pkts
<1>1. /\ W \in Nat \ {0} /\ overlap(c) \in 0..W /\ set.pkts \in Nat
      /\ l.cp \in Nat /\ l.pp \in Nat
  BY TypeFacts
<1>2. (l.pp * overlap(c)) \div W \in Nat
  BY <1>1, Share
<1> QED
  BY <1>1, <1>2 DEF Within, Effective

LEMMA StepsR ==
    ASSUME RInv, NEW c \in CPU,
           \/ TestCurr(c) \/ ZeroBytes(c) \/ ReadCurrBytes(c) \/ TestPrev(c)
           \/ ReadPrevPkts(c) \/ ReadPrevBytes(c) \/ AddBytes(c) \/ Drop(c)
    PROVE  RInv'
<1>1. BInv /\ TypeOK /\ BInv' /\ TypeOK' /\ Step(c)
  <2>1. BInv /\ Step(c)
    BY DEF RInv, Step
  <2> QED
    BY <2>1, NextB DEF BInv, Next
<1>2. /\ UNCHANGED <<set, now, pkt>>
      /\ \A d \in CPU : d # c => pc'[d] = pc[d] /\ loc'[d] = loc[d]
  BY <1>1 DEF TestCurr, ZeroBytes, ReadCurrBytes, TestPrev, ReadPrevPkts, ReadPrevBytes,
              AddBytes, Drop, Judge, Goto, TypeOK
<1>3. /\ CPU' = CPU /\ Win' = Win /\ W' = W /\ N' = N
      /\ window_idx(c)' = window_idx(c) /\ Curr(c) \in 0..1
  BY <1>1, <1>2, Frame, TypeFacts
<1>4. \A i \in 0..1 : slot'[i].pkts = slot[i].pkts /\ slot'[i].window_idx = slot[i].window_idx
  <2> TAKE i \in 0..1
  <2>1. slot \in [0..1 -> [window_idx : Win, pkts : Nat, bytes : Nat]]
    BY <1>1 DEF TypeOK, Win
  <2> QED
    BY <1>3, <2>1 DEF TestCurr, ZeroBytes, ReadCurrBytes, TestPrev, ReadPrevPkts,
                      ReadPrevBytes, AddBytes, Drop
<1>5. \A w \in Win : Thru(w, "pkts")' = Thru(w, "pkts") /\ (Open(w)' => Open(w))
  <2>1. \A w \in Win : Open(w)' => Open(w)
    BY <1>2, <1>3 DEF Open
  <2>2. CASE AddBytes(c)
    <3>1. PICK g \in Field, n \in Nat :
            /\ \/ g = "pkts" /\ n = 1 /\ pc[c] = "add_pkts" /\ pc'[c] = "add_bytes"
               \/ g = "bytes" /\ n = pkt[c].sz /\ pc[c] = "add_bytes" /\ pc'[c] = "idle"
            /\ \A w \in Int, f \in Field :
                 Thru(w, f)' = Thru(w, f) + (IF w = window_idx(c) /\ f = g THEN n ELSE 0)
      BY <1>1, <2>2, Adds
    <3>2. g # "pkts"
      BY <2>2, <3>1 DEF AddBytes
    <3>3. \A w \in Win : w \in Int /\ Thru(w, "pkts") \in Nat
      BY <1>1, TypeFacts, ThruNat DEF Field
    <3> QED
      BY <2>1, <3>1, <3>2, <3>3 DEF Field
  <2>3. CASE ~AddBytes(c)
    <3>1. log' = log
      BY <2>3 DEF TestCurr, ZeroBytes, ReadCurrBytes, TestPrev, ReadPrevPkts, ReadPrevBytes, Drop
    <3> QED
      BY <1>2, <2>1, <3>1, LogSame
  <2> QED
    BY <2>2, <2>3
<1>6. loc'[c].cp = loc[c].cp
  BY <1>1 DEF TestCurr, ZeroBytes, ReadCurrBytes, TestPrev, ReadPrevPkts, ReadPrevBytes,
              AddBytes, Drop, TypeOK
<1>7. \/ pc[c] = "test" /\ Stale(c) /\ pc'[c] \in {"zero_pkts"}
      \/ pc[c] \in {"test", "zero_bytes"} /\ pc'[c] \in {"set_idx", "curr_pkts"}
      \/ pc[c] \in {"curr_bytes", "test_prev", "prev_pkts", "prev_bytes"} /\ pc'[c] # "zero_pkts"
      \/ pc[c] \in {"add_bytes", "drop"} /\ pc'[c] = "idle"
  BY <1>1 DEF TestCurr, ZeroBytes, ReadCurrBytes, TestPrev, ReadPrevPkts, ReadPrevBytes,
              AddBytes, Drop, Judge, Goto, TypeOK
<1>8. ASSUME NEW w \in Win, slot[w % 2].window_idx = w
      PROVE  Wipers(w)' = Wipers(w) /\ Joining(w)' \subseteq Joining(w)
  <2>1. Wipers(w)' \ {c} = Wipers(w) \ {c} /\ Joining(w)' \ {c} = Joining(w) \ {c}
    BY <1>1, <1>2, RaceFrame
  <2>2. c \notin Wipers(w) /\ c \notin Wipers(w)'
    <3>1. c \notin Wipers(w)
      BY <1>7 DEF Wipers
    <3>2. window_idx(c) = w => ~Stale(c)
      BY <1>8 DEF Stale, Curr
    <3> QED
      BY <1>3, <1>7, <3>1, <3>2 DEF Wipers
  <2>3. c \in Joining(w)' => c \in Joining(w)
    BY <1>2, <1>3, <1>6, <1>7 DEF Joining
  <2> QED
    BY <2>1, <2>2, <2>3
<1>9. \A d \in CPU : pc'[d] = "add_pkts" => loc'[d].cp < set.pkts
  <2>1. \A d \in CPU : pc[d] = "add_pkts" => loc[d].cp < set.pkts
    BY DEF RInv
  <2>2. ASSUME pc'[c] = "add_pkts" PROVE loc'[c].cp < set.pkts
    <3>1. Within(c, loc'[c]) /\ loc'[c] \in [cp : Nat, cb : Nat, pp : Nat, pb : Nat]
      <4>1. loc' \in [CPU -> [cp : Nat, cb : Nat, pp : Nat, pb : Nat]]
        BY <1>1, <1>3 DEF TypeOK
      <4> QED
        BY <1>1, <2>2, <4>1 DEF TestCurr, ZeroBytes, ReadCurrBytes, TestPrev, ReadPrevPkts,
              ReadPrevBytes, AddBytes, Drop, Judge, Goto, TypeOK
    <3> QED
      BY <1>1, <3>1, Passed
  <2> QED
    BY <1>2, <2>1, <2>2
<1> QED
  BY <1>1, <1>2, <1>4, <1>5, <1>8, <1>9, QuietR

LEMMA OutsideR ==
    ASSUME RInv, Tick \/ UNCHANGED vars \/ \E c \in CPU, sz \in set.sizes : Receive(c, sz)
    PROVE  RInv'
<1>1. BInv /\ TypeOK /\ BInv'
  <2>1. BInv
    BY DEF RInv
  <2> QED
    BY <2>1, NextB DEF BInv, Next
<1>2. UNCHANGED <<set, slot, log>>
  BY DEF Tick, vars, Receive
<1>3. CPU' = CPU /\ Win' = Win /\ W' = W
  BY <1>2, Frame
<1>4. \A w, f : Thru(w, f)' = Thru(w, f)
  BY <1>2, LogSame
<1>5. \A w \in Win : Open(w)' => Open(w)
  <2> TAKE w \in Win
  <2>1. now \in Int /\ now' \in Int /\ now <= now'
    BY <1>1, TypeFacts DEF Tick, vars, Receive
  <2>2. w * W + W - 1 + MaxLag \in Int
    BY <1>1, TypeFacts
  <2> QED
    BY <1>3, <2>1, <2>2 DEF Open
<1>6. \A w : Wipers(w)' = Wipers(w) /\ Joining(w)' = Joining(w)
  <2>1. CASE Tick \/ UNCHANGED vars
    <3>1. UNCHANGED <<set, pc, pkt, loc>>
      BY <2>1 DEF Tick, vars
    <3>2. \A d \in CPU : window_idx(d)' = window_idx(d)
      BY <3>1, Frame
    <3> QED
      BY <1>3, <3>1, <3>2 DEF Wipers, Joining
  <2>2. ASSUME NEW c \in CPU, NEW sz \in set.sizes, Receive(c, sz)
        PROVE  \A w : Wipers(w)' = Wipers(w) /\ Joining(w)' = Joining(w)
    <3>1. /\ pc[c] = "idle" /\ pc'[c] = "test"
          /\ \A d \in CPU : d # c => pc'[d] = pc[d] /\ pkt'[d] = pkt[d] /\ loc'[d] = loc[d]
      BY <1>1, <2>2 DEF Receive, Goto, TypeOK
    <3>2. \A d \in CPU : d # c => window_idx(d)' = window_idx(d)
      BY <1>2, <3>1, Frame
    <3>3. \A w : c \notin Wipers(w) /\ c \notin Wipers(w)' /\ c \notin Joining(w) /\ c \notin Joining(w)'
      BY <3>1 DEF Wipers, Joining
    <3>4. ASSUME NEW w, NEW d \in CPU, d # c
          PROVE  (d \in Wipers(w)' <=> d \in Wipers(w)) /\ (d \in Joining(w)' <=> d \in Joining(w))
      BY <1>2, <1>3, <3>1, <3>2, <3>4 DEF Wipers, Joining
    <3>5. \A w : /\ Wipers(w) \subseteq CPU /\ Joining(w) \subseteq CPU
                 /\ Wipers(w)' \subseteq CPU /\ Joining(w)' \subseteq CPU
      BY <1>3 DEF Wipers, Joining
    <3> QED
      BY <3>3, <3>4, <3>5
  <2> QED
    BY <2>1, <2>2
<1>7. \A d \in CPU : pc'[d] = "add_pkts" => loc'[d].cp < set.pkts
  <2>1. \A d \in CPU : pc[d] = "add_pkts" => loc[d].cp < set.pkts
    BY DEF RInv
  <2>2. \A d \in CPU : pc'[d] = "add_pkts" => pc[d] = "add_pkts" /\ loc'[d] = loc[d]
    BY <1>1 DEF Tick, vars, Receive, Goto, TypeOK
  <2> QED
    BY <2>1, <2>2
<1> QED
  BY <1>1, <1>2, <1>4, <1>5, <1>6, <1>7, QuietR

(* What the steps on the packet counter have in common *)
LEMMA CountSteps ==
    ASSUME RInv, NEW c \in CPU, ZeroPkts(c) \/ SetIdx(c) \/ ReadCurrPkts(c) \/ AddPkts(c)
    PROVE  /\ BInv /\ TypeOK /\ Clocked /\ Fresh /\ Own(c) /\ Recycled(c) /\ BInv'
           /\ UNCHANGED <<set, now, pkt>>
           /\ \A d \in CPU : d # c => pc'[d] = pc[d] /\ loc'[d] = loc[d]
           /\ CPU' = CPU /\ Win' = Win /\ W' = W /\ N' = N /\ window_idx(c)' = window_idx(c)
           /\ window_idx(c) \in Win /\ Curr(c) \in 0..1 /\ pc[c] # "idle"
           /\ \A w \in Win : w \in Nat /\ w % 2 \in 0..1 /\ Open(w)' = Open(w)
<1>1. BInv /\ TypeOK /\ Clocked /\ Fresh /\ Own(c) /\ Recycled(c) /\ BInv'
  <2>1. BInv /\ Step(c)
    BY DEF RInv, Step
  <2> QED
    BY <2>1, NextB DEF BInv, Next
<1>2. /\ UNCHANGED <<set, now, pkt>> /\ pc[c] # "idle"
      /\ \A d \in CPU : d # c => pc'[d] = pc[d] /\ loc'[d] = loc[d]
  BY <1>1 DEF ZeroPkts, SetIdx, ReadCurrPkts, AddPkts, Goto, TypeOK
<1>3. /\ CPU' = CPU /\ Win' = Win /\ W' = W /\ N' = N /\ window_idx(c)' = window_idx(c)
      /\ window_idx(c) \in Win /\ Curr(c) \in 0..1
  BY <1>1, <1>2, Frame, TypeFacts
<1>4. \A w \in Win : w \in Nat /\ w % 2 \in 0..1 /\ Open(w)' = Open(w)
  <2>1. \A w \in Win : w \in Nat /\ w % 2 \in 0..1
    BY <1>1, TypeFacts, Parity
  <2> QED
    BY <1>2, <1>3, <2>1 DEF Open
<1> QED
  BY <1>1, <1>2, <1>3, <1>4

LEMMA ZeroPktsR ==
    ASSUME RInv, NEW c \in CPU, ZeroPkts(c)
    PROVE  RInv'
<1>1. /\ BInv /\ TypeOK /\ Clocked /\ BInv' /\ UNCHANGED <<set, now, pkt>>
      /\ \A d \in CPU : d # c => pc'[d] = pc[d] /\ loc'[d] = loc[d]
      /\ CPU' = CPU /\ Win' = Win /\ W' = W /\ N' = N /\ window_idx(c)' = window_idx(c)
      /\ window_idx(c) \in Win /\ Curr(c) \in 0..1 /\ pc[c] # "idle"
      /\ \A w \in Win : w \in Nat /\ w % 2 \in 0..1 /\ Open(w)' = Open(w)
  BY CountSteps
<1>2. log' = log /\ loc' = loc /\ pc[c] = "zero_pkts" /\ pc'[c] = "zero_bytes"
  BY <1>1 DEF ZeroPkts, Goto, TypeOK
<1>3. \A i \in 0..1 : /\ slot'[i].window_idx = slot[i].window_idx
                      /\ slot'[i].pkts = IF i = Curr(c) THEN 0 ELSE slot[i].pkts
  BY <1>1 DEF ZeroPkts, TypeOK
<1>4. \A w, f : Thru(w, f)' = Thru(w, f)
  BY <1>1, <1>2, LogSame
<1>5. ASSUME NEW w \in Win, Open(w)', slot'[w % 2].window_idx = w PROVE RacedAt(w)'
  <2>1. Open(w) /\ slot[w % 2].window_idx = w /\ RacedAt(w)
    BY <1>1, <1>3, <1>5 DEF RInv, Raced
  <2>2. CASE w # window_idx(c)
    <3>1. w % 2 # Curr(c)
      <4>1. w \in Int /\ w <= now \div W
        BY <1>1, <2>1, TypeFacts DEF Clocked
      <4> QED
        BY <1>1, <2>1, <2>2, <4>1, Closed
    <3>2. slot'[w % 2].pkts = slot[w % 2].pkts
      BY <1>1, <1>3, <3>1
    <3>3. Wipers(w)' = Wipers(w) /\ Joining(w)' = Joining(w)
      BY <1>1, <2>2, RaceFrame
    <3> QED
      BY <1>1, <1>4, <2>1, <3>2, <3>3, RacedKept
  <2>3. CASE w = window_idx(c)
    <3>1. c \in Wipers(w) /\ c \notin Wipers(w)' /\ c \notin Joining(w) /\ c \notin Joining(w)'
      BY <1>2, <2>3 DEF Wipers, Joining
    <3>2. Wipers(w)' = Wipers(w) \ {c} /\ Joining(w)' = Joining(w)
      <4>1. Wipers(w)' \ {c} = Wipers(w) \ {c} /\ Joining(w)' \ {c} = Joining(w) \ {c}
        BY <1>1, RaceFrame
      <4> QED
        BY <3>1, <4>1
    <3>3. PICK k \in Nat, j \in Nat, n \in Nat, P \in Nat, s \in Nat, h \in Nat :
            /\ k = Cardinality(Wipers(w)) /\ j = Cardinality(Joining(w)) /\ n = N /\ P = set.pkts
            /\ s = slot[w % 2].pkts /\ h = Thru(w, "pkts") /\ k + j <= n /\ k <= n - 1
      <4>1. slot[w % 2].pkts \in Nat /\ Thru(w, "pkts") \in Nat
        BY <1>1, TypeFacts, ThruNat DEF Field
      <4> QED
        BY <1>1, <2>1, <4>1, RaceFacts DEF RacedAt
    <3>4. Cardinality(Wipers(w) \ {c}) = k - 1 /\ k - 1 \in Nat
      <4>1. Cardinality(Wipers(w) \ {c}) = k - 1 /\ Cardinality(Wipers(w) \ {c}) \in Nat
        <5>1. IsFiniteSet(Wipers(w)) /\ IsFiniteSet(Wipers(w) \ {c})
          BY <1>1, RaceFacts, FS_Subset
        <5> QED
          BY <3>1, <3>3, <5>1, FS_RemoveElement, FS_CardinalityType
      <4> QED
        BY <4>1
    <3>5. s + j + k + 1 <= P + n /\ h <= s + Hidden(P, n - 1 - k)
      BY <2>1, <3>3 DEF RacedAt
    <3>6. PICK m \in Nat : m = n - 1 - k /\ m + 1 = n - 1 - (k - 1)
      BY <3>3
    <3>7. Hidden(P, m) \in Nat /\ Hidden(P, m + 1) = Hidden(P, m) + P + m
      BY Triangle
    <3>8. h <= 0 + Hidden(P, n - 1 - (k - 1))
      BY <3>3, <3>5, <3>6, <3>7
    <3>9. slot'[w % 2].pkts = 0
      BY <1>1, <1>3, <2>3 DEF Curr
    <3>10. /\ Cardinality(Wipers(w))' = k - 1 /\ Cardinality(Joining(w))' = j
           /\ N' = n /\ set'.pkts = P /\ Thru(w, "pkts")' = h
      BY <1>1, <1>4, <3>2, <3>3, <3>4
    <3>11. k - 1 <= n - 1 /\ 0 + j + (k - 1) + 1 <= P + n
      BY <3>3, <3>5
    <3> QED
      BY <3>8, <3>9, <3>10, <3>11 DEF RacedAt
  <2> QED
    BY <2>2, <2>3
<1>6. \A d \in CPU : pc'[d] = "add_pkts" => loc'[d].cp < set.pkts
  BY <1>1, <1>2 DEF RInv
<1>7. \A w \in Win : Thru(w, "pkts")' <= Hidden(set.pkts, N)
  BY <1>4 DEF RInv
<1> QED
  BY <1>1, <1>5, <1>6, <1>7 DEF RInv, Raced

LEMMA SetIdxR ==
    ASSUME RInv, NEW c \in CPU, SetIdx(c)
    PROVE  RInv'
<1>1. /\ BInv /\ TypeOK /\ Clocked /\ Fresh /\ Recycled(c) /\ BInv' /\ UNCHANGED <<set, now, pkt>>
      /\ \A d \in CPU : d # c => pc'[d] = pc[d] /\ loc'[d] = loc[d]
      /\ CPU' = CPU /\ Win' = Win /\ W' = W /\ N' = N /\ window_idx(c)' = window_idx(c)
      /\ window_idx(c) \in Win /\ Curr(c) \in 0..1 /\ pc[c] # "idle"
      /\ \A w \in Win : w \in Nat /\ w % 2 \in 0..1 /\ Open(w)' = Open(w)
  BY CountSteps
<1>2. log' = log /\ loc' = loc /\ pc[c] = "set_idx" /\ pc'[c] = "curr_pkts"
  BY <1>1 DEF SetIdx, Goto, TypeOK
<1>3. \A i \in 0..1 : /\ slot'[i].window_idx = IF i = Curr(c) THEN window_idx(c) ELSE slot[i].window_idx
                      /\ slot'[i].pkts = slot[i].pkts
  BY <1>1 DEF SetIdx, TypeOK
<1>4. \A w, f : Thru(w, f)' = Thru(w, f)
  BY <1>1, <1>2, LogSame
<1>5. \A w : Wipers(w)' = Wipers(w) /\ Joining(w)' = Joining(w)
  <2> TAKE w
  <2>1. c \notin Wipers(w) /\ c \notin Wipers(w)' /\ c \notin Joining(w) /\ c \notin Joining(w)'
    BY <1>2 DEF Wipers, Joining
  <2>2. Wipers(w)' \ {c} = Wipers(w) \ {c} /\ Joining(w)' \ {c} = Joining(w) \ {c}
    BY <1>1, RaceFrame
  <2> QED
    BY <2>1, <2>2
<1>6. ASSUME NEW w \in Win, Open(w)', slot'[w % 2].window_idx = w PROVE RacedAt(w)'
  <2>1. CASE slot[w % 2].window_idx = w
    <3>1. RacedAt(w) /\ slot'[w % 2].pkts = slot[w % 2].pkts
      BY <1>1, <1>3, <1>6, <2>1 DEF RInv, Raced
    <3> QED
      BY <1>1, <1>4, <1>5, <3>1, RacedKept
  <2>2. CASE slot[w % 2].window_idx # w
    <3>1. w = window_idx(c) /\ w % 2 = Curr(c)
      BY <1>1, <1>3, <1>6, <2>2
    <3>2. Thru(w, "pkts") = 0
      BY <1>1, <1>6, <2>2 DEF Fresh, Field
    <3>3. slot[w % 2].pkts = 0
      <4>1. slot[w % 2].pkts <= 0 /\ slot[w % 2].pkts \in Nat
        BY <1>1, <1>2, <3>1, <3>2, TypeFacts DEF Recycled
      <4> QED
        BY <4>1
    <3>4. Joining(w) = {}
      <4>1. ASSUME NEW d \in CPU, d \in Joining(w) PROVE FALSE
        <5>1. slot[Curr(d)].window_idx = window_idx(d) /\ window_idx(d) = w
          BY <1>1, <4>1 DEF Joining, BInv, Own
        <5> QED
          BY <2>2, <5>1 DEF Curr
      <4> QED
        BY <4>1 DEF Joining
    <3>5. Cardinality(Wipers(w)) <= N - 1 /\ Cardinality(Wipers(w)) \in Nat /\ N \in Nat \ {0}
          /\ set.pkts \in Nat
      <4>1. Wipers(w) \subseteq CPU \ {c} /\ IsFiniteSet(CPU) /\ N \in Nat \ {0} /\ set.pkts \in Nat
        BY <1>1, <1>2, TypeFacts DEF Wipers
      <4>2. Cardinality(CPU \ {c}) = N - 1 /\ IsFiniteSet(CPU \ {c})
        BY <4>1, FS_RemoveElement, FS_Subset DEF N
      <4>3. Cardinality(Wipers(w)) <= Cardinality(CPU \ {c})
        BY <4>1, <4>2, FS_Subset
      <4> QED
        BY <1>1, <4>1, <4>2, <4>3, RaceFacts
    <3>6. Cardinality(Joining(w)) = 0
      BY <3>4, FS_EmptySet
    <3>7. PICK m \in Nat : m = N - 1 - Cardinality(Wipers(w))
      BY <3>5
    <3>8. Hidden(set.pkts, m) \in Nat
      BY <3>5, Triangle
    <3>9. RacedAt(w)
      BY <3>2, <3>3, <3>5, <3>6, <3>7, <3>8 DEF RacedAt
    <3>10. slot'[w % 2].pkts = slot[w % 2].pkts
      BY <1>1, <1>3
    <3> QED
      BY <1>1, <1>4, <1>5, <3>9, <3>10, RacedKept
  <2> QED
    BY <2>1, <2>2
<1>7. \A d \in CPU : pc'[d] = "add_pkts" => loc'[d].cp < set.pkts
  BY <1>1, <1>2 DEF RInv
<1>8. \A w \in Win : Thru(w, "pkts")' <= Hidden(set.pkts, N)
  BY <1>4 DEF RInv
<1> QED
  BY <1>1, <1>6, <1>7, <1>8 DEF RInv, Raced

LEMMA ReadCurrPktsR ==
    ASSUME RInv, NEW c \in CPU, ReadCurrPkts(c)
    PROVE  RInv'
<1>1. /\ BInv /\ TypeOK /\ Own(c) /\ BInv' /\ UNCHANGED <<set, now, pkt>>
      /\ \A d \in CPU : d # c => pc'[d] = pc[d] /\ loc'[d] = loc[d]
      /\ CPU' = CPU /\ Win' = Win /\ W' = W /\ N' = N /\ window_idx(c)' = window_idx(c)
      /\ window_idx(c) \in Win /\ Curr(c) \in 0..1
      /\ \A w \in Win : w \in Nat /\ w % 2 \in 0..1 /\ Open(w)' = Open(w)
  BY CountSteps
<1>2. /\ log' = log /\ slot' = slot /\ pc[c] = "curr_pkts" /\ pc'[c] = "curr_bytes"
      /\ loc'[c].cp = slot[Curr(c)].pkts
  BY <1>1 DEF ReadCurrPkts, Goto, TypeOK
<1>3. \A w, f : Thru(w, f)' = Thru(w, f)
  BY <1>1, <1>2, LogSame
<1>4. \A w : Wipers(w)' = Wipers(w)
  <2> TAKE w
  <2>1. c \notin Wipers(w) /\ c \notin Wipers(w)'
    BY <1>2 DEF Wipers
  <2>2. Wipers(w)' \ {c} = Wipers(w) \ {c}
    BY <1>1, RaceFrame
  <2> QED
    BY <2>1, <2>2
<1>5. ASSUME NEW w \in Win, Open(w)', slot'[w % 2].window_idx = w PROVE RacedAt(w)'
  <2>1. RacedAt(w) /\ slot'[w % 2].pkts = slot[w % 2].pkts
    BY <1>1, <1>2, <1>5 DEF RInv, Raced
  <2>2. Joining(w)' \ {c} = Joining(w) \ {c} /\ c \notin Joining(w)
    BY <1>1, <1>2, RaceFrame DEF Joining
  <2>3. CASE c \notin Joining(w)'
    <3>1. Joining(w)' \subseteq Joining(w)
      BY <2>2, <2>3
    <3> QED
      BY <1>1, <1>3, <1>4, <2>1, <3>1, RacedKept
  <2>4. CASE c \in Joining(w)'
    <3>1. Joining(w)' = Joining(w) \cup {c}
      BY <2>2, <2>4
    <3>2. w = window_idx(c) /\ slot[w % 2].pkts < set.pkts
      BY <1>1, <1>2, <2>4 DEF Joining, Curr
    <3>3. PICK k \in Nat, j \in Nat, n \in Nat, P \in Nat, s \in Nat :
            /\ k = Cardinality(Wipers(w)) /\ j = Cardinality(Joining(w)) /\ n = N /\ P = set.pkts
            /\ s = slot[w % 2].pkts /\ s < P
      BY <1>1, <3>2, TypeFacts, RaceFacts
    <3>4. IsFiniteSet(Wipers(w)) /\ IsFiniteSet(Joining(w)) /\ IsFiniteSet(Joining(w) \cup {c})
          /\ Cardinality(Joining(w) \cup {c}) = j + 1
      BY <1>1, <2>2, <3>3, RaceFacts, FS_AddElement
    <3>5. k + (j + 1) <= n
      <4>1. Wipers(w) \cap (Joining(w) \cup {c}) = {} /\ Wipers(w) \cup (Joining(w) \cup {c}) \subseteq CPU
        BY <1>2 DEF Wipers, Joining
      <4>2. Cardinality(Wipers(w) \cup (Joining(w) \cup {c})) =
              k + (j + 1) - Cardinality(Wipers(w) \cap (Joining(w) \cup {c}))
        BY <3>3, <3>4, FS_Union
      <4>3. Cardinality(Wipers(w) \cap (Joining(w) \cup {c})) = 0
        BY <4>1, FS_EmptySet
      <4>4. Cardinality(Wipers(w) \cup (Joining(w) \cup {c})) <= n
        BY <1>1, <3>3, <4>1, TypeFacts, FS_Subset DEF N
      <4> QED
        BY <3>3, <4>2, <4>3, <4>4
    <3>6. s + (j + 1) + k + 1 <= P + n
      BY <3>3, <3>5
    <3>7. /\ Cardinality(Wipers(w))' = k /\ Cardinality(Joining(w))' = j + 1
          /\ N' = n /\ set'.pkts = P /\ slot'[w % 2].pkts = s /\ Thru(w, "pkts")' = Thru(w, "pkts")
      BY <1>1, <1>2, <1>3, <1>4, <3>1, <3>3, <3>4
    <3>8. k <= n - 1 /\ Thru(w, "pkts") <= s + Hidden(P, n - 1 - k)
      BY <2>1, <3>3 DEF RacedAt
    <3> QED
      BY <3>6, <3>7, <3>8 DEF RacedAt
  <2> QED
    BY <2>3, <2>4
<1>6. \A d \in CPU : pc'[d] = "add_pkts" => loc'[d].cp < set.pkts
  BY <1>1, <1>2 DEF RInv
<1>7. \A w \in Win : Thru(w, "pkts")' <= Hidden(set.pkts, N)
  BY <1>3 DEF RInv
<1> QED
  BY <1>1, <1>5, <1>6, <1>7 DEF RInv, Raced

(* The window of a packet in flight is open. *)
LEMMA OwnOpen ==
    ASSUME TypeOK, Clocked, NEW c \in CPU, pc[c] # "idle"
    PROVE  Open(window_idx(c))
<1>1. /\ W \in Nat \ {0} /\ MaxLag \in Nat /\ now \in Nat /\ pkt[c].ts \in Nat
      /\ now - pkt[c].ts <= MaxLag
  BY TypeFacts DEF Clocked
<1>2. PICK q \in Nat : q = window_idx(c) /\ pkt[c].ts < W * q + W
  BY <1>1, DivFacts DEF window_idx
<1>3. W * q = q * W /\ W * q \in Nat
  BY <1>1
<1> QED
  BY <1>1, <1>2, <1>3 DEF Open

LEMMA AddPktsR ==
    ASSUME RInv, NEW c \in CPU, AddPkts(c)
    PROVE  RInv'
<1>1. /\ BInv /\ TypeOK /\ Clocked /\ Own(c) /\ BInv' /\ UNCHANGED <<set, now, pkt>>
      /\ \A d \in CPU : d # c => pc'[d] = pc[d] /\ loc'[d] = loc[d]
      /\ CPU' = CPU /\ Win' = Win /\ W' = W /\ N' = N /\ window_idx(c)' = window_idx(c)
      /\ window_idx(c) \in Win /\ Curr(c) \in 0..1 /\ pc[c] # "idle"
      /\ \A w \in Win : w \in Nat /\ w % 2 \in 0..1 /\ Open(w)' = Open(w)
  BY CountSteps
<1>2. loc' = loc /\ pc[c] = "add_pkts" /\ pc'[c] = "add_bytes"
  BY <1>1 DEF AddPkts, Goto, TypeOK
<1>3. /\ \A i \in 0..1 : /\ slot'[i].window_idx = slot[i].window_idx
                         /\ slot'[i].pkts = slot[i].pkts + (IF i = Curr(c) THEN 1 ELSE 0)
      /\ \A w \in Win : Thru(w, "pkts")' = Thru(w, "pkts") + (IF w = window_idx(c) THEN 1 ELSE 0)
  <2>1. /\ \A i \in 0..1 : slot'[i].window_idx = slot[i].window_idx
        /\ \E g \in Field, n \in Nat :
             /\ \/ g = "pkts" /\ n = 1 /\ pc[c] = "add_pkts" /\ pc'[c] = "add_bytes"
                \/ g = "bytes" /\ n = pkt[c].sz /\ pc[c] = "add_bytes" /\ pc'[c] = "idle"
             /\ \A i \in 0..1, f \in Field :
                  slot'[i][f] = slot[i][f] + (IF i = Curr(c) /\ f = g THEN n ELSE 0)
             /\ \A w \in Int, f \in Field :
                  Thru(w, f)' = Thru(w, f) + (IF w = window_idx(c) /\ f = g THEN n ELSE 0)
    BY <1>1, Adds
  <2>2. PICK g \in Field, n \in Nat :
             /\ g = "pkts" /\ n = 1
             /\ \A i \in 0..1, f \in Field :
                  slot'[i][f] = slot[i][f] + (IF i = Curr(c) /\ f = g THEN n ELSE 0)
             /\ \A w \in Int, f \in Field :
                  Thru(w, f)' = Thru(w, f) + (IF w = window_idx(c) /\ f = g THEN n ELSE 0)
    BY <1>2, <2>1
  <2> QED
    BY <1>1, <2>1, <2>2 DEF Field
<1>4. \A w \in Win : Thru(w, "pkts") \in Nat /\ slot[w % 2].pkts \in Nat
  BY <1>1, TypeFacts, ThruNat DEF Field
<1>5. \A w : Wipers(w)' = Wipers(w)
  <2> TAKE w
  <2>1. c \notin Wipers(w) /\ c \notin Wipers(w)'
    BY <1>2 DEF Wipers
  <2>2. Wipers(w)' \ {c} = Wipers(w) \ {c}
    BY <1>1, RaceFrame
  <2> QED
    BY <2>1, <2>2
<1> DEFINE v == window_idx(c)
<1>6. v \in Win /\ v % 2 = Curr(c) /\ slot[v % 2].window_idx = v /\ RacedAt(v) /\ Open(v)
  <2>1. v % 2 = Curr(c) /\ slot[v % 2].window_idx = v
    BY <1>1, <1>2 DEF Own, Curr
  <2>2. Open(v)
    BY <1>1, OwnOpen
  <2> QED
    BY <1>1, <2>1, <2>2 DEF RInv, Raced
<1>7. Joining(v)' = Joining(v) \ {c} /\ c \in Joining(v)
  <2>1. Joining(v)' \ {c} = Joining(v) \ {c}
    <3>1. PICK x : x = v /\ x = v'
      BY <1>1
    <3>2. Joining(x)' \ {c} = Joining(x) \ {c}
      BY <1>1, RaceFrame
    <3> QED
      BY <3>1, <3>2
  <2>2. c \in Joining(v) /\ c \notin Joining(v)'
    BY <1>2 DEF RInv, Joining
  <2> QED
    BY <2>1, <2>2
<1> HIDE DEF v
<1>8. PICK k \in Nat, j \in Nat, n \in Nat, P \in Nat, s \in Nat, h \in Nat, x \in Win :
        /\ k = Cardinality(Wipers(x)) /\ j = Cardinality(Joining(x)) /\ n = N /\ P = set.pkts
        /\ s = slot[x % 2].pkts /\ h = Thru(x, "pkts") /\ k <= n - 1 /\ x = v /\ x = v'
        /\ s + j + k + 1 <= P + n /\ h <= s + Hidden(P, n - 1 - k)
  <2>1. v' = v
    BY <1>1 DEF v
  <2> QED
    BY <1>1, <1>4, <1>6, <2>1, RaceFacts DEF RacedAt
<1>9. /\ slot'[x % 2].pkts = s + 1 /\ Thru(x, "pkts")' = h + 1
      /\ Cardinality(Joining(x))' = j - 1 /\ j - 1 \in Nat
  <2>1. slot'[x % 2].pkts = s + 1 /\ Thru(x, "pkts")' = h + 1
    BY <1>1, <1>3, <1>6, <1>8 DEF v
  <2>2. IsFiniteSet(Joining(x)) /\ IsFiniteSet(Joining(x) \ {c}) /\ c \in Joining(x) /\ Joining(x)' = Joining(x) \ {c}
    BY <1>1, <1>7, <1>8, RaceFacts, FS_Subset
  <2>3. Cardinality(Joining(x) \ {c}) = j - 1 /\ Cardinality(Joining(x) \ {c}) \in Nat
    BY <1>8, <2>2, FS_RemoveElement, FS_CardinalityType
  <2> QED
    BY <2>1, <2>2, <2>3
<1>10. ASSUME NEW w \in Win, Open(w)', slot'[w % 2].window_idx = w PROVE RacedAt(w)'
  <2>1. Open(w) /\ slot[w % 2].window_idx = w /\ RacedAt(w)
    BY <1>1, <1>3, <1>10 DEF RInv, Raced
  <2>2. CASE w # x
    <3>1. w % 2 # Curr(c)
      BY <1>6, <1>8, <2>1, <2>2
    <3>2. slot'[w % 2].pkts = slot[w % 2].pkts /\ Thru(w, "pkts")' = Thru(w, "pkts")
      BY <1>1, <1>3, <1>4, <1>8, <2>2, <3>1 DEF v
    <3>3. Wipers(w)' = Wipers(w) /\ Joining(w)' = Joining(w)
      BY <1>1, <1>8, <2>2, RaceFrame DEF v
    <3> QED
      BY <1>1, <2>1, <3>2, <3>3, RacedKept
  <2>3. CASE w = x
    <3>1. (s + 1) + (j - 1) + k + 1 <= P + n /\ h + 1 <= (s + 1) + Hidden(P, n - 1 - k)
      <4>1. PICK m \in Nat : m = n - 1 - k
        BY <1>8
      <4>2. Hidden(P, m) \in Nat
        BY Triangle
      <4> QED
        BY <1>8, <1>9, <4>1, <4>2
    <3>2. Cardinality(Wipers(x))' = k /\ N' = n /\ set'.pkts = P
      BY <1>1, <1>5, <1>8
    <3> QED
      BY <1>8, <1>9, <2>3, <3>1, <3>2 DEF RacedAt
  <2> QED
    BY <2>2, <2>3
<1>11. \A d \in CPU : pc'[d] = "add_pkts" => loc'[d].cp < set.pkts
  BY <1>1, <1>2 DEF RInv
<1>12. ASSUME NEW w \in Win PROVE Thru(w, "pkts")' <= Hidden(set.pkts, N)
  <2>1. CASE w # x
    BY <1>3, <1>4, <1>8, <2>1 DEF RInv, v
  <2>2. CASE w = x
    <3>1. PICK m \in Nat : m = n - 1 - k /\ m + 1 <= n
      BY <1>8
    <3>2. Hidden(P, m) \in Nat /\ Hidden(P, m + 1) = Hidden(P, m) + P + m /\ Hidden(P, n) \in Nat
      BY Triangle
    <3>3. Hidden(P, m + 1) <= Hidden(P, n)
      BY <3>1, TriangleMono
    <3>4. h + 1 <= Hidden(P, m) + P + m
      BY <1>8, <1>9, <3>1, <3>2
    <3> QED
      BY <1>8, <1>9, <2>2, <3>2, <3>3, <3>4
  <2> QED
    BY <2>1, <2>2
<1> QED
  BY <1>1, <1>10, <1>11, <1>12 DEF RInv, Raced

LEMMA NextR == RInv /\ [Next]_vars => RInv'
<1> SUFFICES ASSUME RInv, [Next]_vars PROVE RInv'
  OBVIOUS
<1>1. ASSUME NEW c \in CPU, Step(c) PROVE RInv'
  BY <1>1, StepsR, ZeroPktsR, SetIdxR, ReadCurrPktsR, AddPktsR DEF Step
<1> QED
  BY <1>1, OutsideR DEF Next

(* "Such errors are bounded": N CPUs that race through xfw_is_within_rlimit  *)
(* let at most N limits and N(N-1)/2 packets through in one window.        *)
THEOREM RacesAreBounded == Spec => []RaceBound
<1>1. RInv => RaceBound
  <2> SUFFICES ASSUME RInv, NEW w \in 0..(now \div W)
               PROVE  Through(w * W, w * W + W - 1, "pkts") <= N * set.pkts + (N * (N - 1)) \div 2
    BY DEF RaceBound
  <2>1. TypeOK
    BY DEF RInv, BInv
  <2>2. w \in Win
    BY <2>1, TypeFacts DEF Win
  <2> QED
    BY <2>2 DEF RInv, Thru, Hidden
<1> QED
  BY <1>1, InitR, NextR, PTL DEF Spec

-----------------------------------------------------------------------------
(* One CPU: the limits hold *)
LEMMA CurrCount ==
    ASSUME TypeOK, NEW c \in CPU, Ledger(c), NEW f \in Field
    PROVE  /\ Thru(window_idx(c), f) = IF Stale(c) THEN 0 ELSE slot[Curr(c)][f]
           /\ Thru(window_idx(c) - 1, f) = IF PrevFilled(c) THEN slot[Prev(c)][f] ELSE 0
<1>1. PICK v \in Nat : v = window_idx(c)
  BY TypeFacts
<1>2. Thru(v, f) = IF Stale(c) THEN 0 ELSE slot[Curr(c)][f]
  <2>1. v \in {window_idx(c) - 1, window_idx(c)} \cap Nat
    BY <1>1
  <2>2. Thru(v, f) = IF slot[v % 2].window_idx = v THEN slot[v % 2][f] ELSE 0
    BY <2>1 DEF Ledger
  <2> QED
    BY <1>1, <2>2 DEF Stale, Curr
<1>3. CASE v = 0
  <2>1. ~PrevFilled(c)
    BY <1>1, <1>3 DEF PrevFilled
  <2>2. v - 1 \in Int /\ v - 1 = -1
    BY <1>3
  <2>3. Times(v - 1) = {}
    <3>1. ASSUME NEW t \in Times(v - 1) PROVE FALSE
      <4>1. t \in Jiff /\ t \div W = v - 1
        BY <2>2, TimesFacts
      <4>2. t \div W \in Nat
        <5>1. t \in Nat /\ W \in Nat \ {0}
          BY <4>1, TypeFacts DEF Jiff
        <5> QED
          BY <5>1, DivFacts
      <4> QED
        BY <2>2, <4>1, <4>2
    <3> QED
      BY <3>1
  <2>4. Thru(v - 1, f) = 0
    BY <2>3, ThruSum, SumZero
  <2> QED
    BY <1>1, <1>2, <2>1, <2>4
<1>4. CASE v # 0
  <2>1. v - 1 \in {window_idx(c) - 1, window_idx(c)} \cap Nat
    BY <1>1, <1>4
  <2>2. Thru(v - 1, f) = IF slot[(v - 1) % 2].window_idx = v - 1 THEN slot[(v - 1) % 2][f] ELSE 0
    BY <2>1 DEF Ledger
  <2>3. (v - 1) % 2 = (v + 1) % 2
    OBVIOUS
  <2> QED
    BY <1>1, <1>2, <1>4, <2>2, <2>3 DEF PrevFilled, Prev
<1> QED
  BY <1>3, <1>4

LEMMA LedgerKept ==
    ASSUME NEW c \in CPU, Ledger(c), UNCHANGED <<set, slot, pkt, log>>
    PROVE  Ledger(c)'
<1>1. \A w, f : Thru(w, f)' = Thru(w, f)
  BY LogSame
<1>2. /\ CPU' = CPU /\ W' = W /\ Jiff' = Jiff /\ Win' = Win
      /\ window_idx(c)' = window_idx(c) /\ overlap(c)' = overlap(c)
  BY Frame
<1>3. \A f : Effective(Thru(window_idx(c), f), Thru(window_idx(c) - 1, f), c)' =
             Effective(Thru(window_idx(c), f), Thru(window_idx(c) - 1, f), c)
  BY <1>1, <1>2 DEF Effective
<1> QED
  BY <1>1, <1>2, <1>3 DEF Ledger

LEMMA ReadsX ==
    ASSUME BInv, NEW c \in CPU, Ledger(c), Observed(c),
           \/ TestCurr(c) \/ ReadCurrPkts(c) \/ ReadCurrBytes(c)
           \/ TestPrev(c) \/ ReadPrevPkts(c) \/ ReadPrevBytes(c) \/ Drop(c)
    PROVE  Ledger(c)' /\ Observed(c)'
<1>1. TypeOK /\ Own(c)
  BY DEF BInv
<1>2. UNCHANGED <<set, slot, pkt, log, now>>
  BY DEF TestCurr, ReadCurrPkts, ReadCurrBytes, TestPrev, ReadPrevPkts, ReadPrevBytes, Drop
<1>3. Ledger(c)'
  BY <1>2, LedgerKept
<1>4. \A w, f : Thru(w, f)' = Thru(w, f)
  BY <1>2, LogSame
<1>5. /\ W' = W /\ window_idx(c)' = window_idx(c) /\ overlap(c)' = overlap(c)
      /\ Curr(c)' = Curr(c) /\ Prev(c)' = Prev(c)
  BY <1>2, Frame
<1>6. Stale(c)' = Stale(c) /\ PrevFilled(c)' = PrevFilled(c)
  BY <1>2, <1>5 DEF Stale, PrevFilled
<1>7. /\ loc[c] \in [cp : Nat, cb : Nat, pp : Nat, pb : Nat]
      /\ loc \in [CPU -> [cp : Nat, cb : Nat, pp : Nat, pb : Nat]]
      /\ pc \in [CPU -> {"idle", "test", "zero_pkts", "zero_bytes", "set_idx", "curr_pkts",
                         "curr_bytes", "test_prev", "prev_pkts", "prev_bytes",
                         "add_pkts", "add_bytes", "drop"}]
  BY <1>1 DEF TypeOK
<1>8. /\ Thru(window_idx(c), "pkts") = IF Stale(c) THEN 0 ELSE slot[Curr(c)].pkts
      /\ Thru(window_idx(c), "bytes") = IF Stale(c) THEN 0 ELSE slot[Curr(c)].bytes
      /\ Thru(window_idx(c) - 1, "pkts") = IF PrevFilled(c) THEN slot[Prev(c)].pkts ELSE 0
      /\ Thru(window_idx(c) - 1, "bytes") = IF PrevFilled(c) THEN slot[Prev(c)].bytes ELSE 0
  BY <1>1, CurrCount DEF Field
<1>9. CASE TestCurr(c)
  <2>1. pc[c] = "test" /\ pc'[c] = (IF Stale(c) THEN "zero_pkts" ELSE "curr_pkts") /\ loc'[c] = loc[c]
    BY <1>7, <1>9 DEF TestCurr, Goto
  <2> QED
    BY <1>3, <1>6, <2>1 DEF Observed
<1>10. CASE ReadCurrPkts(c)
  <2>1. /\ pc[c] = "curr_pkts" /\ pc'[c] = "curr_bytes" /\ loc'[c].cp = slot[Curr(c)].pkts
        /\ loc'[c].pp = loc[c].pp /\ loc'[c].pb = loc[c].pb
    BY <1>7, <1>10 DEF ReadCurrPkts, Goto
  <2>2. ~Stale(c)
    BY <1>1, <2>1 DEF Own, Stale
  <2> QED
    BY <1>3, <1>4, <1>5, <1>8, <2>1, <2>2 DEF Observed
<1>11. CASE ReadCurrBytes(c)
  <2>1. /\ pc[c] = "curr_bytes" /\ pc'[c] = "test_prev" /\ loc'[c].cb = slot[Curr(c)].bytes
        /\ loc'[c].cp = loc[c].cp /\ loc'[c].pp = loc[c].pp /\ loc'[c].pb = loc[c].pb
    BY <1>7, <1>11 DEF ReadCurrBytes, Goto
  <2>2. ~Stale(c)
    BY <1>1, <2>1 DEF Own, Stale
  <2> QED
    BY <1>3, <1>4, <1>5, <1>8, <2>1, <2>2 DEF Observed
<1>12. CASE ReadPrevPkts(c)
  <2>1. /\ pc[c] = "prev_pkts" /\ pc'[c] = "prev_bytes" /\ loc'[c].pp = slot[Prev(c)].pkts
        /\ loc'[c].cp = loc[c].cp /\ loc'[c].cb = loc[c].cb
    BY <1>7, <1>12 DEF ReadPrevPkts, Goto
  <2>2. PrevFilled(c)
    BY <2>1 DEF Observed
  <2> QED
    BY <1>3, <1>4, <1>5, <1>6, <1>8, <2>1, <2>2 DEF Observed
<1>13. CASE TestPrev(c) \/ ReadPrevBytes(c)
  <2>1. /\ \/ pc[c] = "test_prev" /\ PrevFilled(c) /\ pc'[c] = "prev_pkts" /\ loc'[c] = loc[c]
           \/ pc[c] = "test_prev" /\ ~PrevFilled(c) /\ loc'[c] = loc[c] /\ Judge(c, loc[c])
           \/ pc[c] = "prev_bytes" /\ Judge(c, loc'[c]) /\ loc'[c].pb = slot[Prev(c)].bytes
        /\ loc'[c].cp = loc[c].cp /\ loc'[c].cb = loc[c].cb /\ loc'[c].pp = loc[c].pp
    BY <1>7, <1>13 DEF TestPrev, ReadPrevBytes, Goto
  <2>2. Judge(c, loc'[c]) => \/ pc'[c] = "add_pkts" /\ Within(c, loc'[c])
                             \/ pc'[c] = "drop"
    BY <1>7 DEF Judge, Goto
  <2>3. CASE pc'[c] = "prev_pkts"
    <3>1. pc[c] = "test_prev" /\ PrevFilled(c)
      BY <2>1, <2>2, <2>3
    <3> QED
      BY <1>3, <1>4, <1>5, <1>6, <2>1, <2>3, <3>1 DEF Observed
  <2>4. CASE pc'[c] = "add_pkts"
    <3>1. /\ loc'[c].cp = Thru(window_idx(c), "pkts") /\ loc'[c].cb = Thru(window_idx(c), "bytes")
          /\ loc'[c].pp = Thru(window_idx(c) - 1, "pkts")
          /\ loc'[c].pb = Thru(window_idx(c) - 1, "bytes")
      BY <1>8, <2>1, <2>4 DEF Observed
    <3>2. Within(c, loc'[c])
      BY <2>1, <2>2, <2>4
    <3>3. /\ Effective(loc[c].cp, loc[c].pp, c)' = Effective(loc'[c].cp, loc'[c].pp, c)
          /\ Effective(loc[c].cb, loc[c].pb, c)' = Effective(loc'[c].cb, loc'[c].pb, c)
      BY <1>5 DEF Effective
    <3> QED
      BY <1>2, <1>3, <1>4, <1>5, <2>4, <3>1, <3>2, <3>3 DEF Observed, Within
  <2>5. CASE pc'[c] = "drop"
    BY <1>3, <2>5 DEF Observed
  <2> QED
    BY <2>1, <2>2, <2>3, <2>4, <2>5
<1>14. CASE Drop(c)
  <2>1. pc'[c] = "idle"
    BY <1>7, <1>14 DEF Drop, Goto
  <2> QED
    BY <1>3, <2>1 DEF Observed
<1> QED
  BY <1>9, <1>10, <1>11, <1>12, <1>13, <1>14

LEMMA ZeroX ==
    ASSUME BInv, NEW c \in CPU, Ledger(c), Observed(c), ZeroPkts(c) \/ ZeroBytes(c)
    PROVE  Ledger(c)' /\ Observed(c)'
<1>1. TypeOK
  BY DEF BInv
<1>2. /\ UNCHANGED <<set, pkt, log, loc>> /\ pc[c] \in {"zero_pkts", "zero_bytes"}
      /\ pc'[c] \in {"zero_bytes", "set_idx"}
  BY <1>1 DEF ZeroPkts, ZeroBytes, Goto, TypeOK
<1>3. \A i \in 0..1 : /\ slot'[i].window_idx = slot[i].window_idx
                      /\ i # Curr(c) => slot'[i] = slot[i]
  <2>1. Curr(c) \in 0..1
    BY <1>1, TypeFacts
  <2> QED
    BY <1>1, <2>1 DEF ZeroPkts, ZeroBytes, TypeOK
<1>4. \A w, f : Thru(w, f)' = Thru(w, f)
  BY <1>2, LogSame
<1>5. /\ W' = W /\ window_idx(c)' = window_idx(c) /\ overlap(c)' = overlap(c)
      /\ Curr(c)' = Curr(c) /\ Jiff' = Jiff /\ Win' = Win /\ Curr(c) \in 0..1
      /\ window_idx(c) \in Nat
  BY <1>1, <1>2, Frame, TypeFacts
<1>6. Stale(c) /\ Stale(c)'
  BY <1>2, <1>3, <1>5 DEF Observed, Stale
<1>7. Observed(c)'
  BY <1>2, <1>6 DEF Observed
<1>8. ASSUME NEW w \in {window_idx(c) - 1, window_idx(c)} \cap Nat, NEW f \in Field
      PROVE  Thru(w, f) = IF slot'[w % 2].window_idx = w THEN slot'[w % 2][f] ELSE 0
  <2>1. Thru(w, f) = IF slot[w % 2].window_idx = w THEN slot[w % 2][f] ELSE 0
    BY DEF Ledger
  <2>2. w % 2 \in 0..1 /\ slot'[w % 2].window_idx = slot[w % 2].window_idx
    BY <1>3, Parity
  <2>3. CASE w = window_idx(c)
    BY <1>6, <2>1, <2>2, <2>3 DEF Stale, Curr
  <2>4. CASE w # window_idx(c)
    <3>1. w % 2 # Curr(c)
      BY <1>5, <2>4, Parity DEF Curr
    <3> QED
      BY <1>3, <2>1, <2>2, <3>1
  <2> QED
    BY <2>3, <2>4
<1>9. \A f : Effective(Thru(window_idx(c), f), Thru(window_idx(c) - 1, f), c)' =
             Effective(Thru(window_idx(c), f), Thru(window_idx(c) - 1, f), c)
  BY <1>4, <1>5 DEF Effective
<1>10. Ledger(c)'
  BY <1>2, <1>3, <1>4, <1>5, <1>8, <1>9 DEF Ledger
<1> QED
  BY <1>7, <1>10

LEMMA SetIdxX ==
    ASSUME BInv, NEW c \in CPU, Ledger(c), Observed(c), SetIdx(c)
    PROVE  Ledger(c)' /\ Observed(c)'
<1>1. TypeOK /\ Recycled(c)
  BY DEF BInv
<1>2. UNCHANGED <<set, pkt, log, loc>> /\ pc[c] = "set_idx" /\ pc'[c] = "curr_pkts"
  BY <1>1 DEF SetIdx, Goto, TypeOK
<1>3. \A i \in 0..1 : /\ slot'[i].window_idx = IF i = Curr(c) THEN window_idx(c) ELSE slot[i].window_idx
                      /\ slot'[i].pkts = slot[i].pkts /\ slot'[i].bytes = slot[i].bytes
  <2>1. slot \in [0..1 -> [window_idx : Win, pkts : Nat, bytes : Nat]] /\ Curr(c) \in 0..1
    BY <1>1, TypeFacts DEF TypeOK, Win
  <2> QED
    BY <2>1 DEF SetIdx
<1>4. \A w, f : Thru(w, f)' = Thru(w, f)
  BY <1>2, LogSame
<1>5. /\ W' = W /\ window_idx(c)' = window_idx(c) /\ overlap(c)' = overlap(c)
      /\ Curr(c)' = Curr(c) /\ Jiff' = Jiff /\ Win' = Win /\ Curr(c) \in 0..1
      /\ window_idx(c) \in Nat
  BY <1>1, <1>2, Frame, TypeFacts
<1>6. Stale(c)
  BY <1>2 DEF Observed
<1>7. Observed(c)'
  BY <1>2 DEF Observed
<1>8. ASSUME NEW w \in {window_idx(c) - 1, window_idx(c)} \cap Nat, NEW f \in Field
      PROVE  Thru(w, f) = IF slot'[w % 2].window_idx = w THEN slot'[w % 2][f] ELSE 0
  <2>1. w % 2 \in 0..1 /\ slot'[w % 2][f] = slot[w % 2][f]
    BY <1>3, Parity DEF Field
  <2>2. CASE w = window_idx(c)
    <3>1. Thru(w, "pkts") = 0 /\ Thru(w, "bytes") = 0 /\ w % 2 = Curr(c)
      BY <1>1, <1>6, <2>2, CurrCount DEF Field, Curr
    <3>2. slot[Curr(c)].pkts = 0 /\ slot[Curr(c)].bytes = 0
      <4>1. slot[Curr(c)].pkts <= 0 /\ slot[Curr(c)].bytes <= 0
        BY <1>1, <1>2, <2>2, <3>1 DEF Recycled
      <4>2. slot[Curr(c)].pkts \in Nat /\ slot[Curr(c)].bytes \in Nat
        BY <1>1, TypeFacts
      <4> QED
        BY <4>1, <4>2
    <3> QED
      BY <1>3, <1>5, <2>1, <2>2, <3>1, <3>2 DEF Field
  <2>3. CASE w # window_idx(c)
    <3>1. w % 2 # Curr(c)
      BY <1>5, <2>3, Parity DEF Curr
    <3>2. Thru(w, f) = IF slot[w % 2].window_idx = w THEN slot[w % 2][f] ELSE 0
      BY DEF Ledger
    <3> QED
      BY <1>3, <2>1, <3>1, <3>2
  <2> QED
    BY <2>2, <2>3
<1>9. \A f : Effective(Thru(window_idx(c), f), Thru(window_idx(c) - 1, f), c)' =
             Effective(Thru(window_idx(c), f), Thru(window_idx(c) - 1, f), c)
  BY <1>4, <1>5 DEF Effective
<1>10. \A i \in 0..1 : slot'[i].window_idx <= window_idx(c)
  BY <1>3, <1>5 DEF Ledger
<1>11. Ledger(c)'
  BY <1>2, <1>4, <1>5, <1>8, <1>9, <1>10 DEF Ledger
<1> QED
  BY <1>7, <1>11

LEMMA AddX ==
    ASSUME BInv, NEW c \in CPU, Ledger(c), Observed(c), AddPkts(c) \/ AddBytes(c)
    PROVE  Ledger(c)' /\ Observed(c)'
<1>1. TypeOK /\ Own(c)
  BY DEF BInv
<1>2. /\ UNCHANGED <<set, now, pkt, loc>>
      /\ \A i \in 0..1 : slot'[i].window_idx = slot[i].window_idx
  BY Adds
<1>3. PICK g \in Field, n \in Nat :
        /\ \/ g = "pkts" /\ n = 1 /\ pc[c] = "add_pkts" /\ pc'[c] = "add_bytes"
           \/ g = "bytes" /\ n = pkt[c].sz /\ pc[c] = "add_bytes" /\ pc'[c] = "idle"
        /\ \A i \in 0..1, f \in Field :
             slot'[i][f] = slot[i][f] + (IF i = Curr(c) /\ f = g THEN n ELSE 0)
        /\ \A w \in Int, f \in Field :
             Thru(w, f)' = Thru(w, f) + (IF w = window_idx(c) /\ f = g THEN n ELSE 0)
        /\ \A t \in Jiff, f \in Field : (t # pkt[c].ts \/ f # g) => log'[t][f] = log[t][f]
  BY Adds
<1>4. /\ W' = W /\ window_idx(c)' = window_idx(c) /\ overlap(c)' = overlap(c)
      /\ Curr(c)' = Curr(c) /\ Jiff' = Jiff /\ Win' = Win /\ Curr(c) \in 0..1
      /\ overlap(c) \in 0..W /\ W \in Nat \ {0} /\ pkt[c].ts \in Nat /\ pkt[c].sz \in Nat
      /\ set.pkts \in Nat /\ set.bytes \in Nat /\ Win \subseteq Nat
  BY <1>1, <1>2, Frame, TypeFacts
<1>5. PICK v \in Nat : v = window_idx(c) /\ v = window_idx(c)' /\ v - 1 \in Int /\ v \in Win
  BY <1>1, <1>4, TypeFacts
<1>6. \A w \in Int, f \in Field : Thru(w, f) \in Nat
  BY <1>1, ThruNat
<1>7. slot[Curr(c)].window_idx = v /\ Curr(c) = v % 2
  BY <1>1, <1>3, <1>5 DEF Own, Curr
<1>8. PICK share \in Nat : /\ Effective(Thru(v, g), Thru(v - 1, g), c) = Thru(v, g) + share
                           /\ share = (Thru(v - 1, g) * overlap(c)) \div W
                           /\ Thru(v, g) + share + n <= set[g]
  <2>1. PICK share \in Nat : share = (Thru(v - 1, g) * overlap(c)) \div W
    BY <1>4, <1>5, <1>6, Share
  <2>2. Effective(Thru(v, g), Thru(v - 1, g), c) = Thru(v, g) + share
    BY <2>1 DEF Effective
  <2>3. CASE g = "pkts"
    <3>1. Effective(Thru(v, "pkts"), Thru(v - 1, "pkts"), c) < set.pkts /\ n = 1
      BY <1>3, <1>5, <2>3 DEF Observed
    <3>2. Thru(v, "pkts") \in Nat
      BY <1>6 DEF Field
    <3> QED
      BY <1>4, <2>1, <2>2, <2>3, <3>1, <3>2
  <2>4. CASE g = "bytes"
    <3>1. Effective(Thru(v, "bytes"), Thru(v - 1, "bytes"), c) <= set.bytes - pkt[c].sz
          /\ n = pkt[c].sz
      BY <1>3, <1>5, <2>4 DEF Observed
    <3>2. Thru(v, "bytes") \in Nat
      BY <1>6 DEF Field
    <3> QED
      BY <1>4, <2>1, <2>2, <2>4, <3>1, <3>2
  <2> QED
    BY <2>3, <2>4 DEF Field
<1>9. Observed(c)'
  <2>1. CASE g = "pkts"
    <3>1. /\ Thru(v, "bytes")' = Thru(v, "bytes") /\ Thru(v - 1, "bytes")' = Thru(v - 1, "bytes")
          /\ Thru(v - 1, "pkts")' = Thru(v - 1, "pkts")
      BY <1>3, <1>5, <1>6, <2>1 DEF Field
    <3>2. Effective(loc[c].cb, loc[c].pb, c)' = Effective(loc[c].cb, loc[c].pb, c)
      BY <1>2, <1>4 DEF Effective
    <3>3. pc[c] = "add_pkts" /\ pc'[c] = "add_bytes"
      BY <1>3, <2>1
    <3>4. /\ loc[c].cb = Thru(v, "bytes") /\ loc[c].pp = Thru(v - 1, "pkts")
          /\ loc[c].pb = Thru(v - 1, "bytes") /\ pkt[c].sz <= set.bytes
          /\ Effective(loc[c].cb, loc[c].pb, c) <= set.bytes - pkt[c].sz
      BY <1>5, <3>3 DEF Observed
    <3> QED
      BY <1>2, <1>5, <3>1, <3>2, <3>3, <3>4 DEF Observed
  <2>2. CASE g = "bytes"
    <3>1. pc'[c] = "idle"
      BY <1>3, <2>2
    <3> QED
      BY <3>1 DEF Observed
  <2> QED
    BY <2>1, <2>2 DEF Field
<1>10. \A t \in Jiff : t > pkt[c].ts => log'[t].pkts = 0 /\ log'[t].bytes = 0
  <2>1. \A t \in Jiff : t > pkt[c].ts => t # pkt[c].ts
    BY <1>4 DEF Jiff
  <2> QED
    BY <1>3, <2>1 DEF Ledger, Field
<1>11. \A i \in 0..1 : slot'[i].window_idx <= v
  BY <1>2, <1>5 DEF Ledger
<1>12. ASSUME NEW w \in {v - 1, v} \cap Nat, NEW f \in Field
       PROVE  Thru(w, f)' = IF slot'[w % 2].window_idx = w THEN slot'[w % 2][f] ELSE 0
  <2>1. Thru(w, f) = IF slot[w % 2].window_idx = w THEN slot[w % 2][f] ELSE 0
    BY <1>5 DEF Ledger
  <2>2. w % 2 \in 0..1 /\ slot'[w % 2].window_idx = slot[w % 2].window_idx /\ w \in Int
    BY <1>2, Parity
  <2>3. slot[w % 2][f] \in Nat /\ Thru(w, f) \in Nat
    BY <1>1, <1>6, <2>2, TypeFacts DEF Field
  <2>4. CASE w = v
    BY <1>3, <1>5, <1>7, <2>1, <2>2, <2>3, <2>4
  <2>5. CASE w # v
    <3>1. w % 2 # Curr(c)
      BY <1>5, <1>7, <2>5, Parity
    <3>2. slot'[w % 2][f] = slot[w % 2][f] /\ Thru(w, f)' = Thru(w, f)
      BY <1>3, <1>5, <2>2, <2>3, <2>5, <3>1
    <3> QED
      BY <2>1, <2>2, <3>2
  <2> QED
    BY <2>4, <2>5
<1>13. ASSUME NEW f \in Field
       PROVE  \/ Thru(v, f)' = 0
              \/ Effective(Thru(v, f), Thru(v - 1, f), c)' <= set[f]
  <2>1. Effective(Thru(v, f), Thru(v - 1, f), c)' =
          Thru(v, f)' + (Thru(v - 1, f)' * overlap(c)) \div W
    BY <1>4 DEF Effective
  <2>2. Thru(v - 1, f)' = Thru(v - 1, f)
    BY <1>3, <1>5, <1>6
  <2>3. CASE f = g
    <3>1. Thru(v, f)' = Thru(v, f) + n
      BY <1>3, <1>5, <2>3
    <3>2. Thru(v, g) \in Nat /\ set[g] \in Nat
      BY <1>4, <1>6 DEF Field
    <3> QED
      BY <1>8, <2>1, <2>2, <2>3, <3>1, <3>2
  <2>4. CASE f # g
    <3>1. Thru(v, f)' = Thru(v, f)
      BY <1>3, <1>5, <1>6, <2>4
    <3>2. Thru(v, f) = 0 \/ Effective(Thru(v, f), Thru(v - 1, f), c) <= set[f]
      BY <1>5 DEF Ledger
    <3>3. Effective(Thru(v, f), Thru(v - 1, f), c)' = Effective(Thru(v, f), Thru(v - 1, f), c)
      BY <2>1, <2>2, <3>1 DEF Effective
    <3> QED
      BY <3>1, <3>2, <3>3
  <2> QED
    BY <2>3, <2>4
<1>14. ASSUME NEW w \in Win, NEW f \in Field PROVE Thru(w, f)' <= set[f]
  <2>1. w \in Int /\ Thru(w, f) \in Nat /\ Thru(w, f) <= set[f]
    BY <1>4, <1>6 DEF Ledger
  <2>2. CASE w = v /\ f = g
    <3>1. Thru(w, f)' = Thru(w, f) + n
      BY <1>3, <1>5, <2>1, <2>2
    <3>2. set[g] \in Nat
      BY <1>4 DEF Field
    <3> QED
      BY <1>8, <2>1, <2>2, <3>1, <3>2
  <2>3. CASE ~(w = v /\ f = g)
    <3>1. Thru(w, f)' = Thru(w, f)
      BY <1>3, <1>5, <2>1, <2>3
    <3> QED
      BY <2>1, <3>1
  <2> QED
    BY <2>2, <2>3
<1>15. Ledger(c)'
  <2>1. \A f \in Field : Effective(Thru(window_idx(c), f), Thru(window_idx(c) - 1, f), c)' =
                         Effective(Thru(v, f), Thru(v - 1, f), c)'
    BY <1>5
  <2>2. \A f \in Field : Thru(window_idx(c), f)' = Thru(v, f)'
    BY <1>5
  <2> QED
    BY <1>2, <1>4, <1>5, <1>10, <1>11, <1>12, <1>13, <1>14, <2>1, <2>2 DEF Ledger
<1> QED
  BY <1>9, <1>15

(* Nothing was let through in a window after a packet's. *)
LEMMA LedgerFuture ==
    ASSUME TypeOK, NEW c \in CPU, Ledger(c), NEW w \in Int, w > window_idx(c), NEW f \in Field
    PROVE  Thru(w, f) = 0
<1>1. ASSUME NEW t \in Times(w) PROVE log[t][f] = 0
  <2>1. t \in Jiff /\ t \div W = w
    BY TimesFacts
  <2>2. t \in Nat /\ pkt[c].ts \in Nat /\ W \in Nat \ {0}
    BY <2>1, TypeFacts DEF Jiff
  <2>3. t > pkt[c].ts
    <3> SUFFICES ASSUME t <= pkt[c].ts PROVE FALSE
      BY <2>2
    <3>1. t \div W <= pkt[c].ts \div W /\ pkt[c].ts \div W \in Nat
      BY <2>2, DivMono, DivFacts
    <3> QED
      BY <2>1, <3>1 DEF window_idx
  <2> QED
    BY <2>1, <2>3 DEF Ledger, Field
<1> QED
  BY <1>1, ThruSum, SumZero

(* In one window the offset grows with the clock. *)
LEMMA Offsets ==
    ASSUME NEW x \in Nat, NEW y \in Nat, NEW b \in Nat \ {0}, x <= y, x \div b = y \div b
    PROVE  x % b \in Nat /\ y % b \in Nat /\ x % b <= y % b /\ y % b < b
<1>1. PICK q \in Nat : q = x \div b /\ q = y \div b
  BY DivFacts
<1>2. /\ x % b = x - b * q /\ y % b = y - b * q /\ y % b < b
      /\ x % b \in Nat /\ y % b \in Nat
  BY <1>1, DivFacts
<1> QED
  BY <1>2

LEMMA ReceiveX ==
    ASSUME BInv, NEW c \in CPU, NEW sz \in set.sizes, Receive(c, sz), Ledger(c)
    PROVE  Ledger(c)' /\ Observed(c)'
<1>1. TypeOK /\ Clocked
  BY DEF BInv
<1>2. /\ UNCHANGED <<set, slot, now, log>> /\ pc'[c] = "test" /\ pkt'[c].ts = now
      /\ loc'[c] = NoLocals
  BY <1>1 DEF Receive, Goto, TypeOK
<1>3. \A w, f : Thru(w, f)' = Thru(w, f)
  BY <1>2, LogSame
<1>4. CPU' = CPU /\ W' = W /\ Jiff' = Jiff /\ Win' = Win
  BY <1>2, Frame
<1>5. /\ W \in Nat \ {0} /\ now \in Nat /\ pkt[c].ts \in Nat /\ pkt[c].ts <= now
      /\ set.pkts \in Nat /\ set.bytes \in Nat
  BY <1>1, TypeFacts
<1>6. PICK u \in Nat, v \in Nat : /\ u = window_idx(c)' /\ u = now \div W /\ v = window_idx(c)
                                  /\ v = pkt[c].ts \div W /\ v <= u
  <2>1. window_idx(c)' = now \div W /\ window_idx(c) = pkt[c].ts \div W
    BY <1>2, <1>4 DEF window_idx
  <2>2. now \div W \in Nat /\ pkt[c].ts \div W \in Nat /\ pkt[c].ts \div W <= now \div W
    BY <1>5, DivFacts, DivMono
  <2> QED
    BY <2>1, <2>2
<1>7. overlap(c)' = W - (now % W) /\ overlap(c) = W - (pkt[c].ts % W)
  BY <1>2, <1>4 DEF overlap, offset
<1>8. Observed(c)'
  BY <1>2 DEF Observed, NoLocals
<1>9. \A t \in Jiff : t > now => log[t].pkts = 0 /\ log[t].bytes = 0
  BY <1>1 DEF Clocked
<1>10. \A i \in 0..1 : slot[i].window_idx <= u
  BY <1>1, <1>6 DEF Clocked
<1>11. ASSUME NEW w \in {u - 1, u} \cap Nat, NEW f \in Field
       PROVE  Thru(w, f) = IF slot[w % 2].window_idx = w THEN slot[w % 2][f] ELSE 0
  <2>1. CASE w <= v
    <3>1. w \in {v - 1, v} \cap Nat
      BY <1>6, <2>1
    <3> QED
      BY <1>6, <3>1 DEF Ledger
  <2>2. CASE w > v
    <3>1. Thru(w, f) = 0
      BY <1>1, <1>6, <2>2, w \in Int, LedgerFuture
    <3>2. slot[w % 2].window_idx <= v /\ slot[w % 2].window_idx \in Nat
      BY <1>1, <1>6, TypeFacts, Parity DEF Ledger
    <3> QED
      BY <2>2, <3>1, <3>2
  <2> QED
    BY <2>1, <2>2
<1>12. ASSUME NEW f \in Field
       PROVE  \/ Thru(u, f) = 0
              \/ Thru(u, f) + (Thru(u - 1, f) * (W - (now % W))) \div W <= set[f]
  <2>1. CASE u = v
    <3>1. \/ Thru(u, f) = 0
          \/ Thru(u, f) + (Thru(u - 1, f) * (W - (pkt[c].ts % W))) \div W <= set[f]
      BY <1>6, <1>7, <2>1 DEF Ledger, Effective
    <3>2. PICK p \in Nat, q \in Nat, x \in Nat, o \in Nat :
            /\ p = Thru(u - 1, f) /\ q = Thru(u, f) /\ x = W - (now % W) /\ o = W - (pkt[c].ts % W)
            /\ x <= o /\ o <= W
      <4>1. Thru(u - 1, f) \in Nat /\ Thru(u, f) \in Nat
        BY <1>1, u - 1 \in Int, u \in Int, ThruNat
      <4>2. /\ pkt[c].ts % W \in Nat /\ now % W \in Nat /\ pkt[c].ts % W <= now % W
            /\ now % W < W
        BY <1>5, <1>6, <2>1, Offsets
      <4> QED
        BY <1>5, <4>1, <4>2
    <3>3. (p * x) \div W <= (p * o) \div W /\ (p * x) \div W \in Nat /\ (p * o) \div W \in Nat
      <4>1. o \in 0..W /\ x \in 0..o /\ x \in 0..W
        BY <1>5, <3>2
      <4> QED
        BY <1>5, <4>1, ShareMono, Share
    <3>4. set[f] \in Nat
      BY <1>5 DEF Field
    <3>5. q = 0 \/ q + (p * o) \div W <= set[f]
      BY <3>1, <3>2
    <3>6. PICK y \in Nat, z \in Nat : y = (p * x) \div W /\ z = (p * o) \div W /\ y <= z
      BY <3>3
    <3>7. q = 0 \/ q + y <= set[f]
      BY <3>4, <3>5, <3>6
    <3> QED
      BY <3>2, <3>6, <3>7
  <2>2. CASE u # v
    <3>1. u \in Int /\ u > window_idx(c)
      BY <1>6, <2>2
    <3> QED
      BY <1>1, <3>1, LedgerFuture
  <2> QED
    BY <2>1, <2>2
<1>13. \A w \in Win, f \in Field : Thru(w, f) <= set[f]
  BY DEF Ledger
<1>14. Ledger(c)'
  <2>1. \A f \in Field : Effective(Thru(window_idx(c), f), Thru(window_idx(c) - 1, f), c)' =
                         Thru(u, f) + (Thru(u - 1, f) * (W - (now % W))) \div W
    BY <1>3, <1>4, <1>6, <1>7 DEF Effective
  <2>2. \A f \in Field : Thru(window_idx(c), f)' = Thru(u, f)
    BY <1>3, <1>6
  <2> QED
    BY <1>2, <1>3, <1>4, <1>6, <1>9, <1>10, <1>11, <1>12, <1>13, <2>1, <2>2 DEF Ledger
<1> QED
  BY <1>8, <1>14

LEMMA TickX ==
    ASSUME NEW c \in CPU, Ledger(c), Observed(c), Tick \/ UNCHANGED vars
    PROVE  Ledger(c)' /\ Observed(c)'
<1>1. UNCHANGED <<set, slot, pc, pkt, loc, log>>
  BY DEF Tick, vars
<1>2. \A w, f : Thru(w, f)' = Thru(w, f)
  BY <1>1, LogSame
<1>3. /\ W' = W /\ window_idx(c)' = window_idx(c) /\ overlap(c)' = overlap(c)
      /\ Curr(c)' = Curr(c) /\ Prev(c)' = Prev(c)
  BY <1>1, Frame
<1>4. /\ Stale(c)' = Stale(c) /\ PrevFilled(c)' = PrevFilled(c)
      /\ Effective(loc[c].cp, loc[c].pp, c)' = Effective(loc[c].cp, loc[c].pp, c)
      /\ Effective(loc[c].cb, loc[c].pb, c)' = Effective(loc[c].cb, loc[c].pb, c)
  BY <1>1, <1>3 DEF Stale, PrevFilled, Effective
<1>5. Ledger(c)'
  BY <1>1, LedgerKept
<1> QED
  BY <1>1, <1>2, <1>3, <1>4, <1>5 DEF Observed

LEMMA InitX == ASSUME Init PROVE XInv
<1>1. BInv /\ TypeOK
  BY InitB DEF BInv
<1>2. \A t \in Jiff : log[t].pkts = 0 /\ log[t].bytes = 0
  BY DEF Init
<1>3. ASSUME NEW w \in Int, NEW f \in Field PROVE Thru(w, f) = 0
  <2>1. \A t \in Times(w) : log[t][f] = 0
    BY <1>1, <1>2, TimesFacts DEF Field
  <2> QED
    BY <2>1, ThruSum, SumZero
<1>4. ASSUME NEW c \in CPU PROVE Ledger(c) /\ Observed(c)
  <2>1. Observed(c)
    BY DEF Init, Observed
  <2>2. window_idx(c) \in Nat /\ Win \subseteq Nat /\ set.pkts \in Nat /\ set.bytes \in Nat
    BY <1>1, TypeFacts
  <2>3. \A i \in 0..1 : slot[i].window_idx = 0 /\ slot[i].pkts = 0 /\ slot[i].bytes = 0
    BY DEF Init, ZeroSlot
  <2>4. \A w \in {window_idx(c) - 1, window_idx(c)} \cap Nat, f \in Field :
          Thru(w, f) = IF slot[w % 2].window_idx = w THEN slot[w % 2][f] ELSE 0
    <3> TAKE w \in {window_idx(c) - 1, window_idx(c)} \cap Nat, f \in Field
    <3>1. w % 2 \in 0..1 /\ Thru(w, f) = 0
      BY <1>3, Parity
    <3> QED
      BY <2>3, <3>1 DEF Field
  <2>5. \A f \in Field : Thru(window_idx(c), f) = 0
    BY <1>3, <2>2
  <2>6. \A w \in Win, f \in Field : Thru(w, f) <= set[f]
    <3> TAKE w \in Win, f \in Field
    <3>1. Thru(w, f) = 0 /\ set[f] \in Nat
      BY <1>3, <2>2 DEF Field
    <3> QED
      BY <3>1
  <2> QED
    BY <1>2, <2>1, <2>2, <2>3, <2>4, <2>5, <2>6 DEF Ledger
<1> QED
  BY <1>1, <1>4 DEF XInv, OneCpu

LEMMA NextX == XInv /\ [Next]_vars => XInv'
<1> SUFFICES ASSUME XInv, [Next]_vars PROVE XInv'
  OBVIOUS
<1>1. BInv /\ TypeOK /\ BInv' /\ set' = set
  <2>1. BInv /\ BInv'
    BY NextB DEF XInv
  <2> QED
    BY <2>1 DEF BInv, Next, Step, Tick, Receive, vars, TestCurr, ZeroPkts, ZeroBytes, SetIdx,
                ReadCurrPkts, ReadCurrBytes, TestPrev, ReadPrevPkts, ReadPrevBytes, AddPkts,
                AddBytes, Drop
<1>2. CPU' = CPU /\ N' = N
  BY <1>1, Frame
<1> SUFFICES ASSUME N = 1, NEW c \in CPU PROVE Ledger(c)' /\ Observed(c)'
  BY <1>1, <1>2 DEF XInv, OneCpu
<1>3. Ledger(c) /\ Observed(c)
  BY DEF XInv, OneCpu
<1>4. \A d \in CPU : d = c
  <2>1. PICK x : CPU = {x}
    BY <1>1, TypeFacts, FS_Singleton DEF N
  <2> QED
    BY <2>1
<1>5. CASE Step(c)
  BY <1>1, <1>3, <1>5, ReadsX, ZeroX, SetIdxX, AddX DEF Step
<1>6. ASSUME NEW sz \in set.sizes, Receive(c, sz) PROVE Ledger(c)' /\ Observed(c)'
  BY <1>1, <1>3, <1>6, ReceiveX
<1>7. CASE Tick \/ UNCHANGED vars
  BY <1>3, <1>7, TickX
<1> QED
  BY <1>4, <1>5, <1>6, <1>7 DEF Next

THEOREM ExactOnOneCpu == Spec => []XInv
  BY InitX, NextX, PTL DEF Spec

(* On one CPU xfw_is_within_rlimit lets no more packets and bytes through in *)
(* an aligned window than the rule allows, whatever their sizes and times. *)
THEOREM WindowsAreLimited == Spec => []WindowBound
<1>1. XInv => WindowBound
  <2> SUFFICES ASSUME XInv, N = 1, NEW w \in 0..(now \div W)
               PROVE  /\ Thru(w, "pkts") <= set.pkts
                      /\ Thru(w, "bytes") <= set.bytes
    BY DEF WindowBound, Thru
  <2>1. TypeOK
    BY DEF XInv, BInv
  <2>2. w \in Win /\ CPU # {}
    BY <2>1, TypeFacts, FS_EmptySet DEF Win, N
  <2>3. PICK c \in CPU : Ledger(c)
    BY <2>2 DEF XInv, OneCpu
  <2> QED
    BY <2>2, <2>3 DEF Ledger, Field
<1> QED
  BY <1>1, ExactOnOneCpu, PTL

(* The last W jiffies lie in two windows. *)
LEMMA LastWindows ==
    ASSUME TypeOK, NEW f \in Field, NEW u \in Nat, u = now \div W, now >= W
    PROVE  Through(now + 1 - W, now, f) <= Thru(u - 1, f) + Thru(u, f)
           /\ Through(now + 1 - W, now, f) \in Nat
<1>1. now \in Nat /\ W \in Nat \ {0} /\ u - 1 \in Int
  BY TypeFacts
<1> DEFINE A == ((now + 1 - W)..now) \cap Jiff
<1>2. Through(now + 1 - W, now, f) = Sum(log, f, A)
  BY DEF Through, Sum
<1>3. A \subseteq Times(u - 1) \cup Times(u)
  <2> SUFFICES ASSUME NEW t \in A PROVE t \div W = u - 1 \/ t \div W = u
    BY <1>1, TimesFacts
  <2>1. t \in Nat /\ t <= now /\ now - t <= W
    BY <1>1 DEF Jiff
  <2>2. t \div W <= u /\ u <= t \div W + 1 /\ t \div W \in Nat
    BY <1>1, <2>1, DivLag, DivFacts
  <2> QED
    BY <2>2
<1> HIDE DEF A
<1>4. /\ A \in SUBSET Jiff /\ Times(u - 1) \in SUBSET Jiff /\ Times(u) \in SUBSET Jiff
      /\ Times(u - 1) \cup Times(u) \in SUBSET Jiff
  BY <1>1, TimesFacts DEF A
<1>5. Sum(log, f, A) <= Sum(log, f, Times(u - 1) \cup Times(u))
  <2>1. \A t \in A : log[t][f] <= log[t][f]
    <3>1. \A t \in Jiff : log[t].pkts \in Nat /\ log[t].bytes \in Nat
      BY DEF TypeOK
    <3> QED
      BY <1>4, <3>1 DEF Field
  <2>2. IsFiniteSet(Jiff) /\ log \in Logs(Jiff)
    BY TypeFacts
  <2>3. PICK T : T = Times(u - 1) \cup Times(u)
    OBVIOUS
  <2> QED
    BY <1>3, <1>4, <2>1, <2>2, <2>3, SumMono
<1>6. \A X, Y \in SUBSET Jiff : /\ Sum(log, f, X) \in Nat
                                /\ Sum(log, f, X \cup Y) <= Sum(log, f, X) + Sum(log, f, Y)
  BY LogSums
<1>7. /\ Sum(log, f, Times(u - 1) \cup Times(u)) <= Sum(log, f, Times(u - 1)) + Sum(log, f, Times(u))
      /\ Sum(log, f, A) \in Nat /\ Sum(log, f, Times(u - 1)) \in Nat /\ Sum(log, f, Times(u)) \in Nat
      /\ Sum(log, f, Times(u - 1) \cup Times(u)) \in Nat
  BY <1>4, <1>6
<1>8. Thru(u - 1, f) = Sum(log, f, Times(u - 1)) /\ Thru(u, f) = Sum(log, f, Times(u))
  BY ThruSum
<1> QED
  BY <1>2, <1>5, <1>7, <1>8

(* On one CPU the weighted share of the previous window keeps what is let  *)
(* through in any W jiffies below the rate and its share at the offset     *)
(* reached: a burst on both sides of a window's end cannot double it.      *)
THEOREM BurstsAreLimited == Spec => []SlidingBound
<1>1. XInv => SlidingBound
  <2> SUFFICES ASSUME XInv, N = 1, now >= W, NEW f \in Field
               PROVE  Through(now + 1 - W, now, f) <= set[f] + CeilDiv(set[f] * (now % W), W)
    BY DEF SlidingBound, Field
  <2>1. TypeOK
    BY DEF XInv, BInv
  <2>2. /\ now \in Nat /\ W \in Nat \ {0} /\ CPU # {} /\ set[f] \in Nat
    BY <2>1, TypeFacts, FS_EmptySet DEF N, Field
  <2>3. PICK c \in CPU : Ledger(c)
    BY <2>2 DEF XInv, OneCpu
  <2>4. PICK u \in Nat, v \in Nat : /\ u = now \div W /\ v = window_idx(c) /\ v <= u /\ u # 0
                                    /\ v = pkt[c].ts \div W
    <3>1. window_idx(c) \in Nat /\ window_idx(c) <= now \div W /\ now \div W \in Nat
      BY <2>1, TypeFacts
    <3>2. now \div W # 0
      <4>1. now < W * (now \div W) + W
        BY <2>2, DivFacts
      <4> QED
        BY <2>2, <4>1
    <3> QED
      BY <3>1, <3>2 DEF window_idx
  <2>5. u - 1 \in Win /\ u \in Win
    <3>1. u \in Win
      BY <2>1, <2>4, TypeFacts
    <3>2. set.last \div W \in Nat
      BY <2>1, <2>2, TypeFacts, DivFacts
    <3> QED
      BY <2>4, <3>1, <3>2 DEF Win
  <2>6. PICK p \in Nat, q \in Nat, P \in Nat, s \in Nat :
          /\ p = Thru(u - 1, f) /\ q = Thru(u, f) /\ P = set[f]
          /\ s = Through(now + 1 - W, now, f) /\ s <= p + q /\ p <= P
    <3>1. Thru(u - 1, f) \in Nat /\ Thru(u, f) \in Nat
      BY <2>1, u - 1 \in Int, u \in Int, ThruNat
    <3>2. Thru(u - 1, f) <= set[f]
      BY <2>3, <2>5 DEF Ledger
    <3> QED
      BY <2>1, <2>2, <2>4, <3>1, <3>2, LastWindows
  <2>7. PICK o \in Nat, k \in Nat : /\ o = now % W /\ o < W
                                    /\ k = (P * o + W - 1) \div W /\ k = CeilDiv(set[f] * (now % W), W)
    <3>1. now % W \in Nat /\ now % W < W
      BY <2>2, DivFacts
    <3>2. P * (now % W) + W - 1 \in Nat
      BY <2>2, <3>1
    <3>3. (P * (now % W) + W - 1) \div W \in Nat
      BY <2>2, <3>2, DivFacts
    <3> QED
      BY <2>6, <3>1, <3>3 DEF CeilDiv
  <2>8. CASE q = 0
    BY <2>6, <2>7, <2>8
  <2>9. CASE q # 0
    <3>1. u = v
      <4>1. ~(u > v)
        BY <2>1, <2>3, <2>4, <2>6, <2>9, u \in Int, LedgerFuture
      <4> QED
        BY <2>4, <4>1
    <3>2. PICK x \in Nat : x = pkt[c].ts % W /\ x <= o
      BY <2>1, <2>2, <2>4, <2>7, <3>1, TypeFacts, Offsets
    <3>3. overlap(c) = W - x
      BY <3>2 DEF overlap, offset
    <3>4. q + (p * (W - x)) \div W <= P
      BY <2>3, <2>4, <2>6, <2>9, <3>1, <3>3 DEF Ledger, Effective
    <3>5. p - (p * (W - x)) \div W <= k
      <4>1. p - (p * (W - x)) \div W <= (P * o + W - 1) \div W
        BY <2>2, <2>6, <2>7, <3>2, Slide
      <4> QED
        BY <2>7, <4>1
    <3>6. (p * (W - x)) \div W \in Nat
      BY <2>2, <2>7, <3>2, W - x \in 0..W, Share
    <3> QED
      BY <2>6, <2>7, <3>4, <3>5, <3>6
  <2> QED
    BY <2>8, <2>9
<1> QED
  BY <1>1, ExactOnOneCpu, PTL

-----------------------------------------------------------------------------
(* The arithmetic of RateScale *)

(* The domain of the arithmetic: CONFIG_HZ fits an integer of Width bits. *)
LEMMA HzFacts ==
    /\ Width \in Nat \ {0} /\ Pow2[Width] \in Nat \ {0} /\ UINT_MAX = Pow2[Width] - 1
    /\ UINT_MAX \in Nat
    /\ \A hz \in HZ : hz \in Nat \ {0} /\ hz <= UINT_MAX
<1>1. Width \in Nat \ {0} /\ HZ \subseteq 1..UINT_MAX
  BY RateScaleAssumption
<1>2. Pow2[Width] \in Nat \ {0} /\ UINT_MAX = Pow2[Width] - 1
  BY <1>1, Pow2Facts DEF UINT_MAX
<1> QED
  BY <1>1, <1>2

(* std::bit_ceil *)
LEMMA BitCeil ==
    ASSUME NEW v \in 1..UINT_MAX
    PROVE  \E k \in 0..Width : /\ bit_ceil(v) = Pow2[k] /\ v <= Pow2[k]
                               /\ k > 0 => Pow2[k - 1] < v
<1> DEFINE T == {i \in Nat : i <= Width /\ Pow2[i] >= v}
           C(p) == p >= v /\ \A i \in 0..Width : Pow2[i] >= v => p <= Pow2[i]
           P == {Pow2[i] : i \in 0..Width}
<1>1. Width \in T
  BY HzFacts
<1>2. PICK k \in T : \A i \in T : k <= i
  <2>1. T \in SUBSET Nat /\ T # {}
    BY <1>1
  <2> HIDE DEF T
  <2> QED
    BY <2>1, LeastNat
<1>3. \A i \in Nat : Pow2[i] \in Nat
  BY Pow2Facts
<1>4. C(Pow2[k])
  <2> SUFFICES ASSUME NEW i \in 0..Width, Pow2[i] >= v PROVE Pow2[k] <= Pow2[i]
    BY <1>2
  <2>1. i \in T /\ k <= i
    BY <1>2
  <2> QED
    BY <1>2, <2>1, Pow2Order
<1>5. Pow2[k] \in P
  BY <1>2, HzFacts
<1>6. bit_ceil(v) = CHOOSE p \in P : C(p)
  BY DEF bit_ceil
<1>7. bit_ceil(v) \in P /\ C(bit_ceil(v))
  <2> HIDE DEF C, P
  <2> QED
    BY <1>4, <1>5, <1>6
<1>8. bit_ceil(v) = Pow2[k]
  <2>1. PICK i \in 0..Width : bit_ceil(v) = Pow2[i]
    BY <1>7
  <2>2. Pow2[i] <= Pow2[k] /\ Pow2[k] <= Pow2[i]
    BY <1>2, <1>4, <1>7, <2>1
  <2> QED
    BY <1>2, <1>3, <2>1, <2>2
<1>9. ASSUME k > 0 PROVE Pow2[k - 1] < v
  <2>1. k - 1 \in Nat /\ k - 1 <= Width /\ ~(k <= k - 1)
    BY <1>2, <1>9, HzFacts
  <2>2. k - 1 \notin T
    BY <1>2, <2>1
  <2> QED
    BY <1>3, <2>1, <2>2
<1> QED
  BY <1>2, <1>8, <1>9

(* The window is a power of two next to hz, and its shift is the exponent. *)
LEMMA WindowIs ==
    ASSUME NEW hz \in HZ
    PROVE  \E k \in 0..Width :
             /\ rl_window_jiffies(hz) = Pow2[k] /\ rl_window_shift(hz) = k
             /\ \/ hz = Pow2[k]
                \/ /\ k < Width /\ Pow2[k] < hz /\ hz < Pow2[k + 1]
                   /\ hz - Pow2[k] < Pow2[k + 1] - hz
                \/ /\ k > 0 /\ Pow2[k - 1] < hz /\ hz < Pow2[k]
                   /\ hz - Pow2[k - 1] >= Pow2[k] - hz
<1>1. hz \in 1..UINT_MAX /\ hz \in Nat \ {0}
  BY HzFacts
<1>2. PICK k \in 0..Width : /\ bit_ceil(hz) = Pow2[k] /\ hz <= Pow2[k]
                            /\ k > 0 => Pow2[k - 1] < hz
  BY <1>1, BitCeil
<1>3. k \in Nat /\ Pow2[k] \in Nat \ {0} /\ Width \in Nat
  BY <1>2, HzFacts, Pow2Facts
<1>4. ASSUME NEW j \in 0..Width, rl_window_jiffies(hz) = Pow2[j] PROVE rl_window_shift(hz) = j
  <2>1. \A i \in 0..Width : Pow2[i] = Pow2[j] => i = j
    BY <1>3, <1>4, Pow2Order
  <2>2. rl_window_shift(hz) = CHOOSE i \in 0..Width : Pow2[i] = Pow2[j]
    BY <1>4 DEF rl_window_shift, xfw_ilog2
  <2> QED
    BY <2>1, <2>2
<1>5. CASE hz = Pow2[k]
  <2>1. rl_window_jiffies(hz) = Pow2[k]
    <3>1. CASE hz <= 1
      <4>1. hz = 1
        BY <1>1, <3>1
      <4> QED
        BY <1>5, <4>1 DEF rl_window_jiffies, xfw_round_pow2
    <3> QED
      BY <1>2, <1>5, <3>1 DEF rl_window_jiffies, xfw_round_pow2
  <2> QED
    BY <1>2, <1>4, <1>5, <2>1
<1>6. CASE hz < Pow2[k]
  <2>1. k # 0
    BY <1>1, <1>6, Pow2Facts
  <2>2. k - 1 \in Nat /\ k - 1 \in 0..Width /\ (k - 1) + 1 = k /\ k - 1 < Width
    BY <1>2, <1>3, <2>1
  <2>3. Pow2[k] = 2 * Pow2[k - 1] /\ Pow2[k - 1] \in Nat \ {0} /\ Pow2[k - 1] < hz
    BY <1>2, <1>3, <2>1, <2>2, Pow2Facts
  <2>4. Pow2[k] \div 2 = Pow2[k - 1] /\ ~(hz <= 1) /\ hz # Pow2[k]
    BY <1>1, <1>6, <2>3
  <2>5. rl_window_jiffies(hz) = IF hz - Pow2[k - 1] < Pow2[k] - hz THEN Pow2[k - 1] ELSE Pow2[k]
    BY <1>2, <2>4 DEF rl_window_jiffies, xfw_round_pow2
  <2>6. CASE hz - Pow2[k - 1] < Pow2[k] - hz
    <3>1. rl_window_jiffies(hz) = Pow2[k - 1]
      BY <2>5, <2>6
    <3> QED
      BY <1>4, <1>6, <2>2, <2>3, <2>6, <3>1
  <2>7. CASE ~(hz - Pow2[k - 1] < Pow2[k] - hz)
    <3>1. rl_window_jiffies(hz) = Pow2[k]
      BY <2>5, <2>7
    <3>2. hz - Pow2[k - 1] >= Pow2[k] - hz
      BY <1>1, <1>3, <2>3, <2>7
    <3> QED
      BY <1>2, <1>3, <1>4, <1>6, <2>1, <2>3, <3>1, <3>2
  <2> QED
    BY <2>6, <2>7
<1> QED
  BY <1>1, <1>2, <1>3, <1>5, <1>6

LEMMA Nearest == ASSUME NEW hz \in HZ PROVE WindowNearest(hz)
<1>1. hz \in Nat \ {0} /\ Width \in Nat
  BY HzFacts
<1>2. PICK k \in 0..Width :
             /\ rl_window_jiffies(hz) = Pow2[k] /\ rl_window_shift(hz) = k
             /\ \/ hz = Pow2[k]
                \/ /\ k < Width /\ Pow2[k] < hz /\ hz < Pow2[k + 1]
                   /\ hz - Pow2[k] < Pow2[k + 1] - hz
                \/ /\ k > 0 /\ Pow2[k - 1] < hz /\ hz < Pow2[k]
                   /\ hz - Pow2[k - 1] >= Pow2[k] - hz
  BY WindowIs
<1> DEFINE dist(p) == IF p > hz THEN p - hz ELSE hz - p
<1>3. k \in Nat /\ k + 1 \in Nat /\ Pow2[k] \in Nat /\ Pow2[k + 1] \in Nat
  BY <1>2, Pow2Facts
<1> SUFFICES ASSUME NEW i \in 0..Width
             PROVE  \/ dist(Pow2[k]) < dist(Pow2[i])
                    \/ dist(Pow2[k]) = dist(Pow2[i]) /\ Pow2[k] >= Pow2[i]
  BY <1>2 DEF WindowNearest
<1>4. i \in Nat /\ Pow2[i] \in Nat
  BY <1>1, Pow2Facts
<1>5. CASE hz = Pow2[k]
  BY <1>1, <1>3, <1>4, <1>5
<1>6. CASE Pow2[k] < hz /\ hz < Pow2[k + 1] /\ hz - Pow2[k] < Pow2[k + 1] - hz
  <2>1. Pow2[i] <= Pow2[k] \/ Pow2[k + 1] <= Pow2[i]
    <3>1. i <= k \/ k + 1 <= i
      BY <1>3, <1>4
    <3> QED
      BY <1>3, <1>4, <3>1, Pow2Order
  <2> QED
    BY <1>1, <1>3, <1>4, <1>6, <2>1
<1>7. CASE k > 0 /\ Pow2[k - 1] < hz /\ hz < Pow2[k] /\ hz - Pow2[k - 1] >= Pow2[k] - hz
  <2>1. k - 1 \in Nat /\ Pow2[k - 1] \in Nat
    BY <1>3, <1>7, Pow2Facts
  <2>2. Pow2[i] <= Pow2[k - 1] \/ Pow2[k] <= Pow2[i]
    <3>1. i <= k - 1 \/ k <= i
      BY <1>3, <1>4
    <3> QED
      BY <1>3, <1>4, <2>1, <3>1, Pow2Order
  <2> QED
    BY <1>1, <1>3, <1>4, <1>7, <2>1, <2>2
<1> QED
  BY <1>2, <1>5, <1>6, <1>7

(* A product with the window that the validation lets through does not wrap. *)
LEMMA Scaled ==
    ASSUME NEW hz \in HZ, NEW r \in 0..rl_max_rate(hz)
    PROVE  /\ rl_window_jiffies(hz) \in Nat \ {0}
           /\ Pow2[rl_window_shift(hz)] = rl_window_jiffies(hz)
           /\ rl_max_rate(hz) \in Nat /\ r \in Nat
           /\ r * rl_window_jiffies(hz) \in Nat /\ r * rl_window_jiffies(hz) <= UINT_MAX
           /\ scale_rl_to_window(hz, r) =
                IF r = 0 THEN 0
                ELSE LET s == (r * rl_window_jiffies(hz)) \div hz IN IF s < 1 THEN 1 ELSE s
<1>1. hz \in Nat \ {0} /\ UINT_MAX \in Nat /\ UINT_MAX = Pow2[Width] - 1 /\ Pow2[Width] \in Nat \ {0}
      /\ Width \in Nat
  BY HzFacts
<1>2. PICK k \in 0..Width : rl_window_jiffies(hz) = Pow2[k] /\ rl_window_shift(hz) = k
  BY WindowIs
<1>3. PICK w \in Nat \ {0} : w = Pow2[k]
  BY <1>1, Pow2Facts
<1>4. PICK q \in Nat : q = rl_max_rate(hz) /\ w * q <= UINT_MAX
  <2>1. UINT_MAX \div w \in Nat /\ w * (UINT_MAX \div w) <= UINT_MAX
    BY <1>1, DivFacts
  <2> QED
    BY <1>2, <1>3, <2>1 DEF rl_max_rate
<1>5. r \in Nat /\ r <= q
  BY <1>4
<1>6. r * w \in Nat /\ r * w <= w * q
  BY <1>3, <1>4, <1>5
<1>7. r * w <= UINT_MAX
  BY <1>1, <1>3, <1>4, <1>5, <1>6
<1>8. (r * w) % Pow2[Width] = r * w
  BY <1>1, <1>6, <1>7
<1>9. scale_rl_to_window(hz, r) = IF r = 0 THEN 0 ELSE LET s == (r * w) \div hz IN IF s < 1 THEN 1 ELSE s
  BY <1>2, <1>3, <1>8 DEF scale_rl_to_window
<1> QED
  BY <1>2, <1>3, <1>4, <1>5, <1>6, <1>7, <1>9

LEMMA ScalingHolds == ScalingAgrees
<1> SUFFICES ASSUME NEW hz \in HZ, NEW r \in 0..rl_max_rate(hz)
             PROVE  SameRate(hz, r, scale_rl_to_window(hz, r))
  BY Nearest DEF ScalingAgrees
<1>1. hz \in Nat \ {0} /\ r \in Nat
  BY HzFacts, Scaled
<1>2. PICK w \in Nat \ {0} : w = rl_window_jiffies(hz)
  BY Scaled
<1>3. PICK x \in Nat : x = r * w /\ (r # 0 => x # 0)
  BY <1>1, <1>2
<1>4. PICK d \in Nat : d = x \div hz /\ hz * d <= x /\ x < hz * d + hz
  BY <1>1, <1>3, DivFacts
<1>5. scale_rl_to_window(hz, r) = IF r = 0 THEN 0 ELSE IF d < 1 THEN 1 ELSE d
  BY <1>2, <1>3, <1>4, Scaled
<1>6. CASE r = 0
  BY <1>5, <1>6 DEF SameRate
<1>7. CASE r # 0 /\ d = 0
  <2>1. x < 2 * hz /\ scale_rl_to_window(hz, r) = 1
    BY <1>1, <1>3, <1>4, <1>5, <1>7
  <2> QED
    BY <1>2, <1>3, <1>7, <2>1 DEF SameRate
<1>8. CASE r # 0 /\ d # 0
  <2>1. d * hz <= x /\ x < (d + 1) * hz /\ scale_rl_to_window(hz, r) = d
    BY <1>1, <1>4, <1>5, <1>8
  <2> QED
    BY <1>2, <1>3, <1>8, <2>1 DEF SameRate
<1> QED
  BY <1>6, <1>7, <1>8

LEMMA ProductsHold == ProductsAgree
<1> SUFFICES ASSUME NEW hz \in HZ, rl_window_jiffies(hz) <= hz,
                    NEW p \in 0..scale_rl_to_window(hz, rl_max_rate(hz)),
                    NEW o \in 0..(rl_window_jiffies(hz) - 1)
             PROVE  contribution(hz, p, o)
                      = (p * (rl_window_jiffies(hz) - o)) \div rl_window_jiffies(hz)
  BY DEF ProductsAgree
<1>1. hz \in Nat \ {0} /\ hz <= UINT_MAX /\ UINT_MAX \in Nat /\ UINT_MAX = Pow2[Width] - 1
      /\ Pow2[Width] \in Nat \ {0}
  BY HzFacts
<1>2. rl_max_rate(hz) \in 0..rl_max_rate(hz)
  <2>1. PICK k \in 0..Width : rl_window_shift(hz) = k
    BY WindowIs
  <2>2. Pow2[k] \in Nat \ {0}
    BY HzFacts, Pow2Facts
  <2>3. rl_max_rate(hz) \in Nat
    BY <1>1, <2>1, <2>2, DivFacts DEF rl_max_rate
  <2> QED
    BY <2>3
<1>3. PICK w \in Nat \ {0} : w = rl_window_jiffies(hz)
  BY <1>2, Scaled
<1>4. PICK m \in Nat : m = rl_max_rate(hz) /\ m * w <= UINT_MAX
  BY <1>2, <1>3, Scaled
<1>5. PICK x \in Nat : x = m * w
  BY <1>3, <1>4
<1>6. PICK d \in Nat : d = x \div hz /\ hz * d <= x
  BY <1>1, <1>5, DivFacts
<1>7. scale_rl_to_window(hz, rl_max_rate(hz)) = IF m = 0 THEN 0 ELSE IF d < 1 THEN 1 ELSE d
  BY <1>2, <1>3, <1>4, <1>5, <1>6, Scaled
<1>8. p \in Nat /\ (p = 0 \/ p = 1 \/ p <= d)
  BY <1>6, <1>7
<1>9. p * w <= UINT_MAX
  <2>1. CASE p = 0
    BY <1>1, <1>3, <2>1
  <2>2. CASE p = 1
    BY <1>1, <1>3, <2>2
  <2>3. CASE p <= d
    <3>1. p * w <= d * w /\ d * w <= d * hz
      BY <1>1, <1>3, <1>6, <1>8, <2>3
    <3>2. p * w \in Nat /\ d * w \in Nat /\ d * hz \in Nat /\ d * hz = hz * d
      BY <1>1, <1>3, <1>6, <1>8
    <3> QED
      BY <1>1, <1>4, <1>5, <1>6, <3>1, <3>2
  <2> QED
    BY <1>8, <2>1, <2>2, <2>3
<1>10. PICK c \in Nat : c = w - o /\ c <= w
  BY <1>3
<1>11. p * c \in Nat /\ p * c <= p * w /\ p * w \in Nat
  BY <1>3, <1>8, <1>10
<1>12. (p * c) % Pow2[Width] = p * c
  <2>1. p * c <= UINT_MAX
    BY <1>1, <1>9, <1>11
  <2> QED
    BY <1>1, <1>11, <2>1
<1>13. Pow2[rl_window_shift(hz)] = w
  BY <1>2, <1>3, Scaled
<1> QED
  BY <1>3, <1>10, <1>12, <1>13 DEF contribution, covered

(* Scaling a configured rate per second to the window (maps_manager.cc)    *)
(* keeps the rate, for every CONFIG_HZ and every integer width: a packet   *)
(* is never judged by a limit that rounding or wrap-around distorted.      *)
THEOREM ScalingIsExact == Spec => []ScaledRate
<1>1. ScaledRate
  BY ScalingHolds DEF ScaledRate
<1> QED
  BY <1>1, PTL

(* The product of filter.h:194-198 does not wrap around, for every         *)
(* CONFIG_HZ that is not rounded up and every rate the validation accepts. *)
THEOREM ProductsDoNotWrap == Spec => []NoOverflow
<1>1. NoOverflow
  BY ProductsHold DEF NoOverflow
<1> QED
  BY <1>1, PTL
=============================================================================
