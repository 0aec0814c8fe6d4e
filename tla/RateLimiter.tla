----------------------------- MODULE RateLimiter -----------------------------
(***************************************************************************)
(* xfw_is_within_rlimit (bpf/filter.h): the sliding-window limiter of one  *)
(* bucket, executed by several CPUs without a lock.  A bucket has two      *)
(* slots, one per parity of the window index; the slot of a new window is  *)
(* recycled lazily with three separate stores by whoever finds it stale.   *)
(* Every READ_ONCE, WRITE_ONCE and atomic add on the bucket is a step.     *)
(*                                                                         *)
(* A CPU takes ts_jiff once per packet; MaxLag bounds how long a packet    *)
(* stays in the program (microseconds, against windows of about a second). *)
(* A behaviour belongs to one setting of machine, rule and traffic; how    *)
(* the rate of a rule comes from the configuration is in RateScale.        *)
(***************************************************************************)
EXTENDS RateScale, Integers, FiniteSets

CONSTANTS Setting,   \* the settings considered: see SettingType
          MaxLag     \* bound: jiffies a packet may be in flight

SettingType(s) ==
    /\ s.cpus # {} /\ IsFiniteSet(s.cpus)
    /\ s.shift \in Nat                    \* rl_window.shift and .jiffies
    /\ s.jiffies \in Nat \ {0} /\ s.jiffies = Pow2[s.shift]
    /\ s.pkts \in Nat /\ s.bytes \in Nat  \* XfwPacketRate of the rule, per window
    /\ s.sizes \subseteq Nat \ {0}        \* of packets
    /\ s.last \in Nat                     \* bound: last jiffy of a behaviour
    /\ MaxLag \in 0..s.jiffies

ASSUME RateLimiterAssumption == \A s \in Setting : SettingType(s)

VARIABLES
    set,    \* the setting: cfg->rl_window, the rule's rate and the traffic
    slot,   \* XfwRLimitSlidingWindow.slot[2]
    now,    \* jiffies
    pc,     \* where each CPU is in the function
    pkt,    \* its packet: ts_jiff and pkt_sz
    loc,    \* its locals curr_pkts, curr_bytes, prev_pkts, prev_bytes
    log     \* history: what was let through, by ts_jiff

vars == <<set, slot, now, pc, pkt, loc, log>>

CPU  == set.cpus
W    == set.jiffies          \* a shift by rl_window.shift divides by it
Jiff == 0..set.last

ZeroSlot == [window_idx |-> 0, pkts |-> 0, bytes |-> 0]
NoLocals == [cp |-> 0, cb |-> 0, pp |-> 0, pb |-> 0]

Init == /\ set \in Setting
        /\ slot = [i \in 0..1 |-> ZeroSlot]
        /\ now = 0
        /\ pc = [c \in CPU |-> "idle"]
        /\ pkt = [c \in CPU |-> [ts |-> 0, sz |-> 0]]
        /\ loc = [c \in CPU |-> NoLocals]
        /\ log = [t \in Jiff |-> [pkts |-> 0, bytes |-> 0]]

-----------------------------------------------------------------------------
window_idx(c) == pkt[c].ts \div W
offset(c)     == pkt[c].ts % W
overlap(c)    == W - offset(c)
Curr(c)       == window_idx(c) % 2
Prev(c)       == (window_idx(c) + 1) % 2

Goto(c, l) == pc' = [pc EXCEPT ![c] = l]

(* A packet enters the program and reads the clock. *)
Receive(c, sz) ==
    /\ pc[c] = "idle"
    /\ pkt' = [pkt EXCEPT ![c] = [ts |-> now, sz |-> sz]]
    /\ loc' = [loc EXCEPT ![c] = NoLocals]
    /\ Goto(c, "test")
    /\ UNCHANGED <<set, slot, now, log>>

(* "Lazily recycle the slot when it is reused for a new window." *)
Stale(c) == slot[Curr(c)].window_idx # window_idx(c)

TestCurr(c) ==
    /\ pc[c] = "test"
    /\ Goto(c, IF Stale(c) THEN "zero_pkts" ELSE "curr_pkts")
    /\ UNCHANGED <<set, slot, now, pkt, loc, log>>

ZeroPkts(c) ==
    /\ pc[c] = "zero_pkts"
    /\ slot' = [slot EXCEPT ![Curr(c)].pkts = 0]
    /\ Goto(c, "zero_bytes")
    /\ UNCHANGED <<set, now, pkt, loc, log>>

ZeroBytes(c) ==
    /\ pc[c] = "zero_bytes"
    /\ slot' = [slot EXCEPT ![Curr(c)].bytes = 0]
    /\ Goto(c, "set_idx")
    /\ UNCHANGED <<set, now, pkt, loc, log>>

SetIdx(c) ==
    /\ pc[c] = "set_idx"
    /\ slot' = [slot EXCEPT ![Curr(c)].window_idx = window_idx(c)]
    /\ Goto(c, "curr_pkts")
    /\ UNCHANGED <<set, now, pkt, loc, log>>

ReadCurrPkts(c) ==
    /\ pc[c] = "curr_pkts"
    /\ loc' = [loc EXCEPT ![c].cp = slot[Curr(c)].pkts]
    /\ Goto(c, "curr_bytes")
    /\ UNCHANGED <<set, slot, now, pkt, log>>

ReadCurrBytes(c) ==
    /\ pc[c] = "curr_bytes"
    /\ loc' = [loc EXCEPT ![c].cb = slot[Curr(c)].bytes]
    /\ Goto(c, "test_prev")
    /\ UNCHANGED <<set, slot, now, pkt, log>>

(* The verdict on the values read *)
EffectiveNoPrev(cur, prev, c) == cur
Effective(cur, prev, c) == cur + (prev * overlap(c)) \div W

WithinIgnoresSize(c, l) ==
    /\ Effective(l.cp, l.pp, c) < set.pkts
    /\ Effective(l.cb, l.pb, c) < set.bytes

Within(c, l) ==
    /\ Effective(l.cp, l.pp, c) < set.pkts
    /\ pkt[c].sz <= set.bytes
    /\ Effective(l.cb, l.pb, c) <= set.bytes - pkt[c].sz

Judge(c, l) == Goto(c, IF Within(c, l) THEN "add_pkts" ELSE "drop")

PrevAnyAge(c) == window_idx(c) # 0
PrevFilled(c) == window_idx(c) # 0 /\ slot[Prev(c)].window_idx = window_idx(c) - 1

TestPrev(c) ==
    /\ pc[c] = "test_prev"
    /\ IF PrevFilled(c) THEN Goto(c, "prev_pkts") ELSE Judge(c, loc[c])
    /\ UNCHANGED <<set, slot, now, pkt, loc, log>>

ReadPrevPkts(c) ==
    /\ pc[c] = "prev_pkts"
    /\ loc' = [loc EXCEPT ![c].pp = slot[Prev(c)].pkts]
    /\ Goto(c, "prev_bytes")
    /\ UNCHANGED <<set, slot, now, pkt, log>>

ReadPrevBytes(c) ==
    /\ pc[c] = "prev_bytes"
    /\ loc' = [loc EXCEPT ![c].pb = slot[Prev(c)].bytes]
    /\ Judge(c, loc'[c])
    /\ UNCHANGED <<set, slot, now, pkt, log>>

(* __atomic_fetch_add twice; the history counts along with each *)
AddPktsNotAtomic(c) ==
    /\ pc[c] = "add_pkts"
    /\ slot' = [slot EXCEPT ![Curr(c)].pkts = loc[c].cp + 1]
    /\ log' = [log EXCEPT ![pkt[c].ts].pkts = @ + 1]
    /\ Goto(c, "add_bytes")
    /\ UNCHANGED <<set, now, pkt, loc>>

AddPkts(c) ==
    /\ pc[c] = "add_pkts"
    /\ slot' = [slot EXCEPT ![Curr(c)].pkts = @ + 1]
    /\ log' = [log EXCEPT ![pkt[c].ts].pkts = @ + 1]
    /\ Goto(c, "add_bytes")
    /\ UNCHANGED <<set, now, pkt, loc>>

AddBytes(c) ==
    /\ pc[c] = "add_bytes"
    /\ slot' = [slot EXCEPT ![Curr(c)].bytes = @ + pkt[c].sz]
    /\ log' = [log EXCEPT ![pkt[c].ts].bytes = @ + pkt[c].sz]
    /\ Goto(c, "idle")
    /\ UNCHANGED <<set, now, pkt, loc>>

Drop(c) ==
    /\ pc[c] = "drop"
    /\ Goto(c, "idle")
    /\ UNCHANGED <<set, slot, now, pkt, loc, log>>

Tick ==
    /\ now < set.last
    /\ \A c \in CPU : pc[c] # "idle" => now + 1 - pkt[c].ts <= MaxLag
    /\ now' = now + 1
    /\ UNCHANGED <<set, slot, pc, pkt, loc, log>>

Step(c) == \/ TestCurr(c) \/ ZeroPkts(c) \/ ZeroBytes(c) \/ SetIdx(c)
           \/ ReadCurrPkts(c) \/ ReadCurrBytes(c)
           \/ TestPrev(c) \/ ReadPrevPkts(c) \/ ReadPrevBytes(c)
           \/ AddPkts(c) \/ AddBytes(c) \/ Drop(c)

Next == \/ \E c \in CPU : Step(c)
        \/ \E c \in CPU, sz \in set.sizes : Receive(c, sz)
        \/ Tick

Spec == Init /\ [][Next]_vars

-----------------------------------------------------------------------------
(* Properties *)

(* The shape of the state of the two slots and of the CPUs. *)
TypeOK ==
    /\ set \in Setting
    /\ slot \in [0..1 -> [window_idx : 0..(set.last \div W), pkts : Nat, bytes : Nat]]
    /\ now \in Jiff
    /\ pc \in [CPU -> {"idle", "test", "zero_pkts", "zero_bytes", "set_idx", "curr_pkts",
                       "curr_bytes", "test_prev", "prev_pkts", "prev_bytes",
                       "add_pkts", "add_bytes", "drop"}]
    /\ pkt \in [CPU -> [ts : 0..now, sz : Nat]]
    /\ loc \in [CPU -> [cp : Nat, cb : Nat, pp : Nat, pb : Nat]]
    /\ log \in [Jiff -> [pkts : Nat, bytes : Nat]]

(* How many packets or bytes were let through with ts_jiff in lo..hi *)
Through(lo, hi, field) ==
    Cardinality(UNION {{t} \X (1..log[t][field]) : t \in (lo..hi) \cap Jiff})

N == Cardinality(CPU)

(* On one CPU the limit holds exactly in every aligned window. *)
WindowBound ==
    N = 1 => \A w \in 0..(now \div W) :
        /\ Through(w * W, w * W + W - 1, "pkts") <= set.pkts
        /\ Through(w * W, w * W + W - 1, "bytes") <= set.bytes

CeilDiv(a, b) == (a + b - 1) \div b

(* "combining the current window with a weighted contribution from the     *)
(* previous one" (action_rules.h:87-88): on one CPU, any W jiffies that    *)
(* end at offset o of a window let through at most rate * (1 + o/W), so    *)
(* the burst at a window boundary never doubles the rate.                  *)
SlidingBound ==
    (N = 1 /\ now >= W) =>
      LET o == now % W IN
        /\ Through(now + 1 - W, now, "pkts") <= set.pkts + CeilDiv(set.pkts * o, W)
        /\ Through(now + 1 - W, now, "bytes") <= set.bytes + CeilDiv(set.bytes * o, W)

(* With any number of CPUs and any race, a packet is only refused when the *)
(* packets let through around its window really use the limit up: counters *)
(* of a recycled slot are never counted again.                             *)
Around(c, field) ==
    Through((IF window_idx(c) = 0 THEN 0 ELSE window_idx(c) - 1) * W,
            window_idx(c) * W + 2 * W - 1, field)
NoSpuriousDrop ==
    \A c \in CPU : pc[c] = "drop" =>
        \/ Around(c, "pkts") >= set.pkts
        \/ Around(c, "bytes") + pkt[c].sz > set.bytes

(* "Such errors are bounded" (action_rules.h:92-93): racing CPUs may each  *)
(* wipe the counters of a window once, and between two wipes every CPU     *)
(* that is past its own may slip one packet in on a stale count; that is   *)
(* all they can add to a window.                                           *)
RaceBound ==
    \A w \in 0..(now \div W) :
        Through(w * W, w * W + W - 1, "pkts") <= N * set.pkts + (N * (N - 1)) \div 2

(* Whatever limit a packet is judged by, scaling it to the window kept the *)
(* configured rate: it is exact but for the truncated fraction of a        *)
(* packet, no accepted positive limit became zero, and the window is "the  *)
(* nearest power of two" to a second (maps_manager.cc:100-109).            *)
ScaledRate == \A c \in CPU : pc[c] = "test" => ScalingAgrees

(* "Configuration validation guarantees: max_rate * window_jiffies <=      *)
(* UINT64_MAX.  Therefore, the intermediate multiplication cannot overflow *)
(* uint64_t" (filter.h:194-198): as long as the window is no longer than a *)
(* second, the weighted share of the previous window is what it would be   *)
(* with unbounded integers.  Where HZ is rounded up (7 to 8 here, 1000 to  *)
(* 1024 in practice) it is not: the validation bounds the rate per second, *)
(* and scale_rl_to_window then makes it larger.                            *)
NoOverflow == \A c \in CPU : pc[c] = "test_prev" => ProductsAgree
=============================================================================
