------------------------------ MODULE RateScale ------------------------------
(***************************************************************************)
(* The arithmetic around the sliding window: how BpfMapsManager chooses    *)
(* the window for CONFIG_HZ, validates a rate per second and scales it to  *)
(* a rate per window (maps_manager.cc), and the uint64_t product the       *)
(* datapath forms with it (bpf/filter.h).  Integers are Width bits wide.   *)
(***************************************************************************)
EXTENDS Powers

CONSTANTS Width,   \* 64 in the code
          HZ       \* the values of CONFIG_HZ considered

UINT_MAX == Pow2[Width] - 1

ASSUME RateScaleAssumption == Width \in Nat \ {0} /\ HZ \subseteq 1..UINT_MAX

-----------------------------------------------------------------------------
(* std::bit_ceil: the least power of two not below v *)
bit_ceil(v) == CHOOSE p \in {Pow2[i] : i \in 0..Width} :
                 p >= v /\ \A i \in 0..Width : Pow2[i] >= v => p <= Pow2[i]

xfw_round_pow2(v) ==
    LET hi == bit_ceil(v)
        lo == hi \div 2
    IN  IF v <= 1 THEN 1
        ELSE IF v = hi THEN hi
        ELSE IF v - lo < hi - v THEN lo ELSE hi

xfw_ilog2(v) == CHOOSE i \in 0..Width : Pow2[i] = v

(* hz = hz_ *)
rl_window_jiffies(hz) == xfw_round_pow2(hz)
rl_window_shift(hz)   == xfw_ilog2(rl_window_jiffies(hz))
rl_max_rate(hz)       == UINT_MAX \div Pow2[rl_window_shift(hz)]

scale_rl_to_window_trunc(hz, rlps) ==
    ((rlps * Pow2[rl_window_shift(hz)]) % Pow2[Width]) \div hz

scale_rl_to_window(hz, rlps) ==
    IF rlps = 0 THEN 0
    ELSE LET s == ((rlps * Pow2[rl_window_shift(hz)]) % Pow2[Width]) \div hz
         IN  IF s < 1 THEN 1 ELSE s

(* The share of the previous window that the sliding window still covers,  *)
(* o jiffies after its end, and the contribution of p packets in it.       *)
covered_wrong_end(hz, o) == rl_window_jiffies(hz) + o
covered(hz, o) == rl_window_jiffies(hz) - o
contribution(hz, p, o) == ((p * covered(hz, o)) % Pow2[Width]) \div Pow2[rl_window_shift(hz)]

-----------------------------------------------------------------------------
(* No power of two is closer to HZ than the window, and of two equally     *)
(* close ones the window is the larger.                                    *)
WindowNearest(hz) ==
    LET dist(p) == IF p > hz THEN p - hz ELSE hz - p
        window  == rl_window_jiffies(hz)
    IN  \A i \in 0..Width : \/ dist(window) < dist(Pow2[i])
                            \/ dist(window) = dist(Pow2[i]) /\ window >= Pow2[i]

(* rate per second r, rate per window s *)
SameRate(hz, r, s) ==
    LET window == rl_window_jiffies(hz)
    IN  /\ (s = 0) <=> (r = 0)
        /\ r # 0 => \/ s = 1 /\ r * window < 2 * hz
                    \/ s * hz <= r * window /\ r * window < (s + 1) * hz

ScalingAgrees ==
    \A hz \in HZ : /\ WindowNearest(hz)
                   /\ \A r \in 0..rl_max_rate(hz) : SameRate(hz, r, scale_rl_to_window(hz, r))

ProductsAgree ==
    \A hz \in HZ : rl_window_jiffies(hz) <= hz =>
        \A p \in 0..scale_rl_to_window(hz, rl_max_rate(hz)), o \in 0..(rl_window_jiffies(hz) - 1) :
            contribution(hz, p, o) = (p * (rl_window_jiffies(hz) - o)) \div rl_window_jiffies(hz)
=============================================================================
