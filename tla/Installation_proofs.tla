------------------------ MODULE Installation_proofs ------------------------
(***************************************************************************)
(* Proofs about what xfwctl runs: the life cycle of the installation, for  *)
(* any devices, configurations, number of commands and of failures, and    *)
(* the logger with its incident maps, for any addresses, map size, batch   *)
(* size and number of incidents and failures.                              *)
(***************************************************************************)
EXTENDS Lifecycle, IncidentLog, SequenceTheorems, Counting

-----------------------------------------------------------------------------
(*                            The life cycle                               *)

(* The order of the steps in every script: only steps on devices may share *)
(* a rank.                                                                 *)
Rank == [stop_mgr     |-> 0, stop_logger |-> 1,
         detach_xdp   |-> 2, detach_tc   |-> 2,
         unload_tc    |-> 3, unload_xdp  |-> 4, maps_clean |-> 5,
         load_check   |-> 6, load_xdp    |-> 7, load_tc    |-> 8,
         attach_xdp   |-> 9, attach_tc   |-> 9, maps_check |-> 10,
         start_logger |-> 11, start_mgr  |-> 12]
Op    == DOMAIN Rank
DevOp == {"detach_xdp", "detach_tc", "attach_xdp", "attach_tc"}

StepType  == [op : Op, dev : Devs \cup {NoDev}]
StepOf(x) == IF x.op \in DevOp THEN x.dev \in ConfiguredDevs ELSE x.dev = NoDev
Before(x, y) == Rank[x.op] < Rank[y.op] \/ (Rank[x.op] = Rank[y.op] /\ x.dev # NoDev)

Steps(s)    == {s[i] : i \in 1..Len(s)}
Ordered(s)  == \A i, j \in 1..Len(s) : i < j => Before(s[i], s[j])
IsScript(s) == \A x \in Steps(s) : StepOf(x)

Has(s, op)      == \E x \in Steps(s) : x.op = op
HasOn(s, op, d) == \E x \in Steps(s) : x.op = op /\ x.dev = d

(* What the running command has yet to do *)
Pending(op)     == Has(todo, op)
From(n)         == \A x \in Steps(todo) : n <= Rank[x.op]

(* The clean-up is all there. *)
Sweeps(s) ==
    /\ Has(s, "unload_tc") /\ Has(s, "unload_xdp") /\ Has(s, "maps_clean")
    /\ \A d \in ConfiguredDevs : HasOn(s, "detach_xdp", d) /\ HasOn(s, "detach_tc", d)

LifeTypes ==
    /\ LifeTypeOK
    /\ todo \in Seq(StepType) /\ Ordered(todo) /\ IsScript(todo)
    /\ born = count
    /\ todo # <<>> => born # 0
    /\ mgr.st = "none" => mgr = NoMgr

(* A load is checked at its end, and what is running goes before its maps. *)
Shape ==
    /\ \A op \in {"load_check", "load_xdp", "load_tc", "attach_xdp", "attach_tc"} :
          Pending(op) => Pending("maps_check")
    /\ Pending("start_mgr") => cmd \in {"start", "restart", "start_mgr", "restart_mgr"}
    /\ Pending("maps_clean") => Pending("unload_xdp") \/ ~loaded

Unpinned(m) == m \notin XdpMaps => pinned[m] = 0

XdpLoaded ==
    /\ progs["xdp"] = Restrict2(pinned, XdpMaps)
    /\ \A m \in XdpMaps : pinned[m] # 0
    /\ ~stale => Unpinned("dns") /\ Unpinned("syncookies")

Loading ==
    /\ Pending("load_xdp")   => Pending("load_check") \/ (From(7) /\ ~loaded)
    /\ Pending("load_tc")    => Pending("load_xdp")   \/ (From(8) /\ ~loaded /\ XdpLoaded)
    /\ Pending("maps_check") => Pending("load_tc")    \/ (From(9) /\ ~loaded /\ XdpLoaded /\ Unpinned("dns"))

Agree(U) == \A m \in MapName, u, v \in U : u[m] # 0 /\ v[m] # 0 => u[m] = v[m]
Tells(m) == (m = "dns" \/ ~stale) => ((pinned[m] # 0) <=> (progs["xdp"][m] # 0))

Loaded == loaded =>
    progs["xdp"] # Nothing /\ Agree(Users) /\ Tells("dns") /\ Tells("syncookies")

(* Every part of the installation is gone, or its clean-up is to come. *)
Leaving ==
    /\ pinned = Nothing \/ Pending("maps_clean")
    /\ progs["xdp"] = Nothing \/ Pending("unload_xdp")
    /\ progs["tc"] = Nothing \/ Pending("unload_tc")
    /\ \A d \in ConfiguredDevs : /\ xdp[d] = Nothing \/ HasOn(todo, "detach_xdp", d)
                                 /\ tcx[d] = Nothing \/ HasOn(todo, "detach_tc", d)

Unloading ==
    (/\ ~missed /\ result # "refused"
     /\ cmd \in {"load", "unload", "reload", "start", "stop", "restart"})
    => Pending("maps_check") \/ Leaving \/ (loaded /\ From(11))

Others == \A d \in Devs \ ConfiguredDevs : xdp[d] = Nothing /\ tcx[d] = Nothing

(* All maps are of this command's load. *)
Young == \A u \in Users, m \in MapName : u[m] \in {0, born}

Restarting ==
    (cmd = "restart" /\ calm) =>
       /\ result = "good"
       /\ \/ /\ Pending("load_check") /\ Leaving /\ Others
             /\ mgr = NoMgr \/ (Pending("stop_mgr") /\ mgr.st = "up" /\ mgr.pidfile = "default")
             /\ logger = Nothing \/ Pending("stop_logger")
          \/ /\ Pending("load_xdp") /\ From(7) /\ Unloaded /\ Others
             /\ mgr = NoMgr /\ logger = Nothing
          \/ /\ Pending("load_tc") /\ From(8) /\ Young /\ mgr = NoMgr
             /\ progs["tc"] = Nothing /\ Unpinned("dns")
          \/ Pending("maps_check") /\ From(9) /\ Young /\ mgr = NoMgr
          \/ loaded /\ From(11)

LInv == LifeTypes /\ Shape /\ Loading /\ Loaded /\ Unloading /\ Restarting

-----------------------------------------------------------------------------
(* Sequences of steps *)

LEMMA RankFacts ==
    /\ Op = {"stop_mgr", "stop_logger", "detach_xdp", "detach_tc", "unload_tc", "unload_xdp",
             "maps_clean", "load_check", "load_xdp", "load_tc", "attach_xdp", "attach_tc",
             "maps_check", "start_logger", "start_mgr"}
    /\ Rank["stop_mgr"] = 0 /\ Rank["stop_logger"] = 1
    /\ Rank["detach_xdp"] = 2 /\ Rank["detach_tc"] = 2
    /\ Rank["unload_tc"] = 3 /\ Rank["unload_xdp"] = 4 /\ Rank["maps_clean"] = 5
    /\ Rank["load_check"] = 6 /\ Rank["load_xdp"] = 7 /\ Rank["load_tc"] = 8
    /\ Rank["attach_xdp"] = 9 /\ Rank["attach_tc"] = 9 /\ Rank["maps_check"] = 10
    /\ Rank["start_logger"] = 11 /\ Rank["start_mgr"] = 12
    /\ \A op \in Op : Rank[op] \in Nat
<1>1. Op = {"stop_mgr", "stop_logger", "detach_xdp", "detach_tc", "unload_tc", "unload_xdp",
             "maps_clean", "load_check", "load_xdp", "load_tc", "attach_xdp", "attach_tc",
             "maps_check", "start_logger", "start_mgr"}
  BY DEF Op, Rank
<1>2. \A op \in Op : Rank[op] \in Nat
  BY <1>1 DEF Rank
<1> QED
  BY <1>1, <1>2 DEF Rank

LEMMA TailFacts ==
    ASSUME NEW s \in Seq(StepType), s # <<>>, Ordered(s)
    PROVE  /\ Tail(s) \in Seq(StepType) /\ Head(s) \in StepType
           /\ Steps(s) = {Head(s)} \cup Steps(Tail(s))
           /\ Ordered(Tail(s))
           /\ \A x \in Steps(Tail(s)) : Before(Head(s), x)
<1>1. /\ Len(s) \in Nat \ {0} /\ Tail(s) \in Seq(StepType) /\ Head(s) = s[1]
      /\ Len(Tail(s)) = Len(s) - 1 /\ \A i \in 1..Len(Tail(s)) : Tail(s)[i] = s[i + 1]
  OBVIOUS
<1>2. Head(s) \in StepType
  BY <1>1
<1>3. Steps(s) = {Head(s)} \cup Steps(Tail(s))
  <2>1. ASSUME NEW x \in Steps(s) PROVE x \in {Head(s)} \cup Steps(Tail(s))
    <3>1. PICK i \in 1..Len(s) : x = s[i]
      BY DEF Steps
    <3>2. CASE i = 1
      BY <1>1, <3>1, <3>2
    <3>3. CASE i # 1
      <4>1. i - 1 \in 1..Len(Tail(s)) /\ Tail(s)[i - 1] = x
        BY <1>1, <3>1, <3>3
      <4> QED
        BY <4>1 DEF Steps
    <3> QED
      BY <3>2, <3>3
  <2>2. ASSUME NEW x \in Steps(Tail(s)) PROVE x \in Steps(s)
    <3>1. PICK i \in 1..Len(Tail(s)) : x = Tail(s)[i]
      BY DEF Steps
    <3>2. i + 1 \in 1..Len(s) /\ x = s[i + 1]
      BY <1>1, <3>1
    <3> QED
      BY <3>2 DEF Steps
  <2>3. Head(s) \in Steps(s)
    BY <1>1 DEF Steps
  <2> QED
    BY <2>1, <2>2, <2>3
<1>4. Ordered(Tail(s))
  <2> SUFFICES ASSUME NEW i \in 1..Len(Tail(s)), NEW j \in 1..Len(Tail(s)), i < j
               PROVE  Before(Tail(s)[i], Tail(s)[j])
    BY DEF Ordered
  <2>1. i + 1 \in 1..Len(s) /\ j + 1 \in 1..Len(s) /\ i + 1 < j + 1
    BY <1>1
  <2> QED
    BY <1>1, <2>1 DEF Ordered
<1>5. ASSUME NEW x \in Steps(Tail(s)) PROVE Before(Head(s), x)
  <2>1. PICK i \in 1..Len(Tail(s)) : x = Tail(s)[i]
    BY DEF Steps
  <2>2. 1 \in 1..Len(s) /\ i + 1 \in 1..Len(s) /\ 1 < i + 1 /\ x = s[i + 1]
    BY <1>1, <2>1
  <2> QED
    BY <1>1, <2>2 DEF Ordered
<1> QED
  BY <1>1, <1>2, <1>3, <1>4, <1>5

LEMMA JoinFacts ==
    ASSUME NEW s \in Seq(StepType), NEW t \in Seq(StepType), Ordered(s), Ordered(t),
           \A x \in Steps(s), y \in Steps(t) : Before(x, y)
    PROVE  s \o t \in Seq(StepType) /\ Steps(s \o t) = Steps(s) \cup Steps(t) /\ Ordered(s \o t)
<1>1. /\ Len(s) \in Nat /\ Len(t) \in Nat /\ s \o t \in Seq(StepType)
      /\ Len(s \o t) = Len(s) + Len(t)
      /\ \A i \in 1..Len(s) : (s \o t)[i] = s[i]
      /\ \A i \in 1..(Len(s) + Len(t)) : ~(i <= Len(s)) => (s \o t)[i] = t[i - Len(s)]
  OBVIOUS
<1> DEFINE r == s \o t
<1>2. /\ Len(s) \in Nat /\ Len(t) \in Nat /\ r \in Seq(StepType)
      /\ Len(r) = Len(s) + Len(t)
      /\ \A i \in 1..Len(s) : r[i] = s[i]
      /\ \A i \in 1..(Len(s) + Len(t)) : ~(i <= Len(s)) => r[i] = t[i - Len(s)]
  BY <1>1
<1> HIDE DEF r
<1>3. ASSUME NEW i \in 1..Len(r)
      PROVE  \/ i \in 1..Len(s) /\ r[i] = s[i] /\ r[i] \in Steps(s)
             \/ /\ ~(i <= Len(s)) /\ i - Len(s) \in 1..Len(t) /\ r[i] = t[i - Len(s)]
                /\ r[i] \in Steps(t)
  BY <1>2 DEF Steps
<1>4. ASSUME NEW x \in Steps(s) \cup Steps(t) PROVE x \in Steps(r)
  <2>1. CASE x \in Steps(s)
    <3>1. PICK i \in 1..Len(s) : x = s[i]
      BY <2>1 DEF Steps
    <3>2. i \in 1..Len(r) /\ r[i] = x
      BY <1>2, <3>1
    <3> QED
      BY <3>2 DEF Steps
  <2>2. CASE x \in Steps(t)
    <3>1. PICK i \in 1..Len(t) : x = t[i]
      BY <2>2 DEF Steps
    <3>2. i + Len(s) \in 1..Len(r) /\ ~(i + Len(s) <= Len(s)) /\ (i + Len(s)) - Len(s) = i
      BY <1>2
    <3>3. r[i + Len(s)] = x
      BY <1>2, <3>1, <3>2
    <3> QED
      BY <3>2, <3>3 DEF Steps
  <2> QED
    BY <2>1, <2>2
<1>5. Steps(r) = Steps(s) \cup Steps(t)
  <2>1. ASSUME NEW x \in Steps(r) PROVE x \in Steps(s) \cup Steps(t)
    <3>1. PICK i \in 1..Len(r) : x = r[i]
      BY DEF Steps
    <3> QED
      BY <1>3, <3>1
  <2> QED
    BY <1>4, <2>1
<1>6. Ordered(r)
  <2> SUFFICES ASSUME NEW i \in 1..Len(r), NEW j \in 1..Len(r), i < j PROVE Before(r[i], r[j])
    BY DEF Ordered
  <2>1. CASE j <= Len(s)
    <3>1. i \in 1..Len(s) /\ j \in 1..Len(s) /\ r[i] = s[i] /\ r[j] = s[j]
      BY <1>2, <2>1
    <3> QED
      BY <3>1 DEF Ordered
  <2>2. CASE ~(j <= Len(s)) /\ i <= Len(s)
    BY <1>2, <1>3, <2>2
  <2>3. CASE ~(i <= Len(s))
    <3>1. /\ i - Len(s) \in 1..Len(t) /\ j - Len(s) \in 1..Len(t) /\ i - Len(s) < j - Len(s)
          /\ r[i] = t[i - Len(s)] /\ r[j] = t[j - Len(s)]
      BY <1>2, <2>3
    <3> QED
      BY <3>1 DEF Ordered
  <2> QED
    BY <1>2, <2>1, <2>2, <2>3
<1> QED
  BY <1>2, <1>5, <1>6 DEF r

LEMMA StepFacts ==
    ASSUME NEW op \in Op \ DevOp
    PROVE  /\ Step(op) \in Seq(StepType) /\ Ordered(Step(op))
           /\ Steps(Step(op)) = {[op |-> op, dev |-> NoDev]}
<1> DEFINE x == [op |-> op, dev |-> NoDev]
<1>1. x \in StepType /\ Step(op) = <<x>>
  BY DEF StepType, Step
<1> HIDE DEF x
<1>2. Len(<<x>>) = 1 /\ <<x>>[1] = x /\ <<x>> \in Seq(StepType)
  BY <1>1
<1>3. Steps(<<x>>) = {x}
  BY <1>2 DEF Steps
<1>4. Ordered(<<x>>)
  BY <1>2 DEF Ordered
<1> QED
  BY <1>1, <1>2, <1>3, <1>4 DEF x

-----------------------------------------------------------------------------
(* The scripts *)

LEMMA CfgFacts ==
    ASSUME cfg \in Configs
    PROVE  /\ cfg.devs \in Seq(Devs) /\ ConfiguredDevs \subseteq Devs /\ NoDev \notin ConfiguredDevs
           /\ cfg.deployment \in {"host", "gw", "scrubbing"} /\ cfg.dns \in BOOLEAN
           /\ cfg.pidfile \in {"default", "custom"}
<1>1. /\ cfg.devs \in Seq(Devs)
      /\ cfg.deployment \in {"host", "gw", "scrubbing"} /\ cfg.dns \in BOOLEAN
      /\ cfg.pidfile \in {"default", "custom"}
  BY LifecycleAssumption
<1>2. \A i \in DOMAIN cfg.devs : cfg.devs[i] \in Devs
  BY <1>1
<1> QED
  BY <1>1, <1>2, LifecycleAssumption DEF ConfiguredDevs

LEMMA EachDevFacts ==
    ASSUME cfg \in Configs, NEW first \in DevOp, NEW second \in DevOp, Rank[first] = Rank[second]
    PROVE  /\ ForEachDev(first, second) \in Seq(StepType) /\ Ordered(ForEachDev(first, second))
           /\ \A x \in Steps(ForEachDev(first, second)) :
                x.op \in {first, second} /\ x.dev \in ConfiguredDevs
           /\ \A d \in ConfiguredDevs, op \in {first, second} :
                \E x \in Steps(ForEachDev(first, second)) : x.op = op /\ x.dev = d
<1> DEFINE n == Len(cfg.devs)
           r == ForEachDev(first, second)
<1>1. n \in Nat /\ DOMAIN cfg.devs = 1..n /\ \A i \in 1..n : cfg.devs[i] \in ConfiguredDevs
  BY CfgFacts DEF ConfiguredDevs
<1>2. first \in Op /\ second \in Op
  BY RankFacts DEF DevOp
<1>3. r = [i \in 1..(2 * n) |-> [op |-> IF i % 2 = 1 THEN first ELSE second,
                                 dev |-> cfg.devs[(i + 1) \div 2]]]
  BY DEF ForEachDev
<1>4. ASSUME NEW i \in 1..(2 * n)
      PROVE  (i + 1) \div 2 \in 1..n
  BY <1>1
<1> HIDE DEF n, r
<1>5. ASSUME NEW i \in 1..(2 * n)
      PROVE  r[i] \in StepType /\ r[i].op \in {first, second} /\ r[i].dev \in ConfiguredDevs
  <2>1. cfg.devs[(i + 1) \div 2] \in ConfiguredDevs
    BY <1>1, <1>4
  <2>2. PICK d \in ConfiguredDevs : d = cfg.devs[(i + 1) \div 2]
    BY <2>1
  <2>3. PICK op \in {first, second} : op = IF i % 2 = 1 THEN first ELSE second
    OBVIOUS
  <2>4. r[i] = [op |-> op, dev |-> d]
    BY <1>3, <2>2, <2>3
  <2> QED
    BY <1>2, <2>4, CfgFacts DEF StepType
<1>6. r \in Seq(StepType) /\ Len(r) = 2 * n
  <2>1. 2 * n \in Nat /\ DOMAIN r = 1..(2 * n) /\ r = [i \in 1..(2 * n) |-> r[i]]
    BY <1>1, <1>3
  <2>2. r \in [1..(2 * n) -> StepType]
    BY <1>5, <2>1
  <2> QED
    BY <2>1, <2>2
<1>7. Ordered(r)
  <2> SUFFICES ASSUME NEW i \in 1..(2 * n), NEW j \in 1..(2 * n) PROVE Before(r[i], r[j])
    BY <1>6 DEF Ordered
  <2>1. Rank[r[i].op] = Rank[r[j].op] /\ r[i].dev # NoDev
    BY <1>5, CfgFacts
  <2> QED
    BY <2>1 DEF Before
<1>8. ASSUME NEW d \in ConfiguredDevs PROVE \E x \in Steps(r) : x.op = first /\ x.dev = d
  <2>1. PICK k \in 1..n : d = cfg.devs[k]
    BY <1>1 DEF ConfiguredDevs
  <2>2. 2 * k - 1 \in 1..(2 * n) /\ (2 * k - 1) % 2 = 1 /\ ((2 * k - 1) + 1) \div 2 = k
    BY <1>1
  <2>3. r[2 * k - 1].op = first /\ r[2 * k - 1].dev = d
    BY <1>3, <2>1, <2>2
  <2>4. r[2 * k - 1] \in Steps(r)
    BY <1>6, <2>2 DEF Steps
  <2> QED
    BY <2>3, <2>4
<1>9. ASSUME NEW d \in ConfiguredDevs PROVE \E x \in Steps(r) : x.op = second /\ x.dev = d
  <2>1. PICK k \in 1..n : d = cfg.devs[k]
    BY <1>1 DEF ConfiguredDevs
  <2>2. 2 * k \in 1..(2 * n) /\ (2 * k) % 2 # 1 /\ (2 * k + 1) \div 2 = k
    BY <1>1
  <2>3. r[2 * k].op = second /\ r[2 * k].dev = d
    BY <1>3, <2>1, <2>2
  <2>4. r[2 * k] \in Steps(r)
    BY <1>6, <2>2 DEF Steps
  <2> QED
    BY <2>3, <2>4
<1>10. ASSUME NEW x \in Steps(r) PROVE x.op \in {first, second} /\ x.dev \in ConfiguredDevs
  BY <1>5, <1>6 DEF Steps
<1>11. r \in Seq(StepType) /\ Ordered(r)
       /\ (\A x \in Steps(r) : x.op \in {first, second} /\ x.dev \in ConfiguredDevs)
       /\ \A d \in ConfiguredDevs, op \in {first, second} :
            \E x \in Steps(r) : x.op = op /\ x.dev = d
  BY <1>6, <1>7, <1>8, <1>9, <1>10
<1> QED
  BY <1>11 DEF r

(* A part of a script: steps in order, with ranks between two bounds *)
Segment(s, lo, hi) ==
    /\ s \in Seq(StepType) /\ Ordered(s) /\ IsScript(s)
    /\ \A x \in Steps(s) : lo <= Rank[x.op] /\ Rank[x.op] <= hi

LEMMA RankType == ASSUME NEW s \in Seq(StepType), NEW x \in Steps(s) PROVE x.op \in Op /\ Rank[x.op] \in Nat
<1>1. x \in StepType
  BY DEF Steps
<1> QED
  BY <1>1, RankFacts DEF StepType

LEMMA SegmentStep ==
    ASSUME NEW op \in Op \ DevOp
    PROVE  Segment(Step(op), Rank[op], Rank[op]) /\ Steps(Step(op)) = {[op |-> op, dev |-> NoDev]}
  BY StepFacts, RankFacts DEF Segment, IsScript, StepOf

LEMMA SegmentJoin ==
    ASSUME NEW s, NEW t, NEW a \in Nat, NEW b \in Nat, NEW c \in Nat, NEW d \in Nat,
           Segment(s, a, b), Segment(t, c, d), a <= b, b < c, c <= d
    PROVE  Segment(s \o t, a, d) /\ Steps(s \o t) = Steps(s) \cup Steps(t)
<1>1. ASSUME NEW x \in Steps(s), NEW y \in Steps(t) PROVE Before(x, y)
  BY RankType DEF Segment, Before
<1>2. s \o t \in Seq(StepType) /\ Steps(s \o t) = Steps(s) \cup Steps(t) /\ Ordered(s \o t)
  BY <1>1, JoinFacts DEF Segment
<1>3. ASSUME NEW x \in Steps(s \o t) PROVE StepOf(x) /\ a <= Rank[x.op] /\ Rank[x.op] <= d
  <2>1. Rank[x.op] \in Nat
    BY <1>2, RankType
  <2>2. x \in Steps(s) \/ x \in Steps(t)
    BY <1>2
  <2> QED
    BY <2>1, <2>2 DEF Segment, IsScript
<1> QED
  BY <1>2, <1>3 DEF Segment, IsScript

LEMMA SegmentDevs ==
    ASSUME cfg \in Configs, NEW first \in DevOp, NEW second \in DevOp, Rank[first] = Rank[second]
    PROVE  Segment(ForEachDev(first, second), Rank[first], Rank[first])
<1>1. first \in Op /\ second \in Op /\ Rank[first] \in Nat
  BY RankFacts DEF DevOp
<1> QED
  BY <1>1, EachDevFacts DEF Segment, IsScript, StepOf

LEMMA UnloadFacts ==
    ASSUME cfg \in Configs
    PROVE  /\ Segment(UnloadBpf, 2, 5) /\ Sweeps(UnloadBpf)
           /\ \A x \in Steps(UnloadBpf) :
                x.op \in {"detach_xdp", "detach_tc", "unload_tc", "unload_xdp", "maps_clean"}
<1> DEFINE s0 == ForEachDev("detach_xdp", "detach_tc")
           s1 == s0 \o Step("unload_tc")
           s2 == s1 \o Step("unload_xdp")
           s3 == s2 \o Step("maps_clean")
<1>1. {"detach_xdp", "detach_tc"} \subseteq DevOp
  BY DEF DevOp
<1>2. /\ Segment(s0, 2, 2)
      /\ \A x \in Steps(s0) : x.op \in {"detach_xdp", "detach_tc"} /\ x.dev \in ConfiguredDevs
      /\ \A d \in ConfiguredDevs, op \in {"detach_xdp", "detach_tc"} :
           \E x \in Steps(s0) : x.op = op /\ x.dev = d
  BY <1>1, SegmentDevs, EachDevFacts, RankFacts
<1>3. {"unload_tc", "unload_xdp", "maps_clean"} \subseteq Op \ DevOp
  BY RankFacts DEF DevOp
<1>4. /\ Segment(Step("unload_tc"), 3, 3) /\ Steps(Step("unload_tc")) = {[op |-> "unload_tc", dev |-> NoDev]}
      /\ Segment(Step("unload_xdp"), 4, 4) /\ Steps(Step("unload_xdp")) = {[op |-> "unload_xdp", dev |-> NoDev]}
      /\ Segment(Step("maps_clean"), 5, 5) /\ Steps(Step("maps_clean")) = {[op |-> "maps_clean", dev |-> NoDev]}
  BY <1>3, SegmentStep, RankFacts
<1> HIDE DEF s0
<1>5. Segment(s1, 2, 3) /\ Steps(s1) = Steps(s0) \cup {[op |-> "unload_tc", dev |-> NoDev]}
  BY <1>2, <1>4, SegmentJoin
<1> HIDE DEF s1
<1>6. Segment(s2, 2, 4) /\ Steps(s2) = Steps(s1) \cup {[op |-> "unload_xdp", dev |-> NoDev]}
  BY <1>4, <1>5, SegmentJoin
<1> HIDE DEF s2
<1>7. Segment(s3, 2, 5) /\ Steps(s3) = Steps(s2) \cup {[op |-> "maps_clean", dev |-> NoDev]}
  BY <1>4, <1>6, SegmentJoin
<1> HIDE DEF s3
<1>8. UnloadBpf = s3
  BY DEF UnloadBpf, s0, s1, s2, s3
<1>9. Steps(s3) = Steps(s0) \cup {[op |-> "unload_tc", dev |-> NoDev], [op |-> "unload_xdp", dev |-> NoDev],
                                  [op |-> "maps_clean", dev |-> NoDev]}
  BY <1>5, <1>6, <1>7
<1>10. Sweeps(s3)
  <2>1. ASSUME NEW op \in {"unload_tc", "unload_xdp", "maps_clean"} PROVE Has(s3, op)
    <3>1. [op |-> op, dev |-> NoDev] \in Steps(s3) /\ [op |-> op, dev |-> NoDev].op = op
      BY <1>9
    <3> QED
      BY <3>1 DEF Has
  <2>2. \A d \in ConfiguredDevs : HasOn(s3, "detach_xdp", d) /\ HasOn(s3, "detach_tc", d)
    <3>1. Steps(s0) \subseteq Steps(s3)
      BY <1>9
    <3> QED
      BY <1>2, <3>1 DEF HasOn
  <2> QED
    BY <2>1, <2>2 DEF Sweeps
<1> QED
  BY <1>2, <1>7, <1>8, <1>9, <1>10

LEMMA LoadFacts ==
    ASSUME cfg \in Configs
    PROVE  /\ Segment(LoadBpf, 6, 10)
           /\ \A op \in {"load_check", "load_xdp", "load_tc", "maps_check"} : Has(LoadBpf, op)
<1> DEFINE c0 == Step("load_check") \o Step("load_xdp")
           c1 == c0 \o Step("load_tc")
           a0 == ForEachDev("attach_xdp", "attach_tc")
           c2 == c1 \o a0
           c3 == c2 \o Step("maps_check")
<1>1. {"attach_xdp", "attach_tc"} \subseteq DevOp
  BY DEF DevOp
<1>2. Segment(a0, 9, 9)
  BY <1>1, SegmentDevs, RankFacts
<1>3. {"load_check", "load_xdp", "load_tc", "maps_check"} \subseteq Op \ DevOp
  BY RankFacts DEF DevOp
<1>4. /\ Segment(Step("load_check"), 6, 6) /\ Steps(Step("load_check")) = {[op |-> "load_check", dev |-> NoDev]}
      /\ Segment(Step("load_xdp"), 7, 7) /\ Steps(Step("load_xdp")) = {[op |-> "load_xdp", dev |-> NoDev]}
      /\ Segment(Step("load_tc"), 8, 8) /\ Steps(Step("load_tc")) = {[op |-> "load_tc", dev |-> NoDev]}
      /\ Segment(Step("maps_check"), 10, 10) /\ Steps(Step("maps_check")) = {[op |-> "maps_check", dev |-> NoDev]}
  BY <1>3, SegmentStep, RankFacts
<1>5. Segment(c0, 6, 7) /\ Steps(c0) = {[op |-> "load_check", dev |-> NoDev], [op |-> "load_xdp", dev |-> NoDev]}
  BY <1>4, SegmentJoin
<1> HIDE DEF c0, a0
<1>6. Segment(c1, 6, 8) /\ Steps(c1) = Steps(c0) \cup {[op |-> "load_tc", dev |-> NoDev]}
  BY <1>4, <1>5, SegmentJoin
<1> HIDE DEF c1
<1>7. Segment(c2, 6, 9) /\ Steps(c2) = Steps(c1) \cup Steps(a0)
  BY <1>2, <1>6, SegmentJoin
<1> HIDE DEF c2
<1>8. Segment(c3, 6, 10) /\ Steps(c3) = Steps(c2) \cup {[op |-> "maps_check", dev |-> NoDev]}
  BY <1>4, <1>7, SegmentJoin
<1> HIDE DEF c3
<1>9. LoadBpf = c3
  BY DEF LoadBpf, c0, c1, a0, c2, c3
<1>10. ASSUME NEW op \in {"load_check", "load_xdp", "load_tc", "maps_check"} PROVE Has(c3, op)
  <2>1. [op |-> op, dev |-> NoDev] \in Steps(c3) /\ [op |-> op, dev |-> NoDev].op = op
    BY <1>5, <1>6, <1>7, <1>8
  <2> QED
    BY <2>1 DEF Has
<1> QED
  BY <1>8, <1>9, <1>10

(* No step is there without what it depends on. *)
Proper(s) ==
    /\ \A op \in {"load_check", "load_xdp", "load_tc", "attach_xdp", "attach_tc"} :
          Has(s, op) => Has(s, "maps_check")
    /\ Has(s, "load_xdp") => Has(s, "load_check")
    /\ Has(s, "load_tc") => Has(s, "load_xdp")
    /\ Has(s, "maps_check") => Has(s, "load_tc")
    /\ Has(s, "maps_clean") => Has(s, "unload_xdp")

LEMMA ProperScript ==
    ASSUME cfg \in Configs, NEW s, NEW A, NEW U, NEW L,
           Steps(s) = A \cup U \cup L,
           \A x \in A : x.op \in {"stop_mgr", "stop_logger", "start_logger", "start_mgr"},
           U \in {{}, Steps(UnloadBpf)}, L \in {{}, Steps(LoadBpf)}
    PROVE  Proper(s)
<1>1. ASSUME NEW x \in Steps(LoadBpf)
      PROVE  x.op \in {"load_check", "load_xdp", "load_tc", "attach_xdp", "attach_tc", "maps_check"}
  <2>1. x.op \in Op /\ 6 <= Rank[x.op] /\ Rank[x.op] <= 10
    BY LoadFacts, RankType DEF Segment
  <2> QED
    BY <2>1, RankFacts
<1>2. CASE L = {}
  <2>1. ~Has(s, "load_check") /\ ~Has(s, "load_xdp") /\ ~Has(s, "load_tc")
        /\ ~Has(s, "attach_xdp") /\ ~Has(s, "attach_tc") /\ ~Has(s, "maps_check")
    BY <1>2, UnloadFacts DEF Has
  <2>2. Has(s, "maps_clean") => Has(s, "unload_xdp")
    BY <1>2, UnloadFacts DEF Sweeps, Has
  <2> QED
    BY <2>1, <2>2 DEF Proper
<1>3. CASE L = Steps(LoadBpf)
  <2>1. Has(s, "load_check") /\ Has(s, "load_xdp") /\ Has(s, "load_tc") /\ Has(s, "maps_check")
    BY <1>3, LoadFacts DEF Has
  <2>2. Has(s, "maps_clean") => Has(s, "unload_xdp")
    <3>1. U = {} => ~Has(s, "maps_clean")
      BY <1>1, <1>3 DEF Has
    <3>2. U = Steps(UnloadBpf) => Has(s, "unload_xdp")
      BY UnloadFacts DEF Sweeps, Has
    <3> QED
      BY <3>1, <3>2
  <2> QED
    BY <2>1, <2>2 DEF Proper
<1> QED
  BY <1>2, <1>3

LEMMA ScriptFacts ==
    ASSUME cfg \in Configs, NEW c \in Commands
    PROVE  /\ Segment(Script[c], 0, 12) /\ Proper(Script[c])
           /\ Has(Script[c], "start_mgr") => c \in {"start", "restart", "start_mgr", "restart_mgr"}
           /\ c \in {"load", "unload", "reload", "start", "stop", "restart"} =>
                Has(Script[c], "maps_check") \/ Sweeps(Script[c])
           /\ c = "restart" => /\ Has(Script[c], "load_check") /\ Sweeps(Script[c])
                               /\ Has(Script[c], "stop_mgr") /\ Has(Script[c], "stop_logger")
<1> DEFINE One(op) == [op |-> op, dev |-> NoDev]
           Good(s, A, U, L) ==
               /\ Segment(s, 0, 12) /\ Steps(s) = A \cup U \cup L
               /\ A \subseteq {One("stop_mgr"), One("stop_logger"), One("start_logger"), One("start_mgr")}
               /\ U \in {{}, Steps(UnloadBpf)} /\ L \in {{}, Steps(LoadBpf)}
<1>1. {"stop_mgr", "stop_logger", "start_logger", "start_mgr"} \subseteq Op \ DevOp
  BY RankFacts DEF DevOp
<1>2. /\ Segment(Step("stop_mgr"), 0, 0) /\ Steps(Step("stop_mgr")) = {One("stop_mgr")}
      /\ Segment(Step("stop_logger"), 1, 1) /\ Steps(Step("stop_logger")) = {One("stop_logger")}
      /\ Segment(Step("start_logger"), 11, 11) /\ Steps(Step("start_logger")) = {One("start_logger")}
      /\ Segment(Step("start_mgr"), 12, 12) /\ Steps(Step("start_mgr")) = {One("start_mgr")}
  BY <1>1, SegmentStep, RankFacts
<1>3. \A s, lo, hi : Segment(s, lo, hi) /\ lo \in Nat /\ hi \in 0..12 => Segment(s, 0, 12)
  <2> SUFFICES ASSUME NEW s, NEW lo \in Nat, NEW hi \in 0..12, Segment(s, lo, hi) PROVE Segment(s, 0, 12)
    OBVIOUS
  <2>1. ASSUME NEW x \in Steps(s) PROVE 0 <= Rank[x.op] /\ Rank[x.op] <= 12
    BY RankType DEF Segment
  <2> QED
    BY <2>1 DEF Segment
<1>4. Segment(UnloadBpf, 2, 5) /\ Segment(LoadBpf, 6, 10)
  BY UnloadFacts, LoadFacts
<1>5. Segment(UnloadBpf \o LoadBpf, 2, 10)
      /\ Steps(UnloadBpf \o LoadBpf) = Steps(UnloadBpf) \cup Steps(LoadBpf)
  BY <1>4, SegmentJoin
<1>6. Segment(StopAll, 0, 5) /\ Steps(StopAll) = {One("stop_mgr"), One("stop_logger")} \cup Steps(UnloadBpf)
  <2>1. Segment(Step("stop_mgr") \o Step("stop_logger"), 0, 1)
        /\ Steps(Step("stop_mgr") \o Step("stop_logger")) = {One("stop_mgr"), One("stop_logger")}
    BY <1>2, SegmentJoin
  <2> DEFINE s == Step("stop_mgr") \o Step("stop_logger")
  <2> HIDE DEF s
  <2>2. Segment(s \o UnloadBpf, 0, 5) /\ Steps(s \o UnloadBpf) = Steps(s) \cup Steps(UnloadBpf)
    BY <1>4, <2>1, SegmentJoin DEF s
  <2> QED
    BY <2>1, <2>2 DEF s, StopAll
<1>7. Segment(StartAll, 6, 12) /\ Steps(StartAll) = {One("start_logger"), One("start_mgr")} \cup Steps(LoadBpf)
  <2>1. Segment(LoadBpf \o Step("start_logger"), 6, 11)
        /\ Steps(LoadBpf \o Step("start_logger")) = Steps(LoadBpf) \cup {One("start_logger")}
    BY <1>2, <1>4, SegmentJoin
  <2> DEFINE s == LoadBpf \o Step("start_logger")
  <2> HIDE DEF s
  <2>2. Segment(s \o Step("start_mgr"), 6, 12)
        /\ Steps(s \o Step("start_mgr")) = Steps(s) \cup Steps(Step("start_mgr"))
    BY <1>2, <2>1, SegmentJoin DEF s
  <2> QED
    BY <1>2, <2>1, <2>2 DEF s, StartAll
<1>8. Segment(StopAll \o StartAll, 0, 12) /\ Steps(StopAll \o StartAll) = Steps(StopAll) \cup Steps(StartAll)
  BY <1>6, <1>7, SegmentJoin
<1>9. /\ Segment(Step("stop_mgr") \o Step("start_mgr"), 0, 12)
      /\ Steps(Step("stop_mgr") \o Step("start_mgr")) = {One("stop_mgr"), One("start_mgr")}
      /\ Segment(Step("stop_logger") \o Step("start_logger"), 1, 11)
      /\ Steps(Step("stop_logger") \o Step("start_logger")) = {One("stop_logger"), One("start_logger")}
  BY <1>2, SegmentJoin
<1>10. /\ Script["load"] = LoadBpf /\ Script["unload"] = UnloadBpf
       /\ Script["reload"] = UnloadBpf \o LoadBpf
       /\ Script["start"] = StartAll /\ Script["stop"] = StopAll
       /\ Script["restart"] = StopAll \o StartAll
       /\ Script["start_mgr"] = Step("start_mgr") /\ Script["stop_mgr"] = Step("stop_mgr")
       /\ Script["start_logger"] = Step("start_logger") /\ Script["stop_logger"] = Step("stop_logger")
       /\ Script["restart_mgr"] = Step("stop_mgr") \o Step("start_mgr")
       /\ Script["restart_logger"] = Step("stop_logger") \o Step("start_logger")
  BY Zenon DEF Script
<1>11. /\ \A op : One(op).op = op
       /\ \A x \in Steps(UnloadBpf) \cup Steps(LoadBpf) : x.op # "start_mgr"
  <2>1. ASSUME NEW x \in Steps(LoadBpf) PROVE x.op # "start_mgr"
    BY <1>4, RankType, RankFacts DEF Segment
  <2> QED
    BY <2>1, UnloadFacts
<1> HIDE DEF One
<1>12. ASSUME NEW A, NEW U, NEW L, Good(Script[c], A, U, L),
              One("start_mgr") \in A => c \in {"start", "restart", "start_mgr", "restart_mgr"},
              c \in {"load", "unload", "reload", "start", "stop", "restart"} => U # {} \/ L # {},
              c = "restart" => U # {} /\ L # {} /\ {One("stop_mgr"), One("stop_logger")} \subseteq A
       PROVE  /\ Proper(Script[c])
              /\ Has(Script[c], "start_mgr") => c \in {"start", "restart", "start_mgr", "restart_mgr"}
              /\ c \in {"load", "unload", "reload", "start", "stop", "restart"} =>
                    Has(Script[c], "maps_check") \/ Sweeps(Script[c])
              /\ c = "restart" => /\ Has(Script[c], "load_check") /\ Sweeps(Script[c])
                                  /\ Has(Script[c], "stop_mgr") /\ Has(Script[c], "stop_logger")
  <2> DEFINE s == Script[c]
  <2>1. Steps(s) = A \cup U \cup L
    BY <1>12
  <2> HIDE DEF s
  <2>2. \A x \in A : x.op \in {"stop_mgr", "stop_logger", "start_logger", "start_mgr"}
                     /\ (x.op = "start_mgr" => x = One("start_mgr"))
    BY <1>11, <1>12
  <2>3. Proper(s)
    BY <1>12, <2>1, <2>2, ProperScript
  <2>4. Has(s, "start_mgr") => One("start_mgr") \in A
    BY <1>11, <1>12, <2>1, <2>2 DEF Has
  <2>5. U # {} => Sweeps(s)
    BY <1>12, <2>1, UnloadFacts DEF Sweeps, Has, HasOn
  <2>6. L # {} => Has(s, "maps_check") /\ Has(s, "load_check")
    BY <1>12, <2>1, LoadFacts DEF Has
  <2>7. {One("stop_mgr"), One("stop_logger")} \subseteq A => Has(s, "stop_mgr") /\ Has(s, "stop_logger")
    BY <1>11, <2>1 DEF Has
  <2> QED
    BY <1>12, <2>3, <2>4, <2>5, <2>6, <2>7 DEF s
<1>13. Steps(UnloadBpf) # {} /\ Steps(LoadBpf) # {} /\ One("start_mgr") # One("stop_mgr")
       /\ One("start_mgr") # One("stop_logger") /\ One("start_mgr") # One("start_logger")
  BY <1>11, UnloadFacts, LoadFacts DEF Sweeps, Has
<1> DEFINE Parts(A, U, L) ==
              /\ Good(Script[c], A, U, L)
              /\ One("start_mgr") \in A => c \in {"start", "restart", "start_mgr", "restart_mgr"}
              /\ c \in {"load", "unload", "reload", "start", "stop", "restart"} => U # {} \/ L # {}
              /\ c = "restart" => U # {} /\ L # {} /\ {One("stop_mgr"), One("stop_logger")} \subseteq A
<1>14. \E A, U, L : Parts(A, U, L)
  <2>1. CASE c = "load"
    <3>1. Parts({}, {}, Steps(LoadBpf))
      BY <1>3, <1>4, <1>10, <1>13, <2>1
    <3> QED BY <3>1
  <2>2. CASE c = "unload"
    <3>1. Parts({}, Steps(UnloadBpf), {})
      BY <1>3, <1>4, <1>10, <1>13, <2>2
    <3> QED BY <3>1
  <2>3. CASE c = "reload"
    <3>1. Segment(UnloadBpf \o LoadBpf, 0, 12)
      BY <1>3, <1>5, 2 \in Nat, 10 \in 0..12
    <3>2. Parts({}, Steps(UnloadBpf), Steps(LoadBpf))
      BY <1>5, <1>10, <1>13, <2>3, <3>1
    <3> QED BY <3>2
  <2>4. CASE c = "start"
    <3>1. Parts({One("start_logger"), One("start_mgr")}, {}, Steps(LoadBpf))
      BY <1>3, <1>7, <1>10, <1>13, <2>4
    <3> QED BY <3>1
  <2>5. CASE c = "stop"
    <3>1. Parts({One("stop_mgr"), One("stop_logger")}, Steps(UnloadBpf), {})
      BY <1>3, <1>6, <1>10, <1>13, <2>5
    <3> QED BY <3>1
  <2>6. CASE c = "restart"
    <3>1. Parts({One("stop_mgr"), One("stop_logger"), One("start_logger"), One("start_mgr")},
            Steps(UnloadBpf), Steps(LoadBpf))
      BY <1>6, <1>7, <1>8, <1>10, <1>13, <2>6
    <3> QED BY <3>1
  <2>7. CASE c \in {"start_mgr", "stop_mgr", "start_logger", "stop_logger"}
    <3>1. Parts({One(c)}, {}, {})
      BY <1>2, <1>3, <1>10, <1>13, <2>7
    <3> QED BY <3>1
  <2>8. CASE c = "restart_mgr"
    <3>1. Parts({One("stop_mgr"), One("start_mgr")}, {}, {})
      BY <1>9, <1>10, <2>8
    <3> QED BY <3>1
  <2>9. CASE c = "restart_logger"
    <3>1. Segment(Step("stop_logger") \o Step("start_logger"), 0, 12)
      BY <1>3, <1>9, 1 \in Nat, 11 \in 0..12
    <3>2. Parts({One("stop_logger"), One("start_logger")}, {}, {})
      BY <1>9, <1>10, <1>13, <2>9, <3>1
    <3> QED BY <3>2
  <2> HIDE DEF Parts
  <2>10. c \in {"load", "unload", "reload", "start", "stop", "restart", "start_mgr", "stop_mgr",
                "restart_mgr", "start_logger", "stop_logger", "restart_logger"}
    BY LifecycleAssumption
  <2> QED
    BY <2>1, <2>2, <2>3, <2>4, <2>5, <2>6, <2>7, <2>8, <2>9, <2>10
<1>15. PICK A, U, L : Parts(A, U, L)
  <2> HIDE DEF Parts
  <2> QED
    BY <1>14
<1>16. Segment(Script[c], 0, 12)
  BY <1>15
<1> HIDE DEF Good
<1> QED
  BY <1>12, <1>15, <1>16

-----------------------------------------------------------------------------
(* One step of a command *)

LEMMA Advance ==
    ASSUME LifeTypes, todo # <<>>, todo' = Tail(todo), cfg' = cfg
    PROVE  /\ Head(todo) \in StepType /\ StepOf(Head(todo))
           /\ todo' \in Seq(StepType) /\ Ordered(todo)' /\ IsScript(todo)'
           /\ \A op : Has(todo', op) => Has(todo, op)
           /\ \A op : Has(todo, op) => op = Head(todo).op \/ Has(todo', op)
           /\ \A op, d : HasOn(todo, op, d) =>
                (op = Head(todo).op /\ d = Head(todo).dev) \/ HasOn(todo', op, d)
           /\ \A op : Has(todo, op) => op \in Op /\ Rank[Head(todo).op] <= Rank[op]
           /\ \A op : Has(todo', op) /\ Head(todo).op \notin DevOp => Rank[Head(todo).op] < Rank[op]
           /\ Steps(todo') \subseteq Steps(todo)
<1> DEFINE h == Head(todo)
<1>1. /\ h \in StepType /\ todo' \in Seq(StepType) /\ Ordered(todo') /\ Steps(todo) = {h} \cup Steps(todo')
      /\ \A x \in Steps(todo') : Before(h, x)
  BY TailFacts DEF LifeTypes
<1>2. todo \in Seq(StepType) /\ \A x \in Steps(todo) : StepOf(x)
  BY DEF LifeTypes, IsScript
<1> HIDE DEF h
<1>3. \A x \in Steps(todo) : StepOf(x)'
  BY <1>2 DEF StepOf, ConfiguredDevs
<1>4. \A x \in Steps(todo) : x.op \in Op /\ Rank[x.op] \in Nat /\ Rank[h.op] \in Nat /\ Rank[h.op] <= Rank[x.op]
  BY <1>1, <1>2, RankType DEF Before
<1>5. ASSUME h.op \notin DevOp, NEW x \in Steps(todo') PROVE Rank[h.op] < Rank[x.op]
  BY <1>1, <1>2, <1>5 DEF Before, StepOf
<1>6. IsScript(todo)'
  BY <1>1, <1>3 DEF IsScript
<1>7. \A op : Has(todo, op) => op = h.op \/ Has(todo', op)
  BY <1>1 DEF Has
<1>8. \A op, d : HasOn(todo, op, d) => (op = h.op /\ d = h.dev) \/ HasOn(todo', op, d)
  BY <1>1 DEF HasOn
<1>9. \A op : Has(todo', op) => Has(todo, op)
  BY <1>1 DEF Has
<1>10. \A op : Has(todo, op) => op \in Op /\ Rank[h.op] <= Rank[op]
  BY <1>4 DEF Has
<1>11. \A op : Has(todo', op) /\ h.op \notin DevOp => Rank[h.op] < Rank[op]
  BY <1>5 DEF Has
<1> QED
  BY <1>1, <1>2, <1>6, <1>7, <1>8, <1>9, <1>10, <1>11 DEF h

LEMMA SameCfg ==
    ASSUME cfg' = cfg
    PROVE  XdpMaps' = XdpMaps /\ TcMaps' = TcMaps /\ ConfiguredDevs' = ConfiguredDevs
  BY DEF XdpMaps, TcMaps, ModeMaps, HasToken, LoadMode, ConfiguredDevs

LEMMA MapFacts ==
    /\ XdpMaps \subseteq MapName /\ "cfg" \in XdpMaps /\ "net" \notin XdpMaps
    /\ TcMaps = {"cfg", "net"} \cup (XdpMaps \cap {"dns"})
    /\ Nothing \in Refs /\ \A m \in MapName : Nothing[m] = 0
<1>1. ModeMaps(LoadMode) \subseteq {"dns", "syncookies"}
  BY DEF ModeMaps
<1>2. 0 \in Generation
  BY LifecycleAssumption DEF Generation
<1> QED
  BY <1>1, <1>2 DEF XdpMaps, TcMaps, MapName, Nothing, Refs

LEMMA NothingFacts ==
    ASSUME NEW r \in Refs, NEW N \in SUBSET MapName
    PROVE  /\ Restrict2(r, N) \in Refs
           /\ \A m \in MapName : Restrict2(r, N)[m] = IF m \in N THEN r[m] ELSE 0
           /\ (\A m \in MapName : r[m] = 0) => r = Nothing
<1>1. \A m \in MapName : r[m] \in Generation
  BY DEF Refs
<1>2. 0 \in Generation
  BY LifecycleAssumption DEF Generation
<1> QED
  BY <1>1, <1>2 DEF Refs, Nothing, Restrict2

LEMMA UserType == ASSUME LifeTypeOK PROVE Users \subseteq Refs
  BY DEF LifeTypeOK, Users

(* A user of maps takes them from another, or lets go of them. *)
Inherits == \A u \in Users' : \A m \in MapName : u[m] = 0 \/ \E v \in Users : v[m] = u[m]

LEMMA AgreeKept == ASSUME Agree(Users), Inherits PROVE Agree(Users')
  BY DEF Agree, Inherits

LEMMA SameTodo ==
    ASSUME LifeTypes, UNCHANGED <<todo, cfg, born, count>>
    PROVE  /\ todo' \in Seq(StepType) /\ Ordered(todo)' /\ IsScript(todo)' /\ born' = count'
           /\ todo' # <<>> => born' # 0
  BY DEF LifeTypes, IsScript, StepOf, ConfiguredDevs

(* The manager by itself *)
LEMMA MgrInv ==
    ASSUME LInv, MgrLocksPidfile \/ (\E m \in {"cfg", "net"} : MgrOpens(m)) \/ MgrDies
    PROVE  LInv'
<1>1. /\ UNCHANGED <<kernel, logger, control, todo, result, missed, stale, loaded>>
      /\ calm' = calm \/ calm' = FALSE
  BY DEF MgrLocksPidfile, MgrOpens, MgrDies, Fault
<1>2. /\ UNCHANGED <<pinned, progs, xdp, tcx, cfg, cmd, born, count>>
  BY <1>1 DEF kernel, control
<1>3. mgr.st # "none"
  BY DEF MgrLocksPidfile, MgrOpens, MgrDies
<1>4. /\ mgr' \in [st: {"none", "daemon", "locked", "up"}, maps: Refs, pidfile: {"default", "custom"}]
      /\ mgr'.st = "none" => mgr' = NoMgr
      /\ \A m \in MapName : mgr'.maps[m] \in {0, mgr.maps[m], pinned[m]}
  <2>1. mgr \in [st: {"none", "daemon", "locked", "up"}, maps: Refs, pidfile: {"default", "custom"}]
        /\ pinned \in Refs
    BY DEF LInv, LifeTypes, LifeTypeOK
  <2>2. NoMgr \in [st: {"none", "daemon", "locked", "up"}, maps: Refs, pidfile: {"default", "custom"}]
        /\ \A m \in MapName : NoMgr.maps[m] = 0
    BY MapFacts DEF NoMgr
  <2>3. CASE MgrLocksPidfile
    BY <2>1, <2>3 DEF MgrLocksPidfile
  <2>4. ASSUME NEW m \in {"cfg", "net"}, MgrOpens(m)
        PROVE  /\ mgr' \in [st: {"none", "daemon", "locked", "up"}, maps: Refs, pidfile: {"default", "custom"}]
               /\ mgr'.st = "none" => mgr' = NoMgr
               /\ \A n \in MapName : mgr'.maps[n] \in {0, mgr.maps[n], pinned[n]}
    <3>1. CASE mgr' = NoMgr
      BY <2>2, <3>1
    <3>2. CASE mgr' = [mgr EXCEPT !.maps[m] = pinned[m], !.st = IF m = "net" THEN "up" ELSE "locked"]
      <4>1. mgr'.maps = [mgr.maps EXCEPT ![m] = pinned[m]] /\ mgr'.st \in {"up", "locked"}
            /\ mgr'.pidfile = mgr.pidfile
        BY <2>1, <3>2
      <4>2. mgr'.maps \in Refs /\ \A n \in MapName : mgr'.maps[n] \in {mgr.maps[n], pinned[n]}
        BY <2>1, <4>1 DEF Refs, MapName
      <4>3. mgr' = [st |-> mgr'.st, maps |-> mgr'.maps, pidfile |-> mgr'.pidfile]
        BY <2>1, <3>2
      <4> QED
        BY <2>1, <4>1, <4>2, <4>3
    <3> QED
      BY <2>4, <3>1, <3>2 DEF MgrOpens
  <2>5. CASE MgrDies
    BY <2>2, <2>5 DEF MgrDies
  <2> QED
    BY <2>3, <2>4, <2>5
<1>5. faults' \in 0..MaxFaults
  BY LifecycleAssumption DEF MgrLocksPidfile, MgrOpens, MgrDies, Fault, LInv, LifeTypes, LifeTypeOK
<1>6. LifeTypes'
  <2>1. LifeTypeOK'
    BY <1>1, <1>2, <1>4, <1>5 DEF LInv, LifeTypes, LifeTypeOK
  <2> QED
    BY <1>1, <1>2, <1>4, <2>1, SameTodo DEF LInv, LifeTypes
<1>7. Inherits
  <2>1. mgr.maps \in Users /\ pinned \in Users
    BY DEF Users
  <2>2. \A u \in Users' : u \in Users \/ u = mgr'.maps
    BY <1>1, <1>2 DEF Users
  <2> QED
    BY <1>4, <2>1, <2>2 DEF Inherits
<1>8. Loaded'
  BY <1>1, <1>2, <1>7, AgreeKept DEF LInv, Loaded, Tells
<1>9. Shape' /\ Loading' /\ Unloading'
  <2>1. XdpMaps' = XdpMaps /\ ConfiguredDevs' = ConfiguredDevs
    BY <1>2, SameCfg
  <2>2. Shape'
    BY <1>1, <1>2 DEF LInv, Shape, Pending
  <2>3. Loading'
    BY <1>1, <1>2, <2>1 DEF LInv, Loading, Pending, XdpLoaded, Unpinned, From
  <2>4. Unloading'
    BY <1>1, <1>2, <2>1 DEF LInv, Unloading, Pending, Leaving, From
  <2> QED
    BY <2>2, <2>3, <2>4
<1>10. Restarting'
  <2> SUFFICES ASSUME cmd = "restart", calm, calm' PROVE Restarting'
    BY <1>1, <1>2 DEF Restarting
  <2>1. mgr # NoMgr
    BY <1>3 DEF NoMgr
  <2>2. mgr.st # "up"
    BY DEF MgrLocksPidfile, MgrOpens, MgrDies, Fault
  <2>3. result = "good" /\ loaded /\ From(11)
    BY <2>1, <2>2 DEF LInv, Restarting
  <2> QED
    BY <1>1, <2>3 DEF Restarting, From
<1> QED
  BY <1>6, <1>8, <1>9, <1>10 DEF LInv

(* The operator *)
LEMMA NoneLeft ==
    ASSUME todo = <<>>
    PROVE  Steps(todo) = {} /\ \A op : ~Pending(op)
  BY DEF Steps, Pending, Has

LEMMA KillInv == ASSUME LInv, Kill PROVE LInv'
<1>1. /\ todo' = <<>> /\ result' = "killed" /\ missed' = TRUE /\ calm' = FALSE
      /\ UNCHANGED <<pinned, progs, xdp, tcx, mgr, logger, cfg, cmd, born, count, stale, loaded>>
  BY DEF Kill, Fault, kernel, procs, control
<1>2. Steps(todo') = {} /\ \A op : ~Has(todo', op)
  BY <1>1 DEF Steps, Has
<1>3. faults' \in 0..MaxFaults
  BY LifecycleAssumption DEF Kill, Fault, LInv, LifeTypes, LifeTypeOK
<1>4. LifeTypes'
  <2>1. LifeTypeOK'
    BY <1>1, <1>3 DEF LInv, LifeTypes, LifeTypeOK
  <2>2. todo' \in Seq(StepType) /\ Ordered(todo)' /\ IsScript(todo)'
    BY <1>1, <1>2 DEF Ordered, IsScript
  <2> QED
    BY <1>1, <2>1, <2>2 DEF LInv, LifeTypes
<1>5. Loaded'
  BY <1>1 DEF LInv, Loaded, Tells, Users
<1> QED
  BY <1>1, <1>2, <1>4, <1>5 DEF LInv, Shape, Loading, Unloading, Restarting, Pending

LEMMA EditConfigInv == ASSUME LInv, NEW c \in Configs, EditConfig(c) PROVE LInv'
<1>1. /\ todo = <<>> /\ cfg' = c /\ missed' = TRUE /\ calm' = FALSE
      /\ UNCHANGED <<pinned, progs, xdp, tcx, mgr, logger, cmd, born, count, todo, result, faults, stale, loaded>>
  BY DEF EditConfig, kernel, procs, NoCommand
<1>2. Steps(todo') = {} /\ \A op : ~Has(todo', op)
  BY <1>1 DEF Steps, Has
<1>4. LifeTypes'
  <2>1. LifeTypeOK'
    BY <1>1 DEF LInv, LifeTypes, LifeTypeOK
  <2>2. todo' \in Seq(StepType) /\ Ordered(todo)' /\ IsScript(todo)'
    BY <1>1, <1>2 DEF Ordered, IsScript
  <2> QED
    BY <1>1, <2>1, <2>2 DEF LInv, LifeTypes
<1>5. Loaded'
  BY <1>1 DEF LInv, Loaded, Tells, Users
<1> QED
  BY <1>1, <1>2, <1>4, <1>5 DEF LInv, Shape, Loading, Unloading, Restarting, Pending

LEMMA IssueInv == ASSUME LInv, NEW c \in Commands, Issue(c) PROVE LInv'
<1>1. /\ todo = <<>> /\ count < MaxCommands /\ cmd' = c /\ count' = count + 1 /\ born' = born + 1
      /\ todo' = Script[c] /\ result' = "good" /\ calm' = Settled /\ missed' = FALSE
      /\ UNCHANGED <<pinned, progs, xdp, tcx, mgr, logger, cfg, faults, stale, loaded>>
  BY DEF Issue, kernel, procs, NoCommand
<1>2. cfg \in Configs /\ LifeTypeOK
  BY DEF LInv, LifeTypes, LifeTypeOK
<1>3. /\ Segment(todo', 0, 12) /\ Proper(todo')
      /\ Has(todo', "start_mgr") => c \in {"start", "restart", "start_mgr", "restart_mgr"}
      /\ c \in {"load", "unload", "reload", "start", "stop", "restart"} =>
           Has(todo', "maps_check") \/ Sweeps(todo')
      /\ c = "restart" => /\ Has(todo', "load_check") /\ Sweeps(todo')
                          /\ Has(todo', "stop_mgr") /\ Has(todo', "stop_logger")
  BY <1>1, <1>2, ScriptFacts
<1>4. LifeTypes'
  <2>1. born' \in Generation /\ count' \in 0..MaxCommands /\ born' = count' /\ born' # 0
    BY <1>1, LifecycleAssumption DEF LInv, LifeTypes, LifeTypeOK, Generation
  <2>2. calm' \in BOOLEAN
    BY <1>1 DEF Settled
  <2>3. LifeTypeOK'
    BY <1>1, <2>1, <2>2 DEF LInv, LifeTypes, LifeTypeOK
  <2>4. todo' \in Seq(StepType) /\ Ordered(todo)' /\ IsScript(todo)'
    BY <1>1, <1>3 DEF Segment, IsScript, StepOf, ConfiguredDevs
  <2> QED
    BY <1>1, <2>1, <2>3, <2>4 DEF LInv, LifeTypes
<1>5. Loaded'
  BY <1>1 DEF LInv, Loaded, Tells, Users
<1>6. Shape' /\ Loading'
  BY <1>1, <1>3 DEF Shape, Loading, Pending, Proper
<1>7. ConfiguredDevs' = ConfiguredDevs
  BY <1>1 DEF ConfiguredDevs
<1>8. Sweeps(todo') => Leaving'
  BY <1>7 DEF Sweeps, Leaving, Pending
<1>9. Unloading'
  BY <1>1, <1>3, <1>8 DEF Unloading, Pending
<1>10. Restarting'
  <2> SUFFICES ASSUME c = "restart", Settled PROVE Restarting'
    BY <1>1 DEF Restarting
  <2>1. Pending("load_check")' /\ Leaving' /\ Pending("stop_mgr")' /\ Pending("stop_logger")'
    BY <1>3, <1>8 DEF Pending
  <2>2. Others'
    BY <1>1, <1>7 DEF Others, Settled
  <2>3. mgr' = NoMgr \/ (mgr'.st = "up" /\ mgr'.pidfile = "default")
    BY <1>1 DEF Settled, LInv, LifeTypes
  <2> QED
    BY <1>1, <2>1, <2>2, <2>3 DEF Restarting
<1> QED
  BY <1>4, <1>5, <1>6, <1>9, <1>10 DEF LInv

LEMMA InitLInv == ASSUME LifeInit PROVE LInv
<1>1. Steps(todo) = {} /\ \A op : ~Has(todo, op)
  BY DEF LifeInit, Steps, Has
<1>2. LifeTypes
  <2>1. NoMgr \in [st: {"none", "daemon", "locked", "up"}, maps: Refs, pidfile: {"default", "custom"}]
    BY MapFacts DEF NoMgr
  <2>2. LifeTypeOK
    <3>1. /\ progs \in [{"xdp", "tc"} -> Refs] /\ xdp \in [Devs -> Refs] /\ tcx \in [Devs -> Refs]
          /\ pinned \in Refs /\ logger \in Refs
      BY MapFacts DEF LifeInit
    <3>2. born \in Generation /\ count \in 0..MaxCommands /\ faults \in 0..MaxFaults
      BY LifecycleAssumption DEF LifeInit, Generation
    <3> QED
      BY <2>1, <3>1, <3>2 DEF LifeInit, LifeTypeOK
  <2>3. todo \in Seq(StepType) /\ Ordered(todo) /\ IsScript(todo)
    BY <1>1 DEF LifeInit, Ordered, IsScript
  <2> QED
    BY <2>2, <2>3 DEF LifeInit, LifeTypes
<1> QED
  BY <1>1, <1>2 DEF LifeInit, LInv, Shape, Loading, Loaded, Unloading, Restarting, Pending

-----------------------------------------------------------------------------
(* Steps of a command that succeed *)

Pops(op) == /\ todo # <<>> /\ Head(todo).op = op /\ todo' = Tail(todo)
            /\ UNCHANGED <<cfg, cmd, born, count, result>>

LEMMA FaultType ==
    ASSUME LifeTypeOK, UNCHANGED <<faults, calm>> \/ Fault
    PROVE  faults' \in 0..MaxFaults /\ calm' \in BOOLEAN /\ (calm' => calm)
<1>1. faults' \in 0..MaxFaults
  BY LifecycleAssumption DEF Fault, LifeTypeOK
<1>2. calm' \in BOOLEAN /\ (calm' => calm)
  <2>1. calm \in BOOLEAN
    BY DEF LifeTypeOK
  <2>2. calm' = calm \/ calm' = FALSE
    BY DEF Fault
  <2>3. CASE calm' = calm
    BY <2>1, <2>3, Zenon
  <2>4. CASE calm' = FALSE
    BY <2>4, Zenon
  <2> QED
    BY <2>2, <2>3, <2>4
<1> QED
  BY <1>1, <1>2

LEMMA PopTypes ==
    ASSUME LifeTypes, NEW op, Pops(op)
    PROVE  /\ todo' \in Seq(StepType) /\ Ordered(todo)' /\ IsScript(todo)' /\ born' = count'
           /\ (todo' # <<>> => born' # 0) /\ born # 0 /\ op \in Op
           /\ cfg' \in Configs /\ cfg \in Configs
<1>1. Head(todo) \in StepType /\ todo' \in Seq(StepType) /\ Ordered(todo)' /\ IsScript(todo)'
  BY Advance DEF Pops
<1>2. Head(todo).op \in Op
  BY <1>1 DEF StepType
<1> QED
  BY <1>1, <1>2 DEF Pops, LifeTypes, LifeTypeOK

LEMMA PopPending ==
    ASSUME LifeTypes, NEW op, Pops(op)
    PROVE  /\ \A o : Pending(o)' => Pending(o)
           /\ \A o : Pending(o) => o = op \/ Pending(o)'
           /\ \A o : Pending(o) => o \in Op /\ Rank[op] <= Rank[o]
           /\ \A o : Pending(o)' /\ op \notin DevOp => Rank[op] < Rank[o]
           /\ Pending(op)
           /\ \A n : From(n) => From(n)'
           /\ \A n \in Nat : From(n) => n <= Rank[op]
<1>1. todo' = Tail(todo) /\ todo # <<>> /\ op = Head(todo).op /\ cfg' = cfg
  BY DEF Pops
<1>2. Has(todo, op)
  <2>1. Head(todo) \in Steps(todo)
    BY <1>1, TailFacts DEF LifeTypes
  <2> QED
    BY <1>1, <2>1 DEF Has
<1>3. /\ \A o : Has(todo', o) => Has(todo, o)
      /\ \A o : Has(todo, o) => o = op \/ Has(todo', o)
      /\ \A o : Has(todo, o) => o \in Op /\ Rank[op] <= Rank[o]
      /\ \A o : Has(todo', o) /\ op \notin DevOp => Rank[op] < Rank[o]
      /\ Steps(todo') \subseteq Steps(todo)
  BY <1>1, Advance
<1>4. \A n : From(n) => From(n)'
  BY <1>3 DEF From
<1>5. \A n \in Nat : From(n) => n <= Rank[op]
  BY <1>2 DEF From, Has
<1> QED
  BY <1>2, <1>3, <1>4, <1>5 DEF Pending

LEMMA PopShape ==
    ASSUME LifeTypes, Shape, NEW op, Pops(op), loaded' => loaded \/ op = "maps_check",
           op = "unload_xdp" => ~loaded'
    PROVE  Shape'
<1>1. Rank[op] \in Nat /\ op \in Op
  BY PopTypes, RankFacts
<1>2. ASSUME NEW o \in {"load_check", "load_xdp", "load_tc", "attach_xdp", "attach_tc"}, Pending(o)'
      PROVE  Pending("maps_check")'
  <2>1. Pending("maps_check")
    BY <1>2, PopPending DEF Shape
  <2>2. op # "maps_check"
    <3> SUFFICES ASSUME op = "maps_check" PROVE FALSE
      OBVIOUS
    <3>1. 10 < Rank[o]
      BY <1>2, PopPending, RankFacts DEF DevOp
    <3> QED
      BY <3>1, RankFacts
  <2> QED
    BY <2>1, <2>2, PopPending
<1>3. Pending("start_mgr")' => cmd' \in {"start", "restart", "start_mgr", "restart_mgr"}
  BY PopPending DEF Shape, Pops
<1>4. Pending("maps_clean")' => Pending("unload_xdp")' \/ ~loaded'
  <2> SUFFICES ASSUME Pending("maps_clean")', loaded' PROVE Pending("unload_xdp")'
    OBVIOUS
  <2>1. op # "maps_check"
    <3> SUFFICES ASSUME op = "maps_check" PROVE FALSE
      OBVIOUS
    <3>1. 10 < Rank["maps_clean"]
      BY PopPending, RankFacts DEF DevOp
    <3> QED
      BY <3>1, RankFacts
  <2> QED
    BY <2>1, PopPending DEF Shape
<1> QED
  BY <1>2, <1>3, <1>4 DEF Shape

(* What was loaded stays as it is once the clean-up is through. *)
LEMMA PopLoading ==
    ASSUME LifeTypes, Loading, NEW op, Pops(op),
           op \notin {"load_check", "load_xdp", "load_tc", "maps_check"},
           Rank[op] < 6 \/ UNCHANGED <<pinned, progs, stale, loaded>>
    PROVE  Loading'
<1>1. Rank[op] \in Nat /\ op \in Op
  BY PopTypes, RankFacts
<1>2. CASE Rank[op] < 6
  <2>1. ~From(7) /\ ~From(8) /\ ~From(9)
    BY <1>1, <1>2, PopPending
  <2> QED
    BY <2>1, PopPending DEF Loading
<1>3. CASE UNCHANGED <<pinned, progs, stale, loaded>>
  <2>1. XdpMaps' = XdpMaps
    BY SameCfg DEF Pops
  <2>2. XdpLoaded => XdpLoaded'
    BY <1>3, <2>1 DEF XdpLoaded, Unpinned
  <2>3. Unpinned("dns") => Unpinned("dns")'
    BY <1>3, <2>1 DEF Unpinned
  <2> QED
    BY <1>3, <2>2, <2>3, PopPending DEF Loading
<1> QED
  BY <1>2, <1>3

LEMMA PopLeaving ==
    ASSUME LifeTypes, Leaving, NEW op, Pops(op), UNCHANGED <<pinned, progs, xdp, tcx>>,
           op \notin {"detach_xdp", "detach_tc", "unload_tc", "unload_xdp", "maps_clean"}
    PROVE  Leaving'
<1>1. ConfiguredDevs' = ConfiguredDevs
  BY SameCfg DEF Pops
<1>2. \A o, d : HasOn(todo, o, d) => o = op \/ HasOn(todo', o, d)
  BY Advance DEF Pops
<1> QED
  BY <1>1, <1>2, PopPending DEF Leaving

LEMMA PopUnloading ==
    ASSUME LifeTypes, Unloading, NEW op, Pops(op), UNCHANGED <<pinned, progs, xdp, tcx, loaded, missed>>,
           op \notin {"detach_xdp", "detach_tc", "unload_tc", "unload_xdp", "maps_clean", "maps_check"}
    PROVE  Unloading'
  BY PopPending, PopLeaving DEF Unloading, Pops

(* Leaving a command after its clean-up *)
CleanUps == {UnloadBpf, Step("stop_logger") \o UnloadBpf}

LEMMA CleanUpFacts ==
    ASSUME cfg \in Configs, NEW s \in CleanUps
    PROVE  /\ Segment(s, 1, 5) /\ Sweeps(s)
           /\ \A x \in Steps(s) : x.op \in {"stop_logger", "detach_xdp", "detach_tc", "unload_tc",
                                            "unload_xdp", "maps_clean"}
<1> DEFINE t == Step("stop_logger") \o UnloadBpf
<1>1. "stop_logger" \in Op \ DevOp /\ Rank["stop_logger"] = 1
  BY RankFacts DEF DevOp
<1>2. Segment(Step("stop_logger"), 1, 1) /\ Steps(Step("stop_logger")) = {[op |-> "stop_logger", dev |-> NoDev]}
  BY <1>1, SegmentStep
<1>3. Segment(UnloadBpf, 2, 5)
  BY UnloadFacts
<1>4. Segment(t, 1, 5) /\ Steps(t) = {[op |-> "stop_logger", dev |-> NoDev]} \cup Steps(UnloadBpf)
  BY <1>2, <1>3, SegmentJoin
<1>5. Segment(UnloadBpf, 1, 5)
  BY <1>3, RankType DEF Segment
<1> HIDE DEF t
<1>6. s = UnloadBpf \/ s = t
  BY DEF CleanUps, t
<1>7. Sweeps(t)
  BY <1>4, UnloadFacts DEF Sweeps, Has, HasOn
<1>8. [op |-> "stop_logger", dev |-> NoDev].op = "stop_logger"
  OBVIOUS
<1>9. \A x \in Steps(t) : x.op \in {"stop_logger", "detach_xdp", "detach_tc", "unload_tc",
                                    "unload_xdp", "maps_clean"}
  BY <1>4, <1>8, UnloadFacts
<1>10. CASE s = t
  BY <1>4, <1>7, <1>9, <1>10
<1>11. CASE s = UnloadBpf
  BY <1>5, <1>11, UnloadFacts
<1> QED
  BY <1>6, <1>10, <1>11

LEMMA ExitInv ==
    ASSUME LifeTypes, todo # <<>>, todo' \in CleanUps, cfg' = cfg, cmd' = cmd, born' = born, count' = count,
           LifeTypeOK', mgr' = mgr, Loaded', cmd = "restart" => ~calm'
    PROVE  LInv'
<1>1. cfg \in Configs
  BY DEF LifeTypes, LifeTypeOK
<1>2. /\ Segment(todo', 1, 5) /\ Sweeps(todo')
      /\ \A x \in Steps(todo') : x.op \in {"stop_logger", "detach_xdp", "detach_tc", "unload_tc",
                                           "unload_xdp", "maps_clean"}
  BY <1>1, CleanUpFacts
<1>3. ConfiguredDevs' = ConfiguredDevs
  BY SameCfg
<1>4. LifeTypes'
  <2>1. todo' \in Seq(StepType) /\ Ordered(todo)' /\ IsScript(todo)'
    BY <1>2, <1>3 DEF Segment, IsScript, StepOf
  <2> QED
    BY <2>1 DEF LifeTypes
<1>5. /\ \A op \in {"load_check", "load_xdp", "load_tc", "attach_xdp", "attach_tc", "maps_check", "start_mgr"} :
           ~Pending(op)'
      /\ Pending("unload_xdp")'
  BY <1>2 DEF Pending, Has, Sweeps
<1>6. Shape' /\ Loading'
  BY <1>5 DEF Shape, Loading
<1>7. Leaving'
  BY <1>2, <1>3 DEF Leaving, Sweeps, Pending
<1>8. Unloading' /\ Restarting'
  BY <1>7 DEF Unloading, Restarting
<1> QED
  BY <1>4, <1>6, <1>8 DEF LInv

(* The processes *)
LEMMA LoadedKept ==
    ASSUME Loaded, UNCHANGED <<pinned, progs, stale>>, loaded' => loaded, Inherits
    PROVE  Loaded'
  BY AgreeKept DEF Loaded, Tells

LEMMA ProcsInherit ==
    ASSUME UNCHANGED <<pinned, progs, xdp, tcx>>,
           \A m \in MapName : mgr'.maps[m] \in {0, mgr.maps[m], pinned[m]},
           \A m \in MapName : logger'[m] \in {0, logger[m], pinned[m]}
    PROVE  Inherits
<1>1. mgr.maps \in Users /\ pinned \in Users /\ logger \in Users
  BY DEF Users
<1>2. \A u \in Users' : u \in Users \/ u = mgr'.maps \/ u = logger'
  BY DEF Users
<1> QED
  BY <1>1, <1>2 DEF Inherits

LEMMA StopMgrInv == ASSUME LInv, StopMgr PROVE LInv'
<1>1. /\ Pops("stop_mgr")
      /\ mgr' = IF mgr.st \in {"locked", "up"} /\ mgr.pidfile = "default" THEN NoMgr ELSE mgr
      /\ UNCHANGED <<pinned, progs, xdp, tcx, logger, faults, calm, missed, stale, loaded>>
  BY DEF StopMgr, Proceed, At, Pops, kernel, control
<1>2. Rank["stop_mgr"] = 0 /\ "stop_mgr" \notin DevOp
  BY RankFacts DEF DevOp
<1>3. NoMgr \in [st: {"none", "daemon", "locked", "up"}, maps: Refs, pidfile: {"default", "custom"}]
      /\ \A m \in MapName : NoMgr.maps[m] = 0
  BY MapFacts DEF NoMgr
<1>4. LifeTypes'
  <2>1. LifeTypeOK'
    BY <1>1, <1>3 DEF LInv, LifeTypes, LifeTypeOK, Pops
  <2> QED
    BY <1>1, <2>1, PopTypes DEF LInv, LifeTypes, NoMgr
<1>5. Inherits
  BY <1>1, <1>3, ProcsInherit
<1>6. Loaded'
  BY <1>1, <1>5, LoadedKept DEF LInv
<1>7. Shape' /\ Loading' /\ Unloading'
  BY <1>1, <1>2, PopShape, PopLoading, PopUnloading DEF LInv
<1>8. Restarting'
  <2> SUFFICES ASSUME cmd = "restart", calm PROVE Restarting'
    BY <1>1 DEF Restarting, Pops
  <2>1. ~From(7) /\ ~From(8) /\ ~From(9) /\ ~From(11)
    BY <1>1, <1>2, PopPending DEF LInv
  <2>2. /\ result = "good" /\ Pending("load_check") /\ Leaving /\ Others
        /\ mgr = NoMgr \/ (Pending("stop_mgr") /\ mgr.st = "up" /\ mgr.pidfile = "default")
        /\ logger = Nothing \/ Pending("stop_logger")
    BY <2>1 DEF LInv, Restarting
  <2>3. mgr' = NoMgr
    BY <1>1, <2>2 DEF NoMgr
  <2>4. Leaving'
    BY <1>1, <2>2, PopLeaving DEF LInv
  <2>5. Pending("load_check")' /\ (logger' = Nothing \/ Pending("stop_logger")') /\ result' = "good"
    BY <1>1, <2>2, PopPending DEF LInv, Pops
  <2>6. Others'
    BY <1>1, <2>2, SameCfg DEF Others, Pops
  <2> QED
    BY <2>3, <2>4, <2>5, <2>6 DEF Restarting
<1> QED
  BY <1>4, <1>6, <1>7, <1>8 DEF LInv

LEMMA StopLoggerInv == ASSUME LInv, StopLogger PROVE LInv'
<1>1. /\ Pops("stop_logger")
      /\ logger' \in {Nothing, logger} /\ (calm' => calm /\ logger' = Nothing)
      /\ UNCHANGED <<pinned, progs, xdp, tcx, mgr, missed, stale, loaded>>
  BY DEF StopLogger, At, Pops, kernel, control, Fault
<1>2. Rank["stop_logger"] = 1 /\ "stop_logger" \notin DevOp
  BY RankFacts DEF DevOp
<1>3. faults' \in 0..MaxFaults /\ calm' \in BOOLEAN
  BY FaultType DEF StopLogger, LInv, LifeTypes
<1>4. LifeTypes'
  <2>1. LifeTypeOK'
    BY <1>1, <1>3, MapFacts DEF LInv, LifeTypes, LifeTypeOK, Pops
  <2> QED
    BY <1>1, <2>1, PopTypes DEF LInv, LifeTypes
<1>5. Inherits
  BY <1>1, MapFacts, ProcsInherit
<1>6. Loaded'
  BY <1>1, <1>5, LoadedKept DEF LInv
<1>7. Shape' /\ Loading' /\ Unloading'
  BY <1>1, <1>2, PopShape, PopLoading, PopUnloading DEF LInv
<1>8. Restarting'
  <2> SUFFICES ASSUME cmd = "restart", calm' PROVE Restarting'
    BY <1>1 DEF Restarting, Pops
  <2>1. ~From(7) /\ ~From(8) /\ ~From(9) /\ ~From(11)
    BY <1>1, <1>2, PopPending DEF LInv
  <2>2. /\ result = "good" /\ Pending("load_check") /\ Leaving /\ Others
        /\ mgr = NoMgr \/ (Pending("stop_mgr") /\ mgr.st = "up" /\ mgr.pidfile = "default")
    BY <1>1, <2>1 DEF LInv, Restarting
  <2>3. Leaving'
    BY <1>1, <2>2, PopLeaving DEF LInv
  <2>4. Pending("load_check")' /\ (Pending("stop_mgr") => Pending("stop_mgr")') /\ result' = "good"
    BY <1>1, <2>2, PopPending DEF LInv, Pops
  <2>5. Others'
    BY <1>1, <2>2, SameCfg DEF Others, Pops
  <2> QED
    BY <1>1, <2>2, <2>3, <2>4, <2>5 DEF Restarting
<1> QED
  BY <1>4, <1>6, <1>7, <1>8 DEF LInv

(* After the load nothing is pending that a restart depends on. *)
LEMMA StartedRestart ==
    ASSUME LifeTypes, Restarting, NEW op \in {"start_logger", "start_mgr"}, Pops(op), loaded' = loaded, calm' => calm
    PROVE  Restarting'
<1> SUFFICES ASSUME cmd = "restart", calm' PROVE Restarting'
  BY DEF Restarting, Pops
<1>1. Rank[op] \in {11, 12}
  BY RankFacts
<1>2. \A o \in {"load_check", "load_xdp", "load_tc", "maps_check"} : ~Pending(o)
  BY <1>1, PopPending, RankFacts
<1>3. result = "good" /\ loaded /\ From(11)
  BY <1>2 DEF Restarting
<1>4. From(11)' /\ result' = "good"
  BY <1>3, PopPending DEF Pops
<1> QED
  BY <1>3, <1>4 DEF Restarting

LEMMA StartLoggerInv == ASSUME LInv, StartLogger PROVE LInv'
<1>1. /\ Pops("start_logger")
      /\ logger' \in {logger, Restrict2(pinned, {"cfg"})} /\ (calm' => calm)
      /\ UNCHANGED <<pinned, progs, xdp, tcx, mgr, missed, stale, loaded>>
  BY DEF StartLogger, At, Pops, kernel, control, Fault
<1>2. "start_logger" \notin DevOp
  BY DEF DevOp
<1>3. faults' \in 0..MaxFaults /\ calm' \in BOOLEAN
  BY FaultType DEF StartLogger, LInv, LifeTypes
<1>4. pinned \in Refs /\ {"cfg"} \subseteq MapName
  BY DEF LInv, LifeTypes, LifeTypeOK, MapName
<1>5. LifeTypes'
  <2>1. logger' \in Refs
    BY <1>1, <1>4, NothingFacts DEF LInv, LifeTypes, LifeTypeOK
  <2>2. LifeTypeOK'
    BY <1>1, <1>3, <2>1 DEF LInv, LifeTypes, LifeTypeOK, Pops
  <2> QED
    BY <1>1, <2>2, PopTypes DEF LInv, LifeTypes
<1>6. Inherits
  <2>1. \A m \in MapName : logger'[m] \in {0, logger[m], pinned[m]}
    BY <1>1, <1>4, NothingFacts
  <2> QED
    BY <1>1, <2>1, ProcsInherit
<1>7. Loaded'
  BY <1>1, <1>6, LoadedKept DEF LInv
<1>8. Shape' /\ Loading' /\ Unloading'
  BY <1>1, <1>2, PopShape, PopLoading, PopUnloading DEF LInv
<1>9. Restarting'
  BY <1>1, StartedRestart DEF LInv
<1> QED
  BY <1>5, <1>7, <1>8, <1>9 DEF LInv

LEMMA StartMgrInv == ASSUME LInv, StartMgr PROVE LInv'
<1>1. /\ At("start_mgr") /\ UNCHANGED <<pinned, progs, xdp, tcx, logger, cfg, cmd, born, count, missed, stale, loaded>>
      /\ \/ Proceed /\ mgr' \in {mgr, [st |-> "daemon", maps |-> Nothing, pidfile |-> cfg.pidfile]}
         \/ /\ Fault /\ UNCHANGED mgr
            /\ Exit(IF cmd \in {"start", "restart"} THEN Step("stop_logger") \o UnloadBpf ELSE <<>>)
  BY DEF StartMgr, kernel, control
<1>2. cfg \in Configs /\ LifeTypeOK /\ LifeTypes /\ Loaded
  BY DEF LInv, LifeTypes, LifeTypeOK
<1>3. /\ mgr' \in [st: {"none", "daemon", "locked", "up"}, maps: Refs, pidfile: {"default", "custom"}]
      /\ mgr'.st = "none" => mgr' = NoMgr
      /\ \A m \in MapName : mgr'.maps[m] \in {0, mgr.maps[m], pinned[m]}
  <2>1. CASE mgr' = mgr
    BY <1>2, <2>1 DEF LifeTypes, LifeTypeOK
  <2>2. CASE mgr' = [st |-> "daemon", maps |-> Nothing, pidfile |-> cfg.pidfile]
    BY <1>2, <2>2, CfgFacts, MapFacts
  <2> QED
    BY <1>1, <2>1, <2>2
<1>4. faults' \in 0..MaxFaults /\ calm' \in BOOLEAN /\ (calm' => calm)
  BY <1>1, <1>2, FaultType DEF Proceed
<1>5. Inherits
  BY <1>1, <1>3, ProcsInherit
<1>6. Loaded'
  BY <1>1, <1>2, <1>5, LoadedKept
<1>7. CASE Proceed
  <2>1. Pops("start_mgr")
    BY <1>1, <1>7 DEF Proceed, Pops, At
  <2>2. LifeTypes'
    <3>1. LifeTypeOK'
      BY <1>1, <1>2, <1>3, <1>4, <2>1 DEF LifeTypeOK, Pops
    <3> QED
      BY <1>2, <1>3, <2>1, <3>1, PopTypes DEF LifeTypes
  <2>3. Shape' /\ Loading' /\ Unloading'
    BY <1>1, <2>1, PopShape, PopLoading, PopUnloading DEF LInv
  <2>4. Restarting'
    BY <1>1, <1>4, <2>1, StartedRestart DEF LInv
  <2> QED
    BY <1>6, <2>2, <2>3, <2>4 DEF LInv
<1>8. CASE ~Proceed
  <2>1. /\ Exit(IF cmd \in {"start", "restart"} THEN Step("stop_logger") \o UnloadBpf ELSE <<>>)
        /\ calm' = FALSE /\ mgr' = mgr
    BY <1>1, <1>8 DEF Fault
  <2>2. LifeTypeOK'
    BY <1>1, <1>2, <1>3, <1>4, <2>1 DEF LifeTypeOK, Exit
  <2>3. CASE cmd \in {"start", "restart"}
    <3>1. todo # <<>> /\ todo' \in CleanUps
      BY <1>1, <2>1, <2>3 DEF At, Exit, CleanUps
    <3> QED
      BY <1>1, <1>2, <1>6, <2>1, <2>2, <3>1, ExitInv
  <2>4. CASE cmd \notin {"start", "restart"}
    <3>1. todo' = <<>>
      BY <2>1, <2>4 DEF Exit
    <3>2. Steps(todo') = {} /\ \A op : ~Has(todo', op)
      BY <3>1 DEF Steps, Has
    <3>3. LifeTypes'
      <4>1. todo' \in Seq(StepType) /\ Ordered(todo)' /\ IsScript(todo)'
        BY <3>1, <3>2 DEF Ordered, IsScript
      <4> QED
        BY <1>1, <1>2, <2>1, <2>2, <3>1, <4>1 DEF LifeTypes
    <3>4. Pending("start_mgr")
      <4>1. todo # <<>> /\ Head(todo).op = "start_mgr"
        BY <1>1 DEF At
      <4>2. Head(todo) \in Steps(todo)
        BY <1>2, <4>1, TailFacts DEF LifeTypes
      <4> QED
        BY <4>1, <4>2 DEF Pending, Has
    <3>5. cmd \in {"start_mgr", "restart_mgr"}
      BY <2>4, <3>4 DEF LInv, Shape
    <3> QED
      BY <1>1, <1>6, <3>2, <3>3, <3>5 DEF LInv, Shape, Loading, Unloading, Restarting, Pending
  <2> QED
    BY <2>3, <2>4
<1> QED
  BY <1>7, <1>8

(* The load *)
LEMMA FromNext ==
    ASSUME LifeTypes, NEW op, Pops(op), op \notin DevOp, NEW n \in Nat, Rank[op] = n
    PROVE  From(n + 1)'
<1> SUFFICES ASSUME NEW x \in Steps(todo') PROVE n + 1 <= Rank[x.op]
  BY DEF From
<1>1. Has(todo', x.op)
  BY DEF Has
<1>2. Rank[op] < Rank[x.op]
  BY <1>1, PopPending DEF Pending
<1>3. Rank[x.op] \in Nat
  BY PopTypes, RankType
<1> QED
  BY <1>2, <1>3

LEMMA LoadCheckInv == ASSUME LInv, LoadCheck PROVE LInv'
<1> DEFINE free == /\ progs["xdp"] = Nothing
                   /\ \A d \in ConfiguredDevs : xdp[d] = Nothing /\ tcx[d] = Nothing
<1>1. /\ At("load_check")
      /\ IF free THEN Proceed ELSE todo' = <<>> /\ result' = "refused" /\ UNCHANGED <<faults, calm>>
      /\ UNCHANGED <<pinned, progs, xdp, tcx, mgr, logger, cfg, cmd, born, count, missed, stale, loaded>>
  BY DEF LoadCheck, kernel, procs, control
<1>2. Rank["load_check"] = 6 /\ "load_check" \notin DevOp
  BY RankFacts DEF DevOp
<1>3. LifeTypes /\ LifeTypeOK
  BY DEF LInv, LifeTypes
<1>4. Loaded'
  BY <1>1 DEF LInv, Loaded, Tells, Users
<1>5. \A o : Pending(o) => 6 <= Rank[o]
  <2>1. todo # <<>> /\ Head(todo).op = "load_check"
    BY <1>1 DEF At
  <2>2. ASSUME NEW x \in Steps(todo) PROVE 6 <= Rank[x.op]
    <3>1. x = Head(todo) \/ Before(Head(todo), x)
      BY <1>3, <2>1, TailFacts DEF LifeTypes
    <3>2. Rank[x.op] \in Nat
      BY <1>3, RankType DEF LifeTypes
    <3> QED
      BY <1>2, <2>1, <3>1, <3>2 DEF Before
  <2> QED
    BY <2>2 DEF Pending, Has
<1>6. Leaving => Unloaded /\ free
  <2>1. ~Pending("maps_clean") /\ ~Pending("unload_xdp") /\ ~Pending("unload_tc")
        /\ ~Pending("detach_xdp") /\ ~Pending("detach_tc")
    BY <1>5, RankFacts
  <2>2. \A d : ~HasOn(todo, "detach_xdp", d) /\ ~HasOn(todo, "detach_tc", d)
    BY <2>1 DEF Pending, Has, HasOn
  <2>3. DOMAIN progs = {"xdp", "tc"}
    BY <1>3 DEF LifeTypeOK
  <2> QED
    BY <2>1, <2>2, <2>3 DEF Leaving, Unloaded
<1>7. (cmd = "restart" /\ calm) =>
        /\ result = "good" /\ Pending("load_check") /\ Unloaded /\ free /\ Others /\ mgr = NoMgr /\ logger = Nothing
  <2> SUFFICES ASSUME cmd = "restart", calm
               PROVE  /\ result = "good" /\ Pending("load_check") /\ Unloaded /\ free /\ Others
                      /\ mgr = NoMgr /\ logger = Nothing
    OBVIOUS
  <2>1. Pending("load_check")
    <3>1. todo # <<>> /\ Head(todo).op = "load_check"
      BY <1>1 DEF At
    <3>2. Head(todo) \in Steps(todo)
      BY <1>3, <3>1, TailFacts DEF LifeTypes
    <3> QED
      BY <3>1, <3>2 DEF Pending, Has
  <2>2. ~From(7) /\ ~From(8) /\ ~From(9) /\ ~From(11)
    BY <1>2, <2>1 DEF From, Pending, Has
  <2>3. ~Pending("stop_mgr") /\ ~Pending("stop_logger")
    BY <1>5, RankFacts
  <2> QED
    BY <1>6, <2>1, <2>2, <2>3 DEF LInv, Restarting
<1>8. CASE free
  <2>1. Pops("load_check") /\ UNCHANGED <<faults, calm>>
    BY <1>1, <1>8 DEF Proceed, Pops, At
  <2>2. LifeTypes'
    <3>1. LifeTypeOK'
      BY <1>1, <1>3, <2>1 DEF LifeTypeOK, Pops
    <3> QED
      BY <1>1, <1>3, <2>1, <3>1, PopTypes DEF LifeTypes
  <2>3. Shape' /\ Unloading'
    BY <1>1, <1>3, <2>1, PopShape, PopUnloading DEF LInv
  <2>4. From(7)'
    BY <1>2, <1>3, <2>1, FromNext
  <2>5. ~loaded
    BY <1>8 DEF LInv, Loaded
  <2>6. Loading'
    <3>1. ~From(8) /\ ~From(9)
      BY <1>2, <1>3, <2>1, PopPending
    <3> QED
      BY <1>1, <1>3, <2>1, <2>4, <2>5, <3>1, PopPending DEF LInv, Loading
  <2>7. Restarting'
    <3> SUFFICES ASSUME cmd = "restart", calm PROVE Restarting'
      BY <1>1, <2>1 DEF Restarting
    <3>1. Pending("load_xdp")'
      <4>1. Pending("maps_check") /\ ~From(8) /\ ~From(9)
        BY <1>2, <1>3, <1>7, <2>1, PopPending DEF LInv, Shape
      <4>2. Pending("load_xdp")
        BY <4>1 DEF LInv, Loading
      <4> QED
        BY <1>3, <2>1, <4>2, PopPending
    <3>2. Unloaded' /\ Others'
      BY <1>1, <1>7, SameCfg DEF Unloaded, Others
    <3> QED
      BY <1>1, <1>7, <2>1, <2>4, <3>1, <3>2 DEF Restarting, Pops
  <2> QED
    BY <1>4, <2>2, <2>3, <2>6, <2>7 DEF LInv
<1>9. CASE ~free
  <2>1. todo' = <<>> /\ result' = "refused" /\ UNCHANGED <<faults, calm>>
    BY <1>1, <1>9
  <2>2. Steps(todo') = {} /\ \A op : ~Has(todo', op)
    BY <2>1 DEF Steps, Has
  <2>3. LifeTypes'
    <3>1. LifeTypeOK'
      BY <1>1, <1>3, <2>1 DEF LifeTypeOK
    <3>2. todo' \in Seq(StepType) /\ Ordered(todo)' /\ IsScript(todo)'
      BY <2>1, <2>2 DEF Ordered, IsScript
    <3> QED
      BY <1>1, <1>3, <2>1, <3>1, <3>2 DEF LifeTypes
  <2>4. ~(cmd = "restart" /\ calm)
    BY <1>7, <1>9
  <2> QED
    BY <1>1, <1>4, <2>1, <2>2, <2>3, <2>4 DEF LInv, Shape, Loading, Unloading, Restarting, Pending
<1> QED
  BY <1>8, <1>9

LEMMA Heads ==
    ASSUME LifeTypes, NEW op, At(op)
    PROVE  /\ todo # <<>> /\ Pending(op) /\ op \in Op /\ Rank[op] \in Nat /\ born # 0
           /\ \A o : Pending(o) => Rank[op] <= Rank[o]
           /\ \A n \in Nat : From(n) => n <= Rank[op]
<1>1. todo # <<>> /\ Head(todo).op = op
  BY DEF At
<1>2. Head(todo) \in Steps(todo) /\ \A x \in Steps(todo) : x = Head(todo) \/ Before(Head(todo), x)
  BY <1>1, TailFacts DEF LifeTypes
<1>3. \A x \in Steps(todo) : x.op \in Op /\ Rank[x.op] \in Nat
  BY RankType DEF LifeTypes
<1>4. \A x \in Steps(todo) : Rank[op] <= Rank[x.op]
  BY <1>1, <1>2, <1>3 DEF Before
<1> QED
  BY <1>1, <1>2, <1>3, <1>4 DEF Pending, Has, From, LifeTypes

LEMMA AfterLoadFacts ==
    ASSUME LifeTypeOK, NEW N \in SUBSET MapName
    PROVE  /\ AfterLoad(N) \in Refs
           /\ \A m \in MapName : AfterLoad(N)[m] = IF m \in N /\ pinned[m] = 0 THEN born ELSE pinned[m]
<1>1. \A m \in MapName : pinned[m] \in Generation
  BY DEF LifeTypeOK, Refs
<1>2. born \in Generation
  BY DEF LifeTypeOK
<1> QED
  BY <1>1, <1>2 DEF AfterLoad, Refs

LEMMA LoadXdpInv == ASSUME LInv, LoadXdp PROVE LInv'
<1>1. /\ At("load_xdp") /\ UNCHANGED <<xdp, tcx, mgr, logger, cfg, cmd, born, count, missed, loaded>>
      /\ \/ /\ pinned' = AfterLoad(XdpMaps)
            /\ progs' = [progs EXCEPT !["xdp"] = Restrict2(pinned', XdpMaps)]
            /\ stale' = (\E m \in MapName : pinned[m] # 0)
            /\ Proceed
         \/ /\ Fault /\ Exit(UnloadBpf)
            /\ pinned' \in {pinned, AfterLoad(XdpMaps)}
            /\ UNCHANGED <<progs, stale>>
  BY DEF LoadXdp, procs, control
<1>2. Rank["load_xdp"] = 7 /\ "load_xdp" \notin DevOp
  BY RankFacts DEF DevOp
<1>3. LifeTypes /\ LifeTypeOK
  BY DEF LInv, LifeTypes
<1>4. ~loaded
  <2>1. ~Pending("load_check") /\ Pending("load_xdp")
    BY <1>1, <1>2, <1>3, Heads, RankFacts
  <2> QED
    BY <2>1 DEF LInv, Loading
<1>5. Loaded'
  BY <1>1, <1>4 DEF Loaded
<1>6. /\ AfterLoad(XdpMaps) \in Refs
      /\ \A m \in MapName : AfterLoad(XdpMaps)[m] = IF m \in XdpMaps /\ pinned[m] = 0 THEN born ELSE pinned[m]
  BY <1>3, AfterLoadFacts, MapFacts
<1>7. faults' \in 0..MaxFaults /\ calm' \in BOOLEAN /\ (calm' => calm)
  BY <1>1, <1>3, FaultType DEF Proceed
<1>8. pinned' \in Refs
  BY <1>1, <1>3, <1>6 DEF LifeTypeOK
<1>9. CASE Fault /\ Exit(UnloadBpf) /\ UNCHANGED <<progs, stale>>
  <2>1. LifeTypeOK'
    BY <1>1, <1>3, <1>7, <1>8, <1>9 DEF LifeTypeOK, Exit
  <2>2. todo # <<>> /\ todo' \in CleanUps /\ calm' = FALSE
    BY <1>1, <1>9 DEF At, Exit, CleanUps, Fault
  <2> QED
    BY <1>1, <1>3, <1>5, <2>1, <2>2, ExitInv
<1>10. CASE /\ pinned' = AfterLoad(XdpMaps)
            /\ progs' = [progs EXCEPT !["xdp"] = Restrict2(pinned', XdpMaps)]
            /\ stale' = (\E m \in MapName : pinned[m] # 0)
            /\ Proceed
  <2>1. Pops("load_xdp") /\ UNCHANGED <<faults, calm>>
    BY <1>1, <1>10 DEF Proceed, Pops, At
  <2>2. /\ Restrict2(pinned', XdpMaps) \in Refs
        /\ \A m \in MapName : Restrict2(pinned', XdpMaps)[m] = IF m \in XdpMaps THEN pinned'[m] ELSE 0
    BY <1>8, NothingFacts, MapFacts
  <2>3. /\ progs' \in [{"xdp", "tc"} -> Refs] /\ progs'["xdp"] = Restrict2(pinned', XdpMaps)
        /\ progs'["tc"] = progs["tc"]
    BY <1>3, <1>10, <2>2 DEF LifeTypeOK
  <2>4. stale' \in BOOLEAN
    BY <1>10
  <2>5. LifeTypes'
    <3>1. LifeTypeOK'
      BY <1>1, <1>3, <1>8, <2>1, <2>3, <2>4 DEF LifeTypeOK, Pops
    <3> QED
      BY <1>1, <1>3, <2>1, <3>1, PopTypes DEF LifeTypes
  <2>6. Shape'
    BY <1>1, <1>3, <2>1, PopShape DEF LInv
  <2>7. From(8)'
    BY <1>2, <1>3, <2>1, FromNext
  <2>8. born # 0 /\ XdpMaps' = XdpMaps
    BY <1>1, <1>3, Heads, SameCfg
  <2>9. \A m \in XdpMaps : pinned'[m] # 0
    BY <1>6, <1>10, <2>8, MapFacts
  <2>10. XdpLoaded'
    <3>1. ~stale' => Unpinned("dns")' /\ Unpinned("syncookies")'
      BY <1>6, <1>10, <2>8 DEF Unpinned, MapName
    <3> QED
      BY <2>3, <2>8, <2>9, <3>1 DEF XdpLoaded
  <2>11. Loading'
    <3>1. ~Pending("load_xdp")' /\ ~From(9)
      BY <1>2, <1>3, <2>1, PopPending, RankFacts
    <3> QED
      BY <1>1, <1>3, <1>4, <2>1, <2>7, <2>10, <3>1, PopPending DEF LInv, Loading
  <2>12. Pending("maps_check")' /\ Pending("load_tc")'
    <3>1. Pending("maps_check") /\ ~From(9)
      BY <1>1, <1>2, <1>3, Heads DEF LInv, Shape
    <3>2. Pending("load_tc")
      BY <3>1 DEF LInv, Loading
    <3> QED
      BY <1>3, <2>1, <3>1, <3>2, PopPending
  <2>13. Unloading'
    BY <2>12 DEF Unloading
  <2>14. Restarting'
    <3> SUFFICES ASSUME cmd = "restart", calm PROVE Restarting'
      BY <1>1, <2>1 DEF Restarting
    <3>1. ~Pending("load_check") /\ ~From(8) /\ ~From(9) /\ ~From(11)
      BY <1>1, <1>2, <1>3, Heads, RankFacts
    <3>2. result = "good" /\ Unloaded /\ Others /\ mgr = NoMgr /\ logger = Nothing
      BY <3>1 DEF LInv, Restarting
    <3>3. /\ pinned = Nothing /\ progs["tc"] = Nothing
          /\ \A d \in Devs : xdp[d] = Nothing /\ tcx[d] = Nothing
      BY <1>3, <3>2 DEF Unloaded, Others, LifeTypeOK
    <3>4. \A m \in MapName : pinned'[m] \in {0, born} /\ progs'["xdp"][m] \in {0, born} /\ Nothing[m] = 0
      BY <1>6, <1>10, <2>2, <2>3, <3>3, MapFacts
    <3>5. Young'
      <4>1. \A u \in Users' : u \in {pinned', progs'["xdp"], Nothing}
        BY <1>1, <2>3, <3>2, <3>3 DEF Users, NoMgr
      <4> QED
        BY <1>1, <3>4, <4>1 DEF Young
    <3>6. Unpinned("dns")'
      BY <1>6, <1>10, <2>8, <3>3, MapFacts DEF Unpinned, MapName
    <3> QED
      BY <1>1, <2>1, <2>3, <2>7, <2>12, <3>2, <3>3, <3>5, <3>6 DEF Restarting, Pops
  <2> QED
    BY <1>5, <2>5, <2>6, <2>11, <2>13, <2>14 DEF LInv
<1> QED
  BY <1>1, <1>9, <1>10

LEMMA LoadTcInv == ASSUME LInv, LoadTc PROVE LInv'
<1>1. /\ At("load_tc") /\ UNCHANGED <<xdp, tcx, mgr, logger, cfg, cmd, born, count, missed, stale, loaded>>
      /\ \/ /\ TcLoadable /\ Proceed
            /\ pinned' = AfterLoad({"net"})
            /\ progs' = [progs EXCEPT !["tc"] = Restrict2(pinned', TcMaps)]
         \/ /\ Exit(UnloadBpf) /\ (Fault \/ (~TcLoadable /\ UNCHANGED <<faults, calm>>))
            /\ pinned' \in {pinned, AfterLoad({"net"})} /\ UNCHANGED progs
  BY DEF LoadTc, procs, control
<1>2. Rank["load_tc"] = 8 /\ "load_tc" \notin DevOp
  BY RankFacts DEF DevOp
<1>3. LifeTypes /\ LifeTypeOK
  BY DEF LInv, LifeTypes
<1>4. ~loaded /\ XdpLoaded
  <2>1. ~Pending("load_xdp") /\ Pending("load_tc")
    BY <1>1, <1>2, <1>3, Heads, RankFacts
  <2> QED
    BY <2>1 DEF LInv, Loading
<1>5. Loaded'
  BY <1>1, <1>4 DEF Loaded
<1>6. /\ AfterLoad({"net"}) \in Refs
      /\ \A m \in MapName : AfterLoad({"net"})[m] = IF m = "net" /\ pinned[m] = 0 THEN born ELSE pinned[m]
  BY <1>3, AfterLoadFacts DEF MapName
<1>7. faults' \in 0..MaxFaults /\ calm' \in BOOLEAN /\ (calm' => calm)
  BY <1>1, <1>3, FaultType DEF Proceed
<1>8. pinned' \in Refs
  BY <1>1, <1>3, <1>6 DEF LifeTypeOK
<1>9. (cmd = "restart" /\ calm) =>
        /\ result = "good" /\ Young /\ mgr = NoMgr /\ progs["tc"] = Nothing /\ Unpinned("dns") /\ TcLoadable
  <2> SUFFICES ASSUME cmd = "restart", calm
               PROVE  /\ result = "good" /\ Young /\ mgr = NoMgr /\ progs["tc"] = Nothing /\ Unpinned("dns")
                      /\ TcLoadable
    OBVIOUS
  <2>1. ~Pending("load_check") /\ ~Pending("load_xdp") /\ ~From(9) /\ ~From(11)
    BY <1>1, <1>2, <1>3, Heads, RankFacts
  <2>2. result = "good" /\ Young /\ mgr = NoMgr /\ progs["tc"] = Nothing /\ Unpinned("dns")
    BY <2>1 DEF LInv, Restarting
  <2>3. TcDnsModeMatches
    BY <1>4, <2>2, MapFacts DEF TcDnsModeMatches, XdpLoaded, Unpinned
  <2>4. \A m \in TcMaps \ {"net"} : pinned[m] # 0
    BY <1>4, MapFacts DEF XdpLoaded
  <2> QED
    BY <2>2, <2>3, <2>4 DEF TcLoadable
<1>10. CASE Exit(UnloadBpf) /\ (Fault \/ (~TcLoadable /\ UNCHANGED <<faults, calm>>)) /\ UNCHANGED progs
  <2>1. LifeTypeOK'
    BY <1>1, <1>3, <1>7, <1>8, <1>10 DEF LifeTypeOK, Exit
  <2>2. todo # <<>> /\ todo' \in CleanUps
    BY <1>1, <1>10 DEF At, Exit, CleanUps
  <2>3. cmd = "restart" => ~calm'
    BY <1>9, <1>10 DEF Fault
  <2> QED
    BY <1>1, <1>3, <1>5, <2>1, <2>2, <2>3, ExitInv
<1>11. CASE /\ TcLoadable /\ Proceed
            /\ pinned' = AfterLoad({"net"})
            /\ progs' = [progs EXCEPT !["tc"] = Restrict2(pinned', TcMaps)]
  <2>1. Pops("load_tc") /\ UNCHANGED <<faults, calm>>
    BY <1>1, <1>11 DEF Proceed, Pops, At
  <2>2. /\ Restrict2(pinned', TcMaps) \in Refs
        /\ \A m \in MapName : Restrict2(pinned', TcMaps)[m] \in {0, pinned'[m]}
    <3>1. TcMaps \subseteq MapName
      BY MapFacts DEF MapName
    <3> QED
      BY <1>8, <3>1, NothingFacts
  <2>3. /\ progs' \in [{"xdp", "tc"} -> Refs] /\ progs'["tc"] = Restrict2(pinned', TcMaps)
        /\ progs'["xdp"] = progs["xdp"]
    BY <1>3, <1>11, <2>2 DEF LifeTypeOK
  <2>4. LifeTypes'
    <3>1. LifeTypeOK'
      BY <1>1, <1>3, <1>8, <2>1, <2>3 DEF LifeTypeOK, Pops
    <3> QED
      BY <1>1, <1>3, <2>1, <3>1, PopTypes DEF LifeTypes
  <2>5. Shape'
    BY <1>1, <1>3, <2>1, PopShape DEF LInv
  <2>6. From(9)'
    BY <1>2, <1>3, <2>1, FromNext
  <2>7. XdpMaps' = XdpMaps
    BY <1>1, SameCfg
  <2>8. \A m \in MapName \ {"net"} : pinned'[m] = pinned[m]
    BY <1>6, <1>11
  <2>9. XdpLoaded'
    <3>1. Restrict2(pinned', XdpMaps) = Restrict2(pinned, XdpMaps)
      BY <2>8, MapFacts DEF Restrict2
    <3>2. \A m \in XdpMaps : pinned'[m] # 0
      BY <1>4, <2>8, MapFacts DEF XdpLoaded
    <3>3. ~stale' => Unpinned("dns")' /\ Unpinned("syncookies")'
      BY <1>1, <1>4, <2>7, <2>8 DEF XdpLoaded, Unpinned, MapName
    <3> QED
      BY <1>4, <2>3, <2>7, <3>1, <3>2, <3>3 DEF XdpLoaded
  <2>10. Unpinned("dns")'
    BY <1>11, <2>7, <2>8, MapFacts DEF Unpinned, TcLoadable, TcDnsModeMatches, MapName
  <2>11. Loading'
    <3>1. ~Pending("load_xdp")' /\ ~Pending("load_tc")'
      BY <1>2, <1>3, <2>1, PopPending, RankFacts
    <3> QED
      BY <1>1, <1>4, <2>6, <2>9, <2>10, <3>1 DEF Loading
  <2>12. Pending("maps_check")'
    <3>1. Pending("maps_check")
      BY <1>1, <1>3, Heads DEF LInv, Shape
    <3> QED
      BY <1>3, <2>1, <3>1, PopPending
  <2>13. Unloading'
    BY <2>12 DEF Unloading
  <2>14. Restarting'
    <3> SUFFICES ASSUME cmd = "restart", calm PROVE Restarting'
      BY <1>1, <2>1 DEF Restarting
    <3>1. pinned \in Users
      BY DEF Users
    <3>2. \A m \in MapName : pinned'[m] \in {0, born} /\ progs'["tc"][m] \in {0, born}
      BY <1>6, <1>9, <1>11, <2>2, <2>3, <3>1 DEF Young
    <3>3. \A u \in Users' : u \in Users \/ u = pinned' \/ u = progs'["tc"]
      BY <1>1, <2>3 DEF Users
    <3>4. Young'
      BY <1>1, <1>9, <3>2, <3>3 DEF Young
    <3> QED
      BY <1>1, <1>9, <2>1, <2>6, <2>12, <3>4 DEF Restarting, Pops
  <2> QED
    BY <1>5, <2>4, <2>5, <2>11, <2>13, <2>14 DEF LInv
<1> QED
  BY <1>1, <1>10, <1>11

LEMMA AttachInv == ASSUME LInv, AttachXdp \/ AttachTc PROVE LInv'
<1>1. PICK op \in {"attach_xdp", "attach_tc"} :
         /\ At(op) /\ UNCHANGED <<pinned, progs, mgr, logger, cfg, cmd, born, count, missed, stale, loaded>>
         /\ \/ /\ Proceed
               /\ \/ xdp' = [xdp EXCEPT ![Dev] = progs["xdp"]] /\ tcx' = tcx
                  \/ tcx' = [tcx EXCEPT ![Dev] = progs["tc"]] /\ xdp' = xdp
            \/ Fault /\ Exit(UnloadBpf) /\ UNCHANGED <<xdp, tcx>>
  BY DEF AttachXdp, AttachTc, CleanupOfAttach, procs, control
<1>2. Rank[op] = 9 /\ op \in DevOp
  BY RankFacts DEF DevOp
<1>3. LifeTypes /\ LifeTypeOK
  BY DEF LInv, LifeTypes
<1>4. Pending("maps_check") /\ ~loaded
  <2>1. Pending("maps_check") /\ ~Pending("load_tc")
    BY <1>1, <1>2, <1>3, Heads, RankFacts DEF LInv, Shape
  <2> QED
    BY <2>1 DEF LInv, Loading
<1>5. Loaded'
  BY <1>1, <1>4 DEF Loaded
<1>6. faults' \in 0..MaxFaults /\ calm' \in BOOLEAN /\ (calm' => calm)
  BY <1>1, <1>3, FaultType DEF Proceed
<1>7. xdp' \in [Devs -> Refs] /\ tcx' \in [Devs -> Refs]
  BY <1>1, <1>3 DEF LifeTypeOK
<1>8. CASE Fault /\ Exit(UnloadBpf)
  <2>1. LifeTypeOK'
    BY <1>1, <1>3, <1>6, <1>7, <1>8 DEF LifeTypeOK, Exit
  <2>2. todo # <<>> /\ todo' \in CleanUps /\ calm' = FALSE
    BY <1>1, <1>8 DEF At, Exit, CleanUps, Fault
  <2> QED
    BY <1>1, <1>3, <1>5, <2>1, <2>2, ExitInv
<1>9. CASE /\ Proceed
           /\ \/ xdp' = [xdp EXCEPT ![Dev] = progs["xdp"]] /\ tcx' = tcx
              \/ tcx' = [tcx EXCEPT ![Dev] = progs["tc"]] /\ xdp' = xdp
  <2>1. Pops(op) /\ UNCHANGED <<faults, calm>>
    BY <1>1, <1>9 DEF Proceed, Pops, At
  <2>2. LifeTypes'
    <3>1. LifeTypeOK'
      BY <1>1, <1>3, <1>7, <2>1 DEF LifeTypeOK, Pops
    <3> QED
      BY <1>1, <1>3, <2>1, <3>1, PopTypes DEF LifeTypes
  <2>3. Shape' /\ Loading'
    BY <1>1, <1>3, <2>1, PopShape, PopLoading DEF LInv
  <2>4. Pending("maps_check")'
    BY <1>3, <1>4, <2>1, PopPending
  <2>5. Unloading'
    BY <2>4 DEF Unloading
  <2>6. Restarting'
    <3> SUFFICES ASSUME cmd = "restart", calm PROVE Restarting'
      BY <1>1, <2>1 DEF Restarting
    <3>1. ~Pending("load_check") /\ ~Pending("load_xdp") /\ ~Pending("load_tc")
      BY <1>1, <1>2, <1>3, Heads, RankFacts
    <3>2. result = "good" /\ From(9) /\ Young /\ mgr = NoMgr
      BY <1>4, <3>1 DEF LInv, Restarting
    <3>3. progs["xdp"] \in Users /\ progs["tc"] \in Users
      BY DEF Users
    <3>4. \A d \in Devs : xdp'[d] \in {xdp[d], progs["xdp"]} /\ tcx'[d] \in {tcx[d], progs["tc"]}
      BY <1>3, <1>9 DEF LifeTypeOK
    <3>5. Users' \subseteq Users
      BY <1>1, <3>3, <3>4 DEF Users
    <3>6. Young'
      BY <1>1, <3>2, <3>5 DEF Young
    <3> QED
      BY <1>1, <1>3, <2>1, <2>4, <3>2, <3>6, PopPending DEF Restarting, Pops
  <2> QED
    BY <1>5, <2>2, <2>3, <2>5, <2>6 DEF LInv
<1> QED
  BY <1>1, <1>8, <1>9

LEMMA MapsCheckInv == ASSUME LInv, MapsCheck PROVE LInv'
<1>1. /\ At("maps_check")
      /\ UNCHANGED <<pinned, progs, xdp, tcx, mgr, logger, cfg, cmd, born, count, missed, stale>>
      /\ \/ MapsOk /\ Proceed /\ loaded' = TRUE
         \/ ~MapsOk /\ Exit(UnloadBpf) /\ UNCHANGED <<faults, calm, loaded>>
  BY DEF MapsCheck, kernel, procs, control
<1>2. Rank["maps_check"] = 10 /\ "maps_check" \notin DevOp
  BY RankFacts DEF DevOp
<1>3. LifeTypes /\ LifeTypeOK /\ Users \subseteq Refs
  BY UserType DEF LInv, LifeTypes
<1>4. ~loaded /\ XdpLoaded /\ Unpinned("dns")
  <2>1. Pending("maps_check") /\ ~Pending("load_tc")
    BY <1>1, <1>2, <1>3, Heads, RankFacts
  <2> QED
    BY <2>1 DEF LInv, Loading
<1>5. pinned["cfg"] # 0 /\ "cfg" \in MapName
  BY <1>4, MapFacts DEF XdpLoaded
<1>6. \A m \in MapName, u \in Users : u[m] \in Generation
  BY <1>3 DEF Refs
<1>7. (cmd = "restart" /\ calm) => result = "good" /\ MapsOk
  <2> SUFFICES ASSUME cmd = "restart", calm PROVE result = "good" /\ MapsOk
    OBVIOUS
  <2>1. ~Pending("load_check") /\ ~Pending("load_xdp") /\ ~Pending("load_tc") /\ ~From(11)
    BY <1>1, <1>2, <1>3, Heads, RankFacts
  <2>2. result = "good" /\ Young
    BY <2>1 DEF LInv, Restarting
  <2>3. \A m \in MapName : LiveGenerations(m) \subseteq {born}
    BY <2>2 DEF LiveGenerations, Young
  <2>4. LiveGenerations("cfg") # {}
    <3>1. pinned \in Users
      BY DEF Users
    <3> QED
      BY <1>5, <3>1 DEF LiveGenerations
  <2> QED
    BY <1>5, <2>2, <2>3, <2>4 DEF MapsOk
<1>8. CASE ~MapsOk /\ Exit(UnloadBpf) /\ UNCHANGED <<faults, calm, loaded>>
  <2>1. LifeTypeOK'
    BY <1>1, <1>3, <1>8 DEF LifeTypeOK, Exit
  <2>2. todo # <<>> /\ todo' \in CleanUps /\ (cmd = "restart" => ~calm')
    BY <1>1, <1>7, <1>8 DEF At, Exit, CleanUps
  <2>3. Loaded'
    BY <1>4, <1>8 DEF Loaded
  <2> QED
    BY <1>1, <1>3, <2>1, <2>2, <2>3, ExitInv
<1>9. CASE MapsOk /\ Proceed /\ loaded' = TRUE
  <2>1. Pops("maps_check") /\ UNCHANGED <<faults, calm>>
    BY <1>1, <1>9 DEF Proceed, Pops, At
  <2>2. LifeTypes'
    <3>1. LifeTypeOK'
      BY <1>1, <1>3, <1>9, <2>1 DEF LifeTypeOK, Pops
    <3> QED
      BY <1>1, <1>3, <2>1, <3>1, PopTypes DEF LifeTypes
  <2>3. Shape'
    BY <1>3, <2>1, PopShape DEF LInv
  <2>4. From(11)'
    <3>1. From(10 + 1)'
      BY <1>2, <1>3, <2>1, FromNext
    <3> QED
      BY <3>1
  <2>5. Loading'
    <3>1. ~Pending("load_xdp")' /\ ~Pending("load_tc")' /\ ~Pending("maps_check")'
      BY <1>2, <1>3, <2>1, PopPending, RankFacts
    <3> QED
      BY <3>1 DEF Loading
  <2>6. Agree(Users)
    <3> SUFFICES ASSUME NEW m \in MapName, NEW u \in Users, NEW v \in Users, u[m] # 0, v[m] # 0
                 PROVE  u[m] = v[m]
      BY DEF Agree
    <3>1. {u[m], v[m]} \subseteq LiveGenerations(m) /\ u[m] \in Generation /\ v[m] \in Generation
      BY <1>6 DEF LiveGenerations
    <3> QED
      BY <1>9, <3>1 DEF MapsOk
  <2>7. progs["xdp"] # Nothing /\ Tells("dns") /\ Tells("syncookies")
    <3>1. \A m \in MapName : progs["xdp"][m] = IF m \in XdpMaps THEN pinned[m] ELSE 0
      BY <1>4 DEF XdpLoaded, Restrict2
    <3>2. progs["xdp"]["cfg"] # 0 /\ Nothing["cfg"] = 0
      BY <1>5, <3>1, MapFacts
    <3>3. "dns" \in MapName /\ "syncookies" \in MapName
      BY DEF MapName
    <3>4. Tells("dns")
      BY <1>4, <3>1, <3>3 DEF Tells, Unpinned
    <3>5. Tells("syncookies")
      BY <1>4, <3>1, <3>3 DEF Tells, Unpinned, XdpLoaded
    <3> QED
      BY <3>2, <3>4, <3>5
  <2>8. Loaded'
    BY <1>1, <2>6, <2>7 DEF Loaded, Tells, Users
  <2>9. Unloading'
    BY <1>9, <2>4 DEF Unloading
  <2>10. Restarting'
    BY <1>1, <1>7, <1>9, <2>1, <2>4 DEF Restarting, Pops
  <2> QED
    BY <2>2, <2>3, <2>5, <2>8, <2>9, <2>10 DEF LInv
<1> QED
  BY <1>1, <1>8, <1>9

(* The unload *)
LEMMA SweepInv ==
    ASSUME LInv, NEW op \in {"detach_xdp", "detach_tc", "unload_tc", "unload_xdp", "maps_clean"}, Pops(op),
           LifeTypeOK', UNCHANGED <<mgr, logger, stale>>, ~loaded',
           ~missed' => ~missed, calm' => calm,
           (~missed' \/ calm') /\ Leaving => Leaving',
           calm' /\ Others => Others'
    PROVE  LInv'
<1>1. LifeTypes /\ Rank[op] \in 2..5
  BY RankFacts DEF LInv
<1>2. LifeTypes'
  BY <1>1, PopTypes DEF LifeTypes
<1>3. Shape' /\ Loading'
  BY <1>1, PopShape, PopLoading DEF LInv
<1>4. Loaded'
  BY DEF Loaded
<1>5. ~From(7) /\ ~From(8) /\ ~From(9) /\ ~From(11)
  BY <1>1, PopPending
<1>6. Unloading'
  BY <1>1, <1>5, PopPending DEF LInv, Unloading, Pops
<1>7. Restarting'
  <2> SUFFICES ASSUME cmd = "restart", calm' PROVE Restarting'
    BY DEF Restarting, Pops
  <2>1. /\ result = "good" /\ Pending("load_check") /\ Leaving /\ Others
        /\ mgr = NoMgr \/ (Pending("stop_mgr") /\ mgr.st = "up" /\ mgr.pidfile = "default")
        /\ logger = Nothing \/ Pending("stop_logger")
    BY <1>5 DEF LInv, Restarting
  <2>2. Pending("load_check")' /\ (Pending("stop_mgr") => Pending("stop_mgr")')
        /\ (Pending("stop_logger") => Pending("stop_logger")') /\ result' = "good"
    BY <1>1, <2>1, PopPending DEF Pops
  <2> QED
    BY <2>1, <2>2 DEF Restarting
<1> QED
  BY <1>2, <1>3, <1>4, <1>6, <1>7 DEF LInv

LEMMA SweepType ==
    ASSUME LInv, UNCHANGED <<faults, calm, missed>> \/ Missed
    PROVE  /\ faults' \in 0..MaxFaults /\ calm' \in BOOLEAN /\ (calm' => calm)
           /\ missed' \in BOOLEAN /\ (~missed' => ~missed)
           /\ ~missed' \/ calm' => ~Missed
<1>1. LifeTypeOK /\ missed \in BOOLEAN
  BY DEF LInv, LifeTypes, LifeTypeOK
<1>2. faults' \in 0..MaxFaults /\ calm' \in BOOLEAN /\ (calm' => calm)
  BY <1>1, FaultType DEF Missed
<1>3. CASE Missed
  <2>1. missed' = TRUE /\ calm' = FALSE
    BY <1>3 DEF Missed, Fault
  <2> QED
    BY <1>2, <2>1, Zenon
<1>4. CASE ~Missed
  <2>1. missed' = missed
    BY <1>4
  <2> QED
    BY <1>1, <1>2, <1>4, <2>1, Zenon
<1> QED
  BY <1>3, <1>4

(* A clean-up step that is taken is no longer needed by what it removed. *)
LEMMA PopOn ==
    ASSUME LifeTypes, NEW op, Pops(op)
    PROVE  /\ \A o, d : HasOn(todo, o, d) => (o = op /\ d = Dev) \/ HasOn(todo, o, d)'
           /\ ConfiguredDevs' = ConfiguredDevs
           /\ op \in DevOp => Dev \in ConfiguredDevs /\ Dev \in Devs
<1>1. todo # <<>> /\ Head(todo).op = op /\ todo' = Tail(todo) /\ cfg' = cfg
  BY DEF Pops
<1>2. /\ \A o, d : HasOn(todo, o, d) => (o = Head(todo).op /\ d = Head(todo).dev) \/ HasOn(todo', o, d)
      /\ StepOf(Head(todo))
  BY <1>1, Advance
<1>3. ConfiguredDevs \subseteq Devs
  BY CfgFacts DEF LifeTypes, LifeTypeOK
<1> QED
  BY <1>1, <1>2, <1>3, SameCfg DEF Dev, HasOn, StepOf

LEMMA DetachXdpInv == ASSUME LInv, DetachXdp PROVE LInv'
<1>1. /\ Pops("detach_xdp") /\ loaded' = FALSE
      /\ UNCHANGED <<pinned, progs, tcx, mgr, logger, stale>>
      /\ \/ xdp' = [xdp EXCEPT ![Dev] = Nothing] /\ UNCHANGED <<faults, calm, missed>>
         \/ Missed /\ UNCHANGED xdp
  BY DEF DetachXdp, At, Pops, procs, control
<1>2. /\ faults' \in 0..MaxFaults /\ calm' \in BOOLEAN /\ (calm' => calm)
      /\ missed' \in BOOLEAN /\ (~missed' => ~missed)
      /\ ~missed' \/ calm' => ~Missed
  BY <1>1, SweepType
<1>3. LifeTypes /\ LifeTypeOK
  BY DEF LInv, LifeTypes
<1>4. /\ \A o, d : HasOn(todo, o, d) => (o = "detach_xdp" /\ d = Dev) \/ HasOn(todo, o, d)'
      /\ ConfiguredDevs' = ConfiguredDevs /\ Dev \in ConfiguredDevs /\ Dev \in Devs
  BY <1>1, <1>3, PopOn DEF DevOp
<1>5. xdp' \in [Devs -> Refs]
  BY <1>1, <1>3, MapFacts DEF LifeTypeOK
<1>6. LifeTypeOK'
  BY <1>1, <1>2, <1>3, <1>5 DEF LifeTypeOK, Pops
<1>7. ASSUME ~missed' \/ calm'
      PROVE  \A d \in Devs : xdp'[d] = IF d = Dev THEN Nothing ELSE xdp[d]
  BY <1>1, <1>2, <1>3, <1>4, <1>7 DEF LifeTypeOK
<1>8. ASSUME ~missed' \/ calm', Leaving PROVE Leaving'
  <2>1. ConfiguredDevs \subseteq Devs
    BY <1>3, CfgFacts DEF LifeTypeOK
  <2>2. \A o \in {"maps_clean", "unload_xdp", "unload_tc"} : Pending(o) => Pending(o)'
    BY <1>1, <1>3, PopPending
  <2>3. \A d \in ConfiguredDevs : /\ xdp'[d] = Nothing \/ HasOn(todo, "detach_xdp", d)'
                                  /\ tcx'[d] = Nothing \/ HasOn(todo, "detach_tc", d)'
    BY <1>1, <1>4, <1>7, <1>8, <2>1 DEF Leaving
  <2> QED
    BY <1>1, <1>4, <1>8, <2>2, <2>3 DEF Leaving
<1>9. ASSUME calm', Others PROVE Others'
  BY <1>1, <1>4, <1>7, <1>9 DEF Others
<1> QED
  BY <1>1, <1>2, <1>6, <1>8, <1>9, SweepInv

LEMMA DetachTcInv == ASSUME LInv, DetachTc PROVE LInv'
<1>1. /\ Pops("detach_tc") /\ loaded' = FALSE
      /\ UNCHANGED <<pinned, progs, xdp, mgr, logger, stale>>
      /\ \/ tcx' = [tcx EXCEPT ![Dev] = Nothing] /\ UNCHANGED <<faults, calm, missed>>
         \/ Missed /\ UNCHANGED tcx
  BY DEF DetachTc, At, Pops, procs, control
<1>2. /\ faults' \in 0..MaxFaults /\ calm' \in BOOLEAN /\ (calm' => calm)
      /\ missed' \in BOOLEAN /\ (~missed' => ~missed)
      /\ ~missed' \/ calm' => ~Missed
  BY <1>1, SweepType
<1>3. LifeTypes /\ LifeTypeOK
  BY DEF LInv, LifeTypes
<1>4. /\ \A o, d : HasOn(todo, o, d) => (o = "detach_tc" /\ d = Dev) \/ HasOn(todo, o, d)'
      /\ ConfiguredDevs' = ConfiguredDevs /\ Dev \in ConfiguredDevs /\ Dev \in Devs
  BY <1>1, <1>3, PopOn DEF DevOp
<1>5. tcx' \in [Devs -> Refs]
  BY <1>1, <1>3, MapFacts DEF LifeTypeOK
<1>6. LifeTypeOK'
  BY <1>1, <1>2, <1>3, <1>5 DEF LifeTypeOK, Pops
<1>7. ASSUME ~missed' \/ calm'
      PROVE  \A d \in Devs : tcx'[d] = IF d = Dev THEN Nothing ELSE tcx[d]
  BY <1>1, <1>2, <1>3, <1>4, <1>7 DEF LifeTypeOK
<1>8. ASSUME ~missed' \/ calm', Leaving PROVE Leaving'
  <2>1. ConfiguredDevs \subseteq Devs
    BY <1>3, CfgFacts DEF LifeTypeOK
  <2>2. \A o \in {"maps_clean", "unload_xdp", "unload_tc"} : Pending(o) => Pending(o)'
    BY <1>1, <1>3, PopPending
  <2>3. \A d \in ConfiguredDevs : /\ xdp'[d] = Nothing \/ HasOn(todo, "detach_xdp", d)'
                                  /\ tcx'[d] = Nothing \/ HasOn(todo, "detach_tc", d)'
    BY <1>1, <1>4, <1>7, <1>8, <2>1 DEF Leaving
  <2> QED
    BY <1>1, <1>4, <1>8, <2>2, <2>3 DEF Leaving
<1>9. ASSUME calm', Others PROVE Others'
  BY <1>1, <1>4, <1>7, <1>9 DEF Others
<1> QED
  BY <1>1, <1>2, <1>6, <1>8, <1>9, SweepInv

LEMMA UnloadProgramInv ==
    ASSUME LInv, NEW op, NEW p, UnloadProgram(op, p),
           <<op, p>> \in {<<"unload_tc", "tc">>, <<"unload_xdp", "xdp">>}
    PROVE  LInv'
<1>1. /\ Pops(op) /\ loaded' = FALSE
      /\ UNCHANGED <<pinned, xdp, tcx, mgr, logger, stale>>
      /\ \/ progs' = [progs EXCEPT ![p] = Nothing] /\ UNCHANGED <<faults, calm, missed>>
         \/ Missed /\ UNCHANGED progs
  BY DEF UnloadProgram, At, Pops, procs, control
<1>2. /\ faults' \in 0..MaxFaults /\ calm' \in BOOLEAN /\ (calm' => calm)
      /\ missed' \in BOOLEAN /\ (~missed' => ~missed)
      /\ ~missed' \/ calm' => ~Missed
  BY <1>1, SweepType
<1>3. LifeTypes /\ LifeTypeOK
  BY DEF LInv, LifeTypes
<1>4. /\ (op = "unload_tc" /\ p = "tc") \/ (op = "unload_xdp" /\ p = "xdp")
      /\ op \in {"detach_xdp", "detach_tc", "unload_tc", "unload_xdp", "maps_clean"}
  OBVIOUS
<1>5. /\ \A o \in {"detach_xdp", "detach_tc"} : \A d : HasOn(todo, o, d) => HasOn(todo, o, d)'
      /\ ConfiguredDevs' = ConfiguredDevs
  BY <1>1, <1>3, <1>4, PopOn
<1>6. progs' \in [{"xdp", "tc"} -> Refs]
  BY <1>1, <1>3, <1>4, MapFacts DEF LifeTypeOK
<1>7. LifeTypeOK'
  BY <1>1, <1>2, <1>3, <1>6 DEF LifeTypeOK, Pops
<1>8. ASSUME ~missed' \/ calm', Leaving PROVE Leaving'
  <2>1. \A q \in {"xdp", "tc"} : progs'[q] = IF q = p THEN Nothing ELSE progs[q]
    BY <1>1, <1>2, <1>3, <1>4, <1>8 DEF LifeTypeOK
  <2>2. \A o : Pending(o) => o = op \/ Pending(o)'
    BY <1>1, <1>3, PopPending
  <2>3. /\ progs'["xdp"] = Nothing \/ Pending("unload_xdp")'
        /\ progs'["tc"] = Nothing \/ Pending("unload_tc")'
    BY <1>4, <1>8, <2>1, <2>2 DEF Leaving
  <2>4. pinned' = Nothing \/ Pending("maps_clean")'
    BY <1>1, <1>4, <1>8, <2>2 DEF Leaving
  <2>5. \A d \in ConfiguredDevs : /\ xdp'[d] = Nothing \/ HasOn(todo, "detach_xdp", d)'
                                  /\ tcx'[d] = Nothing \/ HasOn(todo, "detach_tc", d)'
    BY <1>1, <1>5, <1>8 DEF Leaving
  <2> QED
    BY <1>5, <2>3, <2>4, <2>5 DEF Leaving
<1>9. ASSUME calm', Others PROVE Others'
  BY <1>1, <1>5, <1>9 DEF Others
<1> QED
  BY <1>1, <1>2, <1>4, <1>7, <1>8, <1>9, SweepInv

LEMMA MapsCleanInv == ASSUME LInv, MapsClean PROVE LInv'
<1>1. /\ Pops("maps_clean") /\ At("maps_clean")
      /\ UNCHANGED <<progs, xdp, tcx, mgr, logger, stale, loaded>>
      /\ \/ pinned' = Nothing /\ UNCHANGED <<faults, calm, missed>>
         \/ Missed /\ \E left \in SUBSET MapName : pinned' = Restrict2(pinned, left)
  BY DEF MapsClean, At, Pops, procs, control
<1>2. /\ faults' \in 0..MaxFaults /\ calm' \in BOOLEAN /\ (calm' => calm)
      /\ missed' \in BOOLEAN /\ (~missed' => ~missed)
      /\ ~missed' \/ calm' => ~Missed
  BY <1>1, SweepType
<1>3. LifeTypes /\ LifeTypeOK
  BY DEF LInv, LifeTypes
<1>4. ~loaded'
  <2>1. Pending("maps_clean") /\ ~Pending("unload_xdp")
    BY <1>1, <1>3, Heads, RankFacts
  <2> QED
    BY <1>1, <2>1 DEF LInv, Shape
<1>5. /\ \A o \in {"detach_xdp", "detach_tc"} : \A d : HasOn(todo, o, d) => HasOn(todo, o, d)'
      /\ ConfiguredDevs' = ConfiguredDevs
  BY <1>1, <1>3, PopOn
<1>6. pinned' \in Refs
  <2>1. pinned \in Refs
    BY <1>3 DEF LifeTypeOK
  <2>2. \A left \in SUBSET MapName : Restrict2(pinned, left) \in Refs
    BY <2>1, NothingFacts
  <2> QED
    BY <1>1, <2>2, MapFacts
<1>7. LifeTypeOK'
  BY <1>1, <1>2, <1>3, <1>6 DEF LifeTypeOK, Pops
<1>8. ASSUME ~missed' \/ calm', Leaving PROVE Leaving'
  <2>1. pinned' = Nothing
    BY <1>1, <1>2, <1>8
  <2>2. \A o \in {"unload_xdp", "unload_tc"} : Pending(o) => Pending(o)'
    BY <1>1, <1>3, PopPending
  <2> QED
    BY <1>1, <1>5, <1>8, <2>1, <2>2 DEF Leaving
<1>9. ASSUME calm', Others PROVE Others'
  BY <1>1, <1>5, <1>9 DEF Others
<1> QED
  BY <1>1, <1>2, <1>4, <1>7, <1>8, <1>9, SweepInv

-----------------------------------------------------------------------------
(* The theorems *)

LEMMA StutterLInv == ASSUME LInv, UNCHANGED lifeVars PROVE LInv'
  BY DEF lifeVars, kernel, procs, control, LInv, LifeTypes, LifeTypeOK, Shape, Loading, Loaded,
         Unloading, Restarting, Leaving, Others, Young, Unloaded, Unpinned, XdpLoaded, Tells, Agree,
         Users, Pending, From, IsScript, StepOf, ConfiguredDevs, XdpMaps, ModeMaps, LoadMode

LEMMA NextLInv == ASSUME LInv, [LifeNext]_lifeVars PROVE LInv'
<1>1. CASE LifeNext
  BY <1>1, IssueInv, EditConfigInv, KillInv, LoadCheckInv, LoadXdpInv, LoadTcInv, AttachInv,
     MapsCheckInv, DetachXdpInv, DetachTcInv, UnloadProgramInv, MapsCleanInv, StartMgrInv,
     StopMgrInv, StartLoggerInv, StopLoggerInv, MgrInv DEF LifeNext
<1> QED
  BY <1>1, StutterLInv

(* The steps to come are in order and depend on none that is over; in a     *)
(* command that loads or unloads, every part of the installation is gone,   *)
(* has its clean-up to come, or is what a load makes and checks.            *)
LEMMA LifeInvariant == LifeSpec => []LInv
<1>1. LifeInit => LInv
  BY InitLInv
<1>2. LInv /\ [LifeNext]_lifeVars => LInv'
  BY NextLInv
<1> QED
  BY <1>1, <1>2, PTL DEF LifeSpec

(* The processes, pins and programs only ever refer to maps of loads that   *)
(* were made, whatever step of xfwctl fails or is killed.                   *)
THEOREM LifeTypeCorrect == LifeSpec => []LifeTypeOK
<1>1. LInv => LifeTypeOK
  BY DEF LInv, LifeTypes
<1> QED
  BY <1>1, LifeInvariant, PTL

(* Once bpf_maps_check has let a load pass, no program filters by maps that *)
(* the manager, the logger or another program does not use: a manager that  *)
(* starts, restarts or dies later opens the pins of that load.              *)
THEOREM InstanceUnique == LifeSpec => []OneInstance
<1>1. LInv => OneInstance
  BY DEF LInv, Loaded, Agree, OneInstance
<1> QED
  BY <1>1, LifeInvariant, PTL

(* The optional maps the manager finds pinned are those the loaded programs *)
(* were built with; for DNS this is so even if an unload left pins behind,  *)
(* because load_program() of tc.o refuses a mode that differs.              *)
THEOREM ModeFollowsPins == LifeSpec => []PinsTellTheMode
<1>1. LInv => PinsTellTheMode
  BY DEF LInv, Loaded, Tells, PinsTellTheMode
<1> QED
  BY <1>1, LifeInvariant, PTL

(* Unloading, and the clean-up after a load that failed at any step, leaves *)
(* nothing pinned and no configured device attached unless one of its own   *)
(* steps fails.                                                             *)
THEOREM UnloadLeavesNothing == LifeSpec => []UnloadIsComplete
<1>1. LInv => UnloadIsComplete
  <2> SUFFICES ASSUME LInv, todo = <<>>, ~missed, ~loaded, result # "refused",
                      cmd \in {"load", "unload", "reload", "start", "stop", "restart"}
               PROVE  Unloaded
    BY DEF UnloadIsComplete, NoCommand
  <2>1. Steps(todo) = {} /\ \A op : ~Pending(op)
    BY NoneLeft
  <2>2. Leaving
    BY <2>1 DEF LInv, Unloading
  <2>3. \A op, d : ~HasOn(todo, op, d)
    BY <2>1 DEF HasOn
  <2>4. DOMAIN progs = {"xdp", "tc"}
    BY DEF LInv, LifeTypes, LifeTypeOK
  <2> QED
    BY <2>1, <2>2, <2>3, <2>4 DEF Leaving, Unloaded
<1> QED
  BY <1>1, LifeInvariant, PTL

(* xfwctl --restart of a settled installation ends with xFW loaded when no  *)
(* step of it fails, whatever earlier commands left behind.                 *)
THEOREM RestartSucceeds == LifeSpec => []RestartRecovers
<1>1. LInv => RestartRecovers
  <2> SUFFICES ASSUME LInv, todo = <<>>, cmd = "restart", calm PROVE result = "good" /\ loaded
    BY DEF RestartRecovers, NoCommand
  <2>1. \A op : ~Pending(op)
    BY NoneLeft
  <2> QED
    BY <2>1 DEF LInv, Restarting
<1> QED
  BY <1>1, LifeInvariant, PTL

-----------------------------------------------------------------------------
(*                           The incident log                              *)

-----------------------------------------------------------------------------
Phase == {"new", "idle", "swap", "wait", "drain", "stamp", "stopped", "gone"}

Types ==
    /\ map \in [Side -> [Addr -> Nat]]
    /\ active \in Side /\ slot \in {active, NoMap}
    /\ drop_cnt \in Nat /\ exported \in Nat /\ registered \in 0..MaxIncidents
    /\ notified \in BOOLEAN /\ deaf \in BOOLEAN /\ timer \in BOOLEAN /\ stop_called \in BOOLEAN
    /\ info \in [hint : Side \cup {NoMap}, cnt : Nat]
    /\ bpf \in [pc : {"idle", "lookup", "count", "insert"}, addr : Addr, im : Side \cup {NoMap}]
    /\ upc \in Phase
    /\ failures \in Nat

Fits == \A i \in Side : Cardinality(Entries(i)) <= MAX_INCIDENTS_PER_CPU

(* A program works on the active map; only while the processor waits for   *)
(* the update of MAP_LOG_ACTIVE_FD may it still be in the other.  What it  *)
(* has looked up is still so.                                              *)
Program ==
    /\ bpf.pc = "idle" <=> bpf.im = NoMap
    /\ (bpf.pc # "idle" /\ upc # "wait") => bpf.im = active
    /\ bpf.pc = "count" => bpf.addr \in Entries(bpf.im)
    /\ bpf.pc = "insert" => bpf.addr \notin Entries(bpf.im)
    /\ slot = NoMap <=> upc = "new"
    /\ upc = "new" => bpf.pc = "idle"

(* As long as nothing has failed, a map that becomes active is empty, and  *)
(* the new active map stays so while a program is in the old one.          *)
Clean == failures = 0 =>
    /\ upc \notin {"wait", "drain"} => Entries(1 - active) = {}
    /\ bpf.im = 1 - active => Entries(active) = {}
    /\ slot = NoMap => Entries(active) = {}

IInv == Types /\ Fits /\ Program /\ Clean /\ NeverUnderestimates /\ Accounted

-----------------------------------------------------------------------------
(* Facts about the operators *)

LEMMA EntryFacts ==
    ASSUME Types, NEW i \in Side
    PROVE  /\ Entries(i) \subseteq Addr /\ IsFiniteSet(Entries(i)) /\ Cardinality(Entries(i)) \in Nat
           /\ \A a \in Addr : map[i][a] \in Nat /\ (a \in Entries(i) <=> map[i][a] # 0)
<1>1. Entries(i) \subseteq Addr
  BY DEF Entries
<1>2. \A a \in Addr : map[i][a] \in Nat
  BY DEF Types
<1> QED
  BY <1>1, <1>2, IncidentLogAssumption, FS_Subset, FS_CardinalityType DEF Entries

LEMMA PacketFacts ==
    ASSUME Types
    PROVE  \A i \in Side : /\ Packets(i, Addr) = Cardinality(Tokens(map[i], Addr))
                           /\ Packets(i, Addr) \in Nat
<1> SUFFICES ASSUME NEW i \in Side
             PROVE  /\ Packets(i, Addr) = Cardinality(Tokens(map[i], Addr))
                    /\ Packets(i, Addr) \in Nat
  OBVIOUS
<1>1. Packets(i, Addr) = Cardinality(Tokens(map[i], Addr))
  BY DEF Packets, Tokens
<1>2. map[i] \in [Addr -> Nat]
  BY DEF Types
<1> QED
  BY <1>1, <1>2, TokensFinite, IncidentLogAssumption

LEMMA IdleType == Idle \in [pc : {"idle", "lookup", "count", "insert"}, addr : Addr, im : Side \cup {NoMap}]
                  /\ Idle.pc = "idle" /\ Idle.im = NoMap
  BY IncidentLogAssumption DEF Idle

LEMMA SideFacts == \A i \in Side : 1 - i \in Side /\ 1 - i # i /\ 1 - (1 - i) = i /\ i # NoMap
  BY DEF Side, NoMap

-----------------------------------------------------------------------------
LEMMA InitInv == ASSUME Init PROVE IInv
<1>1. Types
  <2>1. deaf \in BOOLEAN /\ notified \in BOOLEAN /\ timer \in BOOLEAN /\ stop_called \in BOOLEAN
    BY IncidentLogAssumption, Zenon DEF Init
  <2>2. /\ map \in [Side -> [Addr -> Nat]] /\ active \in Side /\ slot \in {active, NoMap}
        /\ drop_cnt \in Nat /\ exported \in Nat /\ registered \in 0..MaxIncidents /\ failures \in Nat
        /\ upc \in Phase
    BY IncidentLogAssumption DEF Init, Side, Phase
  <2>3. info \in [hint : Side \cup {NoMap}, cnt : Nat]
    BY DEF Init
  <2>4. bpf \in [pc : {"idle", "lookup", "count", "insert"}, addr : Addr, im : Side \cup {NoMap}]
    BY IdleType DEF Init
  <2> QED
    BY <2>1, <2>2, <2>3, <2>4 DEF Types
<1>2. \A i \in Side : Entries(i) = {}
  BY DEF Init, Entries
<1>3. Fits
  BY <1>2, FS_EmptySet, IncidentLogAssumption DEF Fits
<1>4. Program /\ Clean
  BY <1>2, IdleType DEF Init, Program, Clean, Side
<1>5. NeverUnderestimates
  BY DEF Init, NeverUnderestimates
<1>6. Accounted
  <2>1. \A i \in Side : Cardinality(Tokens(map[i], Addr)) = 0
    BY TokensNone DEF Init
  <2>2. Packets(0, Addr) = 0 /\ Packets(1, Addr) = 0
    BY <1>1, <2>1, PacketFacts DEF Side
  <2> QED
    BY <2>2, IdleType DEF Init, Accounted
<1> QED
  BY <1>1, <1>3, <1>4, <1>5, <1>6 DEF IInv

(* The maps and their counts stay: the processor moves. *)
LEMMA ControlStep ==
    ASSUME IInv, UNCHANGED <<map, drop_cnt, info, bpf, registered, exported>>,
           Types', Program', Clean', failures' = 0 => failures = 0,
           (failures' = 0 /\ slot' # NoMap) => slot' = slot \/ Entries(slot') = {}
    PROVE  IInv'
<1>1. \A i : Entries(i)' = Entries(i)
  BY DEF Entries
<1>2. Fits'
  BY <1>1 DEF IInv, Fits
<1>3. Accounted'
  BY DEF IInv, Accounted, Packets
<1>4. NeverUnderestimates'
  <2>1. Entries(slot)' = Entries(slot')
    BY DEF Entries
  <2> QED
    BY <2>1 DEF IInv, NeverUnderestimates
<1> QED
  BY <1>2, <1>3, <1>4 DEF IInv

LEMMA UserInv == ASSUME IInv, User, ~DrainBatch PROVE IInv'
<1>1. UNCHANGED <<map, drop_cnt, info, bpf, registered, exported>>
  BY DEF User, Start, Consume, Destroy, SwapActiveMap, SwapFails, Swapped, DrainDone,
         DrainFails, Stamp, bpfVars
<1>2. \A i : Entries(i)' = Entries(i)
  BY <1>1 DEF Entries
<1>3. /\ active \in Side /\ slot \in {active, NoMap} /\ failures \in Nat /\ upc \in Phase
      /\ active # NoMap /\ 1 - active \in Side /\ 1 - active # active /\ 1 - (1 - active) = active
      /\ 1 - active # NoMap
  BY SideFacts DEF IInv, Types
<1>4. /\ notified' \in BOOLEAN /\ deaf' \in BOOLEAN /\ timer' \in BOOLEAN /\ stop_called' \in BOOLEAN
  <2>1. /\ notified \in BOOLEAN /\ deaf \in BOOLEAN /\ timer \in BOOLEAN /\ stop_called \in BOOLEAN
    BY DEF IInv, Types
  <2> QED
    BY <2>1 DEF User, Start, Consume, Destroy, SwapActiveMap, SwapFails, Swapped, DrainDone,
                DrainFails, Stamp, bpfVars
<1>5. ASSUME active' \in Side, slot' \in {active', NoMap}, upc' \in Phase, failures' \in Nat PROVE Types'
  BY <1>1, <1>4, <1>5 DEF IInv, Types
<1>6. Entries(active)' = Entries(active') /\ Entries(1 - active)' = Entries(1 - active')
      /\ Entries(bpf.im)' = Entries(bpf.im)
  BY <1>1 DEF Entries
<1>7. CASE Start
  <2>1. /\ upc = "new" /\ slot' = active /\ upc' = "idle" /\ UNCHANGED <<active, failures>>
    BY <1>7 DEF Start
  <2>2. Types'
    BY <1>3, <1>5, <2>1 DEF Phase
  <2>3. slot = NoMap /\ bpf.pc = "idle" /\ (failures = 0 => Entries(active) = {})
    BY <2>1 DEF IInv, Program, Clean
  <2>4. Program'
    BY <1>1, <1>3, <1>6, <2>1, <2>3 DEF IInv, Program
  <2>5. Clean'
    BY <1>1, <1>3, <1>6, <2>1, <2>3 DEF IInv, Clean
  <2> QED
    BY <1>1, <2>1, <2>2, <2>3, <2>4, <2>5, ControlStep
<1>8. CASE SwapActiveMap
  <2>1. /\ upc = "swap" /\ slot' = 1 - active /\ active' = 1 - active /\ upc' = "wait"
        /\ UNCHANGED failures
    BY <1>8 DEF SwapActiveMap
  <2>2. Types'
    BY <1>3, <1>5, <2>1 DEF Phase
  <2>3. failures = 0 => Entries(1 - active) = {}
    BY <2>1 DEF IInv, Clean
  <2>4. Program'
    BY <1>1, <1>3, <1>6, <2>1 DEF IInv, Program
  <2>5. Clean'
    BY <1>1, <1>3, <1>6, <2>1, <2>3 DEF IInv, Clean
  <2> QED
    BY <1>1, <2>1, <2>2, <2>3, <2>4, <2>5, ControlStep
<1>9. CASE Swapped
  <2>1. /\ upc = "wait" /\ bpf.im # 1 - active /\ upc' = "drain" /\ UNCHANGED <<slot, active, failures>>
    BY <1>9 DEF Swapped
  <2>2. Types'
    BY <1>3, <1>5, <2>1 DEF Phase
  <2>3. bpf.pc # "idle" => bpf.im = active
    BY <1>3, <2>1 DEF IInv, Program, Types, Side
  <2>4. Program'
    BY <1>1, <1>3, <1>6, <2>1, <2>3 DEF IInv, Program
  <2>5. Clean'
    BY <1>1, <1>3, <1>6, <2>1 DEF IInv, Clean
  <2> QED
    BY <1>1, <2>1, <2>2, <2>4, <2>5, ControlStep
(* The rest: the maps keep their roles. *)
<1>10. CASE /\ UNCHANGED <<slot, active>> /\ upc \notin {"new", "wait"}
            /\ upc' \in Phase \ {"new", "wait"}
            /\ \/ failures' = failures + 1
               \/ failures' = failures /\ (upc = "drain" => Entries(1 - active) = {})
  <2>1. Types'
    BY <1>3, <1>5, <1>10
  <2>2. Program'
    BY <1>1, <1>6, <1>10 DEF IInv, Program
  <2>3. failures' = 0 => failures = 0 /\ (upc = "drain" => Entries(1 - active) = {})
    BY <1>3, <1>10
  <2>4. Clean'
    BY <1>1, <1>6, <1>10, <2>3 DEF IInv, Clean
  <2> QED
    BY <1>1, <1>10, <2>1, <2>2, <2>3, <2>4, ControlStep
<1>11. (Consume \/ Destroy \/ SwapFails \/ DrainDone \/ DrainFails \/ Stamp) =>
            /\ UNCHANGED <<slot, active>> /\ upc \notin {"new", "wait"}
            /\ upc' \in Phase \ {"new", "wait"}
            /\ \/ failures' = failures + 1
               \/ failures' = failures /\ (upc = "drain" => Entries(1 - active) = {})
  BY DEF Consume, Destroy, SwapFails, DrainDone, DrainFails, Stamp, After, Drained, Phase, inactive
<1> QED
  BY <1>7, <1>8, <1>9, <1>10, <1>11 DEF User

LEMMA EnvironmentInv == ASSUME IInv, TimerExpires \/ RequestStop \/ UNCHANGED vars PROVE IInv'
<1>1. UNCHANGED <<map, drop_cnt, info, bpf, registered, exported, slot, active, upc, failures>>
  BY DEF TimerExpires, RequestStop, vars, bpfVars, userVars
<1>2. Types'
  <2>1. /\ notified \in BOOLEAN /\ deaf \in BOOLEAN /\ timer \in BOOLEAN /\ stop_called \in BOOLEAN
    BY DEF IInv, Types
  <2>2. /\ notified' \in BOOLEAN /\ deaf' \in BOOLEAN /\ timer' \in BOOLEAN /\ stop_called' \in BOOLEAN
    BY <2>1 DEF TimerExpires, RequestStop, vars, bpfVars, userVars
  <2> QED
    BY <1>1, <2>2 DEF IInv, Types
<1>3. Program' /\ Clean'
  BY <1>1 DEF IInv, Program, Clean, Entries
<1> QED
  BY <1>1, <1>2, <1>3, ControlStep

-----------------------------------------------------------------------------
(* register_incident *)

LEMMA RegisterInv == ASSUME IInv, NEW a \in Addr, Register(a) PROVE IInv'
<1>1. /\ bpf.pc = "idle" /\ registered < MaxIncidents /\ registered' = registered + 1
      /\ UNCHANGED <<map, slot, notified, info, upc, call, active, timer, stop_called, exported,
                     deaf, failures>>
  BY DEF Register, userVars
<1>2. /\ \A i : Entries(i)' = Entries(i)
      /\ Entries(active)' = Entries(active) /\ Entries(1 - active)' = Entries(1 - active)
      /\ Entries(slot)' = Entries(slot) /\ \A i : Packets(i, Addr)' = Packets(i, Addr)
  BY <1>1 DEF Entries, Packets
<1>3. registered \in Nat /\ registered' \in 0..MaxIncidents /\ drop_cnt \in Nat /\ exported \in Nat
  BY <1>1, IncidentLogAssumption DEF IInv, Types
<1>4. Packets(0, Addr) \in Nat /\ Packets(1, Addr) \in Nat
  BY PacketFacts DEF IInv, Side
<1>5. Fits' /\ NeverUnderestimates'
  BY <1>1, <1>2 DEF IInv, Fits, NeverUnderestimates
<1>6. CASE slot = NoMap
  <2>1. drop_cnt' = drop_cnt + 1 /\ bpf' = bpf
    BY <1>6 DEF Register
  <2>2. Types'
    BY <1>1, <1>3, <2>1 DEF IInv, Types
  <2>3. Program' /\ Clean'
    BY <1>1, <1>2, <2>1 DEF IInv, Program, Clean, Entries
  <2>4. Accounted'
    BY <1>1, <1>2, <1>3, <1>4, <2>1 DEF IInv, Accounted
  <2> QED
    BY <1>5, <2>2, <2>3, <2>4 DEF IInv
<1>7. CASE slot # NoMap
  <2>1. bpf' = [pc |-> "lookup", addr |-> a, im |-> slot] /\ drop_cnt' = drop_cnt
    BY <1>7 DEF Register
  <2>2. slot = active /\ active \in Side /\ active # 1 - active /\ slot # NoMap
    BY <1>7, SideFacts DEF IInv, Types
  <2>3. Types'
    BY <1>1, <1>3, <2>1, <2>2 DEF IInv, Types
  <2>4. Program' /\ Clean'
    BY <1>1, <1>2, <2>1, <2>2 DEF IInv, Program, Clean
  <2>5. Accounted'
    BY <1>1, <1>2, <1>3, <1>4, <2>1 DEF IInv, Accounted
  <2> QED
    BY <1>5, <2>3, <2>4, <2>5 DEF IInv
<1> QED
  BY <1>6, <1>7

LEMMA LookupInv == ASSUME IInv, Lookup PROVE IInv'
<1>1. /\ bpf.pc = "lookup"
      /\ bpf' = [bpf EXCEPT !.pc = IF bpf.addr \in Entries(bpf.im) THEN "count" ELSE "insert"]
      /\ UNCHANGED <<map, slot, drop_cnt, notified, info, registered, upc, call, active, timer,
                     stop_called, exported, deaf, failures>>
  BY DEF Lookup, userVars
<1>2. bpf \in [pc : {"idle", "lookup", "count", "insert"}, addr : Addr, im : Side \cup {NoMap}]
  BY DEF IInv, Types
<1>3. /\ bpf' \in [pc : {"idle", "lookup", "count", "insert"}, addr : Addr, im : Side \cup {NoMap}]
      /\ bpf'.addr = bpf.addr /\ bpf'.im = bpf.im
      /\ bpf'.pc = IF bpf.addr \in Entries(bpf.im) THEN "count" ELSE "insert"
  BY <1>1, <1>2
<1>4. /\ \A i : Entries(i)' = Entries(i) /\ Packets(i, Addr)' = Packets(i, Addr)
      /\ Entries(active)' = Entries(active) /\ Entries(1 - active)' = Entries(1 - active)
      /\ Entries(slot)' = Entries(slot) /\ Entries(bpf.im)' = Entries(bpf.im)
  BY <1>1, <1>3 DEF Entries, Packets
<1>5. Types'
  BY <1>1, <1>3 DEF IInv, Types
<1>6. Program' /\ Clean'
  BY <1>1, <1>3, <1>4 DEF IInv, Program, Clean
<1>7. Fits' /\ NeverUnderestimates' /\ Accounted'
  BY <1>1, <1>3, <1>4 DEF IInv, Fits, NeverUnderestimates, Accounted
<1> QED
  BY <1>5, <1>6, <1>7 DEF IInv

(* A program done with its packet, which one of the maps or drop_cnt now   *)
(* counts                                                                  *)
LEMMA DoneInv ==
    ASSUME IInv, NEW m \in Side, bpf.im = m, bpf.pc # "idle", bpf' = Idle,
           UNCHANGED <<slot, registered, upc, call, active, timer, stop_called, exported, deaf, failures>>,
           map' \in [Side -> [Addr -> Nat]], info' \in [hint : Side \cup {NoMap}, cnt : Nat],
           notified' \in BOOLEAN, drop_cnt' \in Nat, Fits', NeverUnderestimates',
           \A i \in Side : i # m => map'[i] = map[i],
           Packets(m, Addr)' + drop_cnt' = Packets(m, Addr) + drop_cnt + 1
    PROVE  IInv'
<1>1. /\ bpf'.pc = "idle" /\ bpf'.im = NoMap /\ active \in Side
      /\ bpf' \in [pc : {"idle", "lookup", "count", "insert"}, addr : Addr, im : Side \cup {NoMap}]
  BY IdleType DEF IInv, Types
<1>2. Types'
  BY <1>1 DEF IInv, Types
<1>3. ASSUME NEW i \in Side, i # m
      PROVE  Entries(i)' = Entries(i) /\ Packets(i, Addr)' = Packets(i, Addr)
  <2>1. map'[i] = map[i]
    BY <1>3
  <2>2. Entries(i)' = {t \in Addr : map'[i][t] > 0} /\ Entries(i) = {t \in Addr : map[i][t] > 0}
    BY DEF Entries
  <2>3. /\ Packets(i, Addr)' = Cardinality(UNION {{t} \X (1..map'[i][t]) : t \in Addr})
        /\ Packets(i, Addr) = Cardinality(UNION {{t} \X (1..map[i][t]) : t \in Addr})
    BY DEF Packets
  <2> QED
    BY <2>1, <2>2, <2>3
<1>4. Program'
  BY <1>1 DEF IInv, Program
<1>5. Clean'
  <2>1. 1 - active \in Side /\ 1 - active # active /\ 1 - active # NoMap
    BY <1>1, SideFacts
  <2>2. Entries(1 - active)' = {t \in Addr : map'[1 - active][t] > 0}
    BY DEF Entries
  <2>3. upc # "wait" => Entries(1 - active)' = Entries(1 - active)
    <3>1. upc # "wait" => m = active
      BY DEF IInv, Program
    <3> QED
      BY <2>1, <2>2, <3>1 DEF Entries
  <2>4. slot # NoMap
    BY DEF IInv, Program
  <2> QED
    BY <1>1, <2>1, <2>3, <2>4 DEF IInv, Clean
<1>6. Accounted'
  <2>1. /\ Packets(0, Addr) \in Nat /\ Packets(1, Addr) \in Nat
        /\ Packets(0, Addr)' \in Nat /\ Packets(1, Addr)' \in Nat
    <3>1. \A i \in Side : Packets(i, Addr) \in Nat
      BY PacketFacts DEF IInv
    <3>2. \A i \in Side : Packets(i, Addr)' = Cardinality(Tokens(map'[i], Addr)) /\ map'[i] \in [Addr -> Nat]
      BY DEF Packets, Tokens
    <3>3. \A i \in Side : Packets(i, Addr)' \in Nat
      BY <3>2, TokensFinite, IncidentLogAssumption
    <3> QED
      BY <3>1, <3>3 DEF Side
  <2>2. m = 0 \/ m = 1
    BY DEF Side
  <2>3. /\ m = 0 => Packets(1, Addr)' = Packets(1, Addr)
        /\ m = 1 => Packets(0, Addr)' = Packets(0, Addr)
    BY <1>3 DEF Side
  <2>4. exported \in Nat /\ drop_cnt \in Nat
    BY DEF IInv, Types
  <2> QED
    BY <1>1, <2>1, <2>2, <2>3, <2>4 DEF IInv, Accounted
<1> QED
  BY <1>2, <1>4, <1>5, <1>6 DEF IInv

LEMMA Working ==
    ASSUME IInv, bpf.pc # "idle"
    PROVE  /\ bpf.im \in Side /\ bpf.addr \in Addr /\ slot = active /\ active \in Side
           /\ slot # NoMap
           /\ \A a \in Addr : map[bpf.im][a] \in Nat
           /\ map[bpf.im] \in [Addr -> Nat]
<1>1. bpf.im \in Side /\ bpf.addr \in Addr
  BY DEF IInv, Types, Program
<1> QED
  BY <1>1, SideFacts DEF IInv, Types, Program

(* What one more packet at the program's address does to its map *)
LEMMA MapBump ==
    ASSUME IInv, bpf.pc # "idle", NEW m, m = bpf.im,
           map' = [map EXCEPT ![bpf.im][bpf.addr] = map[bpf.im][bpf.addr] + 1]
    PROVE  /\ map' \in [Side -> [Addr -> Nat]]
           /\ \A i \in Side : i # m => map'[i] = map[i]
           /\ Packets(m, Addr)' = Packets(m, Addr) + 1
           /\ Entries(m)' = Entries(m) \cup {bpf.addr}
<1>1. /\ m \in Side /\ bpf.addr \in Addr /\ map[m] \in [Addr -> Nat]
      /\ map \in [Side -> [Addr -> Nat]]
  BY Working DEF IInv, Types
<1>2. /\ map' \in [Side -> [Addr -> Nat]] /\ map'[m] \in [Addr -> Nat]
      /\ \A i \in Side : i # m => map'[i] = map[i]
      /\ map'[m][bpf.addr] = map[m][bpf.addr] + 1
      /\ \A a \in Addr : a # bpf.addr => map'[m][a] = map[m][a]
  BY <1>1
<1>3. Packets(m, Addr)' = Cardinality(Tokens(map'[m], Addr)) /\ Packets(m, Addr) = Cardinality(Tokens(map[m], Addr))
  BY DEF Packets, Tokens
<1>4. Packets(m, Addr)' = Packets(m, Addr) + 1
  <2>1. \A f, g \in [Addr -> Nat], b \in Addr :
           g[b] = f[b] + 1 /\ (\A a \in Addr : a # b => g[a] = f[a])
           => Cardinality(Tokens(g, Addr)) = Cardinality(Tokens(f, Addr)) + 1
    BY 1 \in Nat, TokensAdd, IncidentLogAssumption
  <2> QED
    BY <1>1, <1>2, <1>3, <2>1
<1>5. Entries(m)' = Entries(m) \cup {bpf.addr}
  BY <1>1, <1>2 DEF Entries
<1> QED
  BY <1>2, <1>4, <1>5

LEMMA CountInv == ASSUME IInv, Count PROVE IInv'
<1> DEFINE im == bpf.im
<1>1. /\ bpf.pc = "count" /\ bpf' = Idle
      /\ UNCHANGED <<slot, drop_cnt, notified, info, registered, upc, call, active, timer,
                     stop_called, exported, deaf, failures>>
  BY DEF Count, userVars
<1>2. bpf.addr \in Entries(bpf.im)
  BY <1>1 DEF IInv, Program
<1>3. map' = [map EXCEPT ![bpf.im][bpf.addr] = map[bpf.im][bpf.addr] + 1]
  BY <1>2 DEF Count
<1>4. PICK m \in Side : m = bpf.im
  BY <1>1, Working
<1>5. /\ map' \in [Side -> [Addr -> Nat]]
      /\ \A i \in Side : i # m => map'[i] = map[i]
      /\ Packets(m, Addr)' = Packets(m, Addr) + 1
      /\ Entries(m)' = Entries(m) \cup {bpf.addr}
  BY <1>1, <1>3, <1>4, MapBump
<1>6. \A i \in Side : Entries(i)' = Entries(i)
  <2>1. Entries(m)' = Entries(m)
    BY <1>2, <1>4, <1>5
  <2> QED
    BY <1>5, <2>1 DEF Entries
<1>7. Fits'
  BY <1>6 DEF IInv, Fits
<1>8. NeverUnderestimates'
  <2>1. slot' = slot /\ slot \in Side
    BY <1>1, Working
  <2>2. Entries(slot)' = Entries(slot)
    BY <1>6, <2>1 DEF Entries
  <2> QED
    BY <1>1, <2>2 DEF IInv, NeverUnderestimates
<1>9. Packets(m, Addr) \in Nat /\ drop_cnt \in Nat
  BY PacketFacts DEF IInv, Types
<1>10. /\ info' \in [hint : Side \cup {NoMap}, cnt : Nat] /\ notified' \in BOOLEAN
  BY <1>1 DEF IInv, Types
<1> QED
  BY <1>1, <1>4, <1>5, <1>7, <1>8, <1>9, <1>10, DoneInv

LEMMA InsertInv == ASSUME IInv, Insert PROVE IInv'
<1>1. /\ bpf.pc = "insert" /\ Cardinality(Entries(bpf.im)) < MAX_INCIDENTS_PER_CPU
      /\ map' = [map EXCEPT ![bpf.im][bpf.addr] = 1] /\ info' = update_map_info(bpf.im) /\ bpf' = Idle
      /\ UNCHANGED <<slot, drop_cnt, registered, upc, call, active, timer,
                     stop_called, exported, deaf, failures>>
  BY DEF Insert, userVars
<1>2. bpf.addr \notin Entries(bpf.im) /\ bpf.im \in Side /\ bpf.addr \in Addr
  BY <1>1, Working DEF IInv, Program
<1>3. map[bpf.im][bpf.addr] = 0
  BY <1>2, EntryFacts DEF IInv
<1>4. map' = [map EXCEPT ![bpf.im][bpf.addr] = map[bpf.im][bpf.addr] + 1]
  BY <1>1, <1>3
<1>5. PICK m \in Side : m = bpf.im
  BY <1>2
<1>6. /\ map' \in [Side -> [Addr -> Nat]]
      /\ \A i \in Side : i # m => map'[i] = map[i]
      /\ Packets(m, Addr)' = Packets(m, Addr) + 1
      /\ Entries(m)' = Entries(m) \cup {bpf.addr}
  BY <1>1, <1>4, <1>5, MapBump
<1>7. /\ IsFiniteSet(Entries(m)) /\ Cardinality(Entries(m)) \in Nat
      /\ Cardinality(Entries(m)') = Cardinality(Entries(m)) + 1
  <2>1. IsFiniteSet(Entries(m)) /\ Cardinality(Entries(m)) \in Nat
    BY EntryFacts DEF IInv
  <2>2. bpf.addr \notin Entries(m)
    BY <1>2, <1>5
  <2>3. Cardinality(Entries(m) \cup {bpf.addr}) = Cardinality(Entries(m)) + 1
    BY <2>1, <2>2, FS_AddElement
  <2> QED
    BY <1>6, <2>1, <2>3
<1>8. \A i \in Side : i # m => Entries(i)' = Entries(i)
  BY <1>6 DEF Entries
<1>9. Fits'
  BY <1>1, <1>5, <1>7, <1>8, IncidentLogAssumption DEF IInv, Fits
<1>10. /\ info \in [hint : Side \cup {NoMap}, cnt : Nat]
       /\ info' = IF info.hint = m THEN [info EXCEPT !.cnt = @ + 1] ELSE [hint |-> m, cnt |-> 1]
  BY <1>1, <1>5 DEF IInv, Types, update_map_info
<1>11. /\ info' \in [hint : Side \cup {NoMap}, cnt : Nat] /\ info.cnt \in Nat
       /\ info'.hint = m /\ info'.cnt = IF info.hint = m THEN info.cnt + 1 ELSE 1
  BY <1>10
<1>12. notified' \in BOOLEAN
  <2>1. notified \in BOOLEAN /\ deaf \in BOOLEAN
    BY DEF IInv, Types
  <2> QED
    BY <2>1 DEF Insert, Push
<1>13. NeverUnderestimates'
  <2> SUFFICES ASSUME failures = 0, Entries(slot)' # {}
               PROVE  info'.hint = slot /\ info'.cnt >= Cardinality(Entries(slot)')
    BY <1>1 DEF NeverUnderestimates
  <2>1. slot' = slot /\ slot \in Side /\ slot = active /\ slot # NoMap
    BY <1>1, Working
  <2>2. Entries(slot)' = {a \in Addr : map'[slot][a] > 0}
    BY <2>1 DEF Entries
  <2>3. CASE m = slot
    <3>1. Entries(slot)' = Entries(m)'
      BY <2>2, <2>3 DEF Entries
    <3>2. CASE Entries(m) = {}
      <4>1. Cardinality(Entries(m)) = 0
        BY <3>2, FS_EmptySet
      <4> QED
        BY <1>7, <1>11, <2>3, <3>1, <4>1
    <3>3. CASE Entries(m) # {}
      <4>1. info.hint = m /\ info.cnt >= Cardinality(Entries(m))
        BY <2>1, <2>3, <3>3 DEF IInv, NeverUnderestimates
      <4> QED
        BY <1>7, <1>11, <2>3, <3>1, <4>1
    <3> QED
      BY <3>2, <3>3
  <2>4. CASE m # slot
    <3>1. m = 1 - active
      BY <2>1, <2>4 DEF Side
    <3>2. Entries(active) = {}
      BY <1>5, <3>1 DEF IInv, Clean
    <3>3. Entries(slot)' = {}
      BY <1>6, <2>1, <2>2, <2>4, <3>2 DEF Entries
    <3> QED
      BY <3>3
  <2> QED
    BY <2>3, <2>4
<1>14. Packets(m, Addr) \in Nat /\ drop_cnt \in Nat
  BY PacketFacts DEF IInv, Types
<1> QED
  BY <1>1, <1>5, <1>6, <1>9, <1>11, <1>12, <1>13, <1>14, DoneInv

LEMMA InsertFullInv == ASSUME IInv, InsertFull PROVE IInv'
<1>1. /\ bpf.pc = "insert" /\ drop_cnt' = drop_cnt + 1 /\ bpf' = Idle
      /\ UNCHANGED <<map, slot, info, registered, upc, call, active, timer,
                     stop_called, exported, deaf, failures>>
  BY DEF InsertFull, userVars
<1>2. PICK m \in Side : m = bpf.im
  BY <1>1, Working
<1>3. Packets(m, Addr) \in Nat /\ drop_cnt \in Nat /\ Packets(m, Addr)' = Packets(m, Addr)
  BY <1>1, PacketFacts DEF IInv, Types, Packets
<1>4. Fits' /\ NeverUnderestimates'
  BY <1>1 DEF IInv, Fits, NeverUnderestimates, Entries
<1>5. notified' \in BOOLEAN
  <2>1. deaf \in BOOLEAN
    BY DEF IInv, Types
  <2> QED
    BY <2>1 DEF InsertFull, Push
<1>6. map' \in [Side -> [Addr -> Nat]] /\ info' \in [hint : Side \cup {NoMap}, cnt : Nat]
  BY <1>1 DEF IInv, Types
<1> QED
  BY <1>1, <1>2, <1>3, <1>4, <1>5, <1>6, DoneInv

-----------------------------------------------------------------------------
(* drain_by_batch: what is deleted was handed to the writer. *)
LEMMA DrainBatchInv == ASSUME IInv, DrainBatch PROVE IInv'
<1>1. PICK S \in SUBSET Entries(inactive) :
         /\ exported' = exported + Packets(inactive, S)
         /\ map' = [map EXCEPT ![inactive] = [a \in Addr |-> IF a \in S THEN 0 ELSE @[a]]]
  BY DEF DrainBatch
<1>2. /\ upc = "drain"
      /\ UNCHANGED <<slot, drop_cnt, notified, info, bpf, registered, upc, call, active, timer,
                     stop_called, deaf, failures>>
  BY DEF DrainBatch, bpfVars
<1>3. PICK i \in Side : i = 1 - active
  BY SideFacts DEF IInv, Types
<1>4. active \in Side /\ i # active /\ S \subseteq Entries(i) /\ Entries(i) \subseteq Addr
  BY <1>3, SideFacts, EntryFacts DEF IInv, Types, inactive
<1>5. map \in [Side -> [Addr -> Nat]] /\ map[i] \in [Addr -> Nat]
  BY DEF IInv, Types
<1> DEFINE g == [a \in Addr |-> IF a \in S THEN 0 ELSE map[i][a]]
<1>6. map' = [map EXCEPT ![i] = g]
  BY <1>1, <1>3, <1>5 DEF inactive
<1>7. g \in [Addr -> Nat]
  BY <1>5
<1>8. map' \in [Side -> [Addr -> Nat]] /\ map'[i] = g /\ \A j \in Side : j # i => map'[j] = map[j]
  BY <1>5, <1>6, <1>7
<1>9. Packets(i, Addr) = Packets(i, S) + Packets(i, Addr)' /\ Packets(i, S) \in Nat /\ Packets(i, Addr)' \in Nat
  <2>1. /\ Packets(i, Addr) = Cardinality(Tokens(map[i], Addr))
        /\ Packets(i, S) = Cardinality(Tokens(map[i], S))
        /\ Packets(i, Addr)' = Cardinality(Tokens(g, Addr))
    BY <1>8 DEF Packets, Tokens
  <2>2. S \in SUBSET Addr /\ IsFiniteSet(Addr)
    BY <1>4, IncidentLogAssumption
  <2>3. Cardinality(Tokens(map[i], Addr)) = Cardinality(Tokens(map[i], S)) + Cardinality(Tokens(g, Addr))
    BY <1>5, <2>2, TokensSplit
  <2>4. Cardinality(Tokens(g, Addr)) \in Nat
    <3> HIDE DEF g
    <3> QED
      BY <1>7, <2>2, TokensFinite
  <2>5. Cardinality(Tokens(map[i], S)) \in Nat
    <3>1. Tokens(map[i], S) \subseteq Tokens(map[i], Addr)
      BY <2>2 DEF Tokens
    <3> QED
      BY <1>5, <2>2, <3>1, TokensFinite, FS_Subset, FS_CardinalityType
  <2> QED
    BY <2>1, <2>3, <2>4, <2>5
<1>10. exported' = exported + Packets(i, S) /\ exported \in Nat /\ drop_cnt \in Nat
  BY <1>1, <1>3 DEF inactive, IInv, Types
<1>11. Types'
  BY <1>2, <1>8, <1>9, <1>10 DEF IInv, Types
<1>12. /\ \A j \in Side : j # i => Entries(j)' = Entries(j)
       /\ Entries(i)' \subseteq Entries(i)
  <2>1. \A a \in Addr : g[a] > 0 => map[i][a] > 0
    BY <1>5
  <2> HIDE DEF g
  <2> QED
    BY <1>8, <2>1 DEF Entries
<1> HIDE DEF g
<1>13. Fits'
  <2>1. \A j \in Side : Entries(j)' \subseteq Entries(j)
    BY <1>12
  <2>2. ASSUME NEW j \in Side PROVE Cardinality(Entries(j)') <= MAX_INCIDENTS_PER_CPU
    <3>1. IsFiniteSet(Entries(j)) /\ Cardinality(Entries(j)) \in Nat
      BY EntryFacts DEF IInv
    <3>2. IsFiniteSet(Entries(j)') /\ Cardinality(Entries(j)') <= Cardinality(Entries(j))
      BY <2>1, <3>1, FS_Subset
    <3>3. Cardinality(Entries(j)') \in Nat
      BY <3>2, FS_CardinalityType
    <3> QED
      BY <3>1, <3>2, <3>3, IncidentLogAssumption DEF IInv, Fits
  <2> QED
    BY <2>2 DEF Fits
<1>14. /\ bpf.pc # "idle" => bpf.im = active
       /\ Entries(active)' = Entries(active) /\ Entries(bpf.im)' = {a \in Addr : map'[bpf.im][a] > 0}
  <2>1. Entries(active)' = {a \in Addr : map'[active][a] > 0}
    BY <1>2 DEF Entries
  <2> QED
    BY <1>2, <1>4, <1>8, <2>1 DEF IInv, Program, Entries
<1>15. Program'
  <2>1. bpf.pc # "idle" => Entries(bpf.im)' = Entries(bpf.im)
    BY <1>2, <1>4, <1>8, <1>14 DEF Entries
  <2> QED
    BY <1>2, <2>1 DEF IInv, Program
<1>16. Clean'
  BY <1>2, <1>14 DEF IInv, Clean
<1>17. NeverUnderestimates'
  <2>1. slot # NoMap => slot = active
    BY DEF IInv, Types
  <2>2. slot # NoMap => Entries(slot)' = Entries(slot)
    BY <1>2, <1>14, <2>1 DEF Entries
  <2> QED
    BY <1>2, <2>2 DEF IInv, NeverUnderestimates
<1>18. Accounted'
  <2>1. i = 0 \/ i = 1
    BY DEF Side
  <2>2. /\ i = 0 => Packets(1, Addr)' = Packets(1, Addr)
        /\ i = 1 => Packets(0, Addr)' = Packets(0, Addr)
    <3>1. \A j \in Side : j # i => Packets(j, Addr)' = Packets(j, Addr)
      BY <1>8 DEF Packets
    <3> QED
      BY <3>1 DEF Side
  <2>3. Packets(0, Addr) \in Nat /\ Packets(1, Addr) \in Nat
    BY PacketFacts DEF IInv, Side
  <2> QED
    BY <1>2, <1>9, <1>10, <2>1, <2>2, <2>3 DEF IInv, Accounted
<1> QED
  BY <1>11, <1>13, <1>15, <1>16, <1>17, <1>18 DEF IInv

LEMMA NextInv == IInv /\ [Next]_vars => IInv'
  BY RegisterInv, LookupInv, CountInv, InsertInv, InsertFullInv, UserInv, DrainBatchInv,
     EnvironmentInv DEF Next, Bpf

LEMMA Invariant == Spec => []IInv
<1>1. Init => IInv
  BY InitInv
<1> QED
  BY <1>1, NextInv, PTL DEF Spec

-----------------------------------------------------------------------------
(* The maps stay within max_entries, their counts within what was          *)
(* registered, and the element of MAP_LOG_ACTIVE_FD is the processor's     *)
(* active_map_.                                                            *)
THEOREM TypeCorrect == Spec => []TypeOK
<1>1. ASSUME IInv PROVE TypeOK
  <2>1. \A i \in Side : /\ map[i] \in [Addr -> Nat]
                        /\ Packets(i, Addr) = Cardinality(Tokens(map[i], Addr))
                        /\ Packets(i, Addr) \in Nat
    BY <1>1, PacketFacts DEF IInv, Types
  <2>2. registered \in Nat /\ registered <= MaxIncidents /\ exported \in Nat /\ drop_cnt \in Nat
    BY <1>1, IncidentLogAssumption DEF IInv, Types
  <2>3. drop_cnt <= MaxIncidents /\ Packets(0, Addr) <= MaxIncidents /\ Packets(1, Addr) <= MaxIncidents
    BY <1>1, <2>1, <2>2, IncidentLogAssumption DEF IInv, Accounted, Side
  <2>4. ASSUME NEW i \in Side, NEW a \in Addr PROVE map[i][a] \in 0..MaxIncidents
    <3>1. map[i][a] \in Nat /\ map[i][a] <= Packets(i, Addr)
      BY <2>1, TokensBound, IncidentLogAssumption
    <3>2. Packets(i, Addr) \in Nat /\ Packets(i, Addr) <= MaxIncidents
      BY <2>1, <2>3 DEF Side
    <3> QED
      BY <3>1, <3>2, IncidentLogAssumption
  <2>5. drop_cnt \in 0..MaxIncidents /\ slot \in Side \cup {NoMap}
    BY <1>1, <2>2, <2>3, IncidentLogAssumption DEF IInv, Types
  <2> QED
    BY <1>1, <2>4, <2>5 DEF IInv, Types, Fits, TypeOK, Phase
<1> QED
  BY <1>1, Invariant, PTL

(* No incident is lost and none is reported twice: at every moment those   *)
(* registered are in a map, with the writer or in drop_cnt, whatever swap, *)
(* read or delete fails and whenever the logger is stopped.                *)
THEOREM NothingVanishes == Spec => []Accounted
<1>1. IInv => Accounted
  BY DEF IInv
<1> QED
  BY <1>1, Invariant, PTL

(* Until a map operation fails, insert_cnt is no less than the number of   *)
(* entries of the active map, so the overflow event is never too late.     *)
THEOREM OverflowIsNoticed == Spec => []NeverUnderestimates
<1>1. IInv => NeverUnderestimates
  BY DEF IInv
<1> QED
  BY <1>1, Invariant, PTL
=============================================================================
