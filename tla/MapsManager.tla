----------------------------- MODULE MapsManager -----------------------------
(***************************************************************************)
(* BpfMapsManager (manager/xfw/maps_manager.cc) with its IndexPool and     *)
(* IndexPoolTransaction (index_pool.cc): how the manager moves the kernel  *)
(* from one rule set to the next and who owns which rate-limit bucket.     *)
(*                                                                         *)
(* One rule group is updated at a time: "src", "icmp" or "dst" with its    *)
(* pair of maps and its default rules, or a single TCP flag rule.  A rule  *)
(* lives either under a key of a double-buffered hash map or in a slot of  *)
(* the XfwFilterCfg array element; wherever it lives, a RATE_LIMIT rule    *)
(* owns one bucket of the shared bucket array.  The update builds the new  *)
(* rules, writes the inactive map, and publishes map index and slots with  *)
(* one write of XfwFilterCfg; buckets change hands through a transaction   *)
(* that commits after that write and rolls back if anything throws.        *)
(*                                                                         *)
(* BpfShadowHashMap::replace is one step here: ShadowHashMap shows that a  *)
(* caller may see it so.  The IndexPool vector is a bag: which free index  *)
(* pop_back() yields does not matter here, how often one is in it does.    *)
(***************************************************************************)
EXTENDS Integers, FiniteSets

CONSTANTS IcmpKey, DstKey,   \* keys of the icmp and dst rule maps
          Default, Flag,     \* rules.defaults[] and rules.tcp_flags[]
          DefaultGroup,      \* the group each default belongs to
          Named, NoName,     \* named rate limits
          Bucket, NoBucket,  \* elements of the bucket array
          MAX_ICMP_RULES, MAX_DST_RULES

Key      == IcmpKey \cup DstKey
Slot     == Default \cup Flag
MapGroup == {"src", "icmp", "dst"}
Group    == MapGroup \cup Flag

XFW_MAX_RATE_LIMITER_BUCKETS ==
    MAX_ICMP_RULES * 2 + MAX_DST_RULES * 2 + Cardinality(Flag) * 2 + Cardinality(Default) * 2

ASSUME MapsManagerAssumption ==
    /\ MAX_ICMP_RULES \in Nat /\ MAX_DST_RULES \in Nat
    /\ IsFiniteSet(Flag) /\ IsFiniteSet(Default)
    /\ IcmpKey \cap DstKey = {} /\ Flag \cap Default = {}
    /\ Key \cap Slot = {}
    /\ Flag \cap MapGroup = {}
    /\ DefaultGroup \in [Default -> MapGroup]
    /\ NoName \notin Named /\ NoBucket \notin Bucket
    /\ IsFiniteSet(Bucket) /\ Cardinality(Bucket) = XFW_MAX_RATE_LIMITER_BUCKETS

KeysOf(g)  == IF g = "icmp" THEN IcmpKey ELSE IF g = "dst" THEN DstKey ELSE {}
SlotsOf(g) == IF g \in Flag THEN {g} ELSE {d \in Default : DefaultGroup[d] = g}
Limit(g)   == IF g = "icmp" THEN MAX_ICMP_RULES ELSE MAX_DST_RULES

(* What a configuration asks of a rule, and the XfwActionRule built for it.*)
(* ALLOW and BLOCK are one action here: neither has a bucket.              *)
Wanted == [action : {"plain"}, named : {NoName}] \cup [action : {"rl"}, named : Named]
Rule == [action : {"plain", "none"}, named : {NoName}, bucket : {NoBucket}]
        \cup [action : {"rl"}, named : Named, bucket : Bucket]
NoRule == [action |-> "none", named |-> NoName, bucket |-> NoBucket]
Plain  == [action |-> "plain", named |-> NoName, bucket |-> NoBucket]

VARIABLES
    amap, slots,    \* XfwFilterCfg: active map per group, rules held in the element
    kmap,           \* the two BPF rule maps of every group
    snap,           \* their BpfShadowHashMap snapshots
    resync,         \* the <<group, side>> pairs that need a full resync
    free,           \* IndexPool: how often each index is in free_indices_
    used,           \* buckets with non-zero counters
    pc, grp,        \* the set_*_rules call in progress and its group
    cfg,            \* its copy of XfwFilterCfg
    new,            \* the rules it has built
    todo,           \* slots it has not visited yet
    allocated, released,  \* its IndexPoolTransaction
    err             \* why it threw

kernelVars == <<amap, slots, kmap>>
poolVars   == <<free, used>>
callVars   == <<pc, grp, cfg, new, todo, allocated, released, err>>
vars == <<kernelVars, snap, resync, poolVars, callVars>>

Side == {0, 1}
NoCfg == [amap |-> [g \in MapGroup |-> 0], slots |-> [s \in Slot |-> Plain]]

Init == /\ amap = [g \in MapGroup |-> 0]
        /\ slots = [s \in Slot |-> Plain]
        /\ kmap = [d \in Side |-> [k \in Key |-> NoRule]]
        /\ snap = [d \in Side |-> [k \in Key |-> NoRule]]
        /\ resync = {}
        /\ free = [b \in Bucket |-> 1]
        /\ used = {}
        /\ pc = "idle"
        /\ grp = "src"
        /\ cfg = NoCfg
        /\ new = [k \in Key |-> NoRule]
        /\ todo = {}
        /\ allocated = {}
        /\ released = {}
        /\ err = "none"

(* The group a key belongs to, and the rule the datapath finds under it *)
GroupOf(k) == IF k \in IcmpKey THEN "icmp" ELSE "dst"
Live(p) == IF p \in Key THEN kmap[amap[GroupOf(p)]][p] ELSE slots[p]

-----------------------------------------------------------------------------
(* reconcile_ratelimit_bucket: the rule r for w where old was the rule *)

(* IndexPoolTransaction::allocate / release *)

Allocate(b) == /\ free[b] > 0
               /\ free' = [free EXCEPT ![b] = @ - 1]
               /\ allocated' = allocated \cup {b}

ReleaseOf(old) == IF old.action = "rl" THEN released \cup {old.bucket} ELSE released

Reuses(w, old) == w.action = "rl" /\ old.action = "rl" /\ w.named = old.named

ReconcileNoReuse(w, old, r) ==
    \/ /\ w.action # "rl"
       /\ r = Plain
       /\ released' = ReleaseOf(old)
       /\ UNCHANGED <<free, allocated>>
    \/ \E b \in Bucket :
       /\ w.action = "rl"
       /\ r = [action |-> "rl", named |-> w.named, bucket |-> b]
       /\ Allocate(b)
       /\ released' = ReleaseOf(old)

ReconcileReleasesNow(w, old, r) ==
    \/ /\ w.action # "rl"
       /\ r = Plain
       /\ free' = [b \in Bucket |-> IF b = old.bucket THEN free[b] + 1 ELSE free[b]]
       /\ UNCHANGED <<allocated, released>>
    \/ /\ Reuses(w, old)
       /\ r = old
       /\ UNCHANGED <<free, allocated, released>>
    \/ \E b \in Bucket :
       /\ w.action = "rl" /\ ~Reuses(w, old)
       /\ r = [action |-> "rl", named |-> w.named, bucket |-> b]
       /\ Allocate(b)
       /\ released' = ReleaseOf(old)

Reconcile(w, old, r) ==
    \/ /\ w.action # "rl"
       /\ r = Plain
       /\ released' = ReleaseOf(old)
       /\ UNCHANGED <<free, allocated>>
    \/ /\ Reuses(w, old)
       /\ r = old
       /\ UNCHANGED <<free, allocated, released>>
    \/ \E b \in Bucket :
       /\ w.action = "rl" /\ ~Reuses(w, old)
       /\ r = [action |-> "rl", named |-> w.named, bucket |-> b]
       /\ Allocate(b)
       /\ released' = ReleaseOf(old)

Throw(why) == pc' = "rollback" /\ err' = why

-----------------------------------------------------------------------------
(* set_src_rules, set_icmp_rules, set_dst_rules, set_tcp_flag_rule: all    *)
(* start from a copy of the kernel's XfwFilterCfg.                         *)
Begin(g) ==
    /\ pc = "idle"
    /\ pc' = IF g \in Flag THEN "slots" ELSE "build"
    /\ grp' = g
    /\ cfg' = [amap |-> amap, slots |-> slots]
    /\ new' = [k \in Key |-> NoRule]
    /\ todo' = SlotsOf(g)
    /\ UNCHANGED <<kernelVars, snap, resync, poolVars, allocated, released, err>>

Active == snap[cfg.amap[grp]]

(* One rule of the new set.  The duplicate is noticed after its bucket was *)
(* reconciled.                                                             *)
AddRule(k, w) ==
    /\ pc = "build"
    /\ k \in KeysOf(grp)
    /\ \E r \in Rule :
         /\ Reconcile(w, Active[k], r)
         /\ IF new[k] = NoRule
            THEN new' = [new EXCEPT ![k] = r] /\ UNCHANGED <<pc, err>>
            ELSE Throw("duplicate") /\ UNCHANGED new
    /\ UNCHANGED <<kernelVars, snap, resync, used, grp, cfg, todo>>

Built == {k \in Key : new[k] # NoRule}

(* The rule limit, then "Return buckets from removed rules to the pool". *)
RemovedForgets == {}
Removed == {k \in KeysOf(grp) : new[k] = NoRule /\ Active[k].action = "rl"}

EndBuildUnlimited ==
    /\ pc = "build"
    /\ pc' = "replace"
    /\ released' = released \cup {Active[k].bucket : k \in Removed}
    /\ UNCHANGED <<kernelVars, snap, resync, poolVars, grp, cfg, new, todo, allocated, err>>

EndBuild ==
    /\ pc = "build"
    /\ IF Cardinality(Built) > Limit(grp)
       THEN Throw("limit") /\ UNCHANGED released
       ELSE /\ pc' = "replace"
            /\ released' = released \cup {Active[k].bucket : k \in Removed}
            /\ UNCHANGED err
    /\ UNCHANGED <<kernelVars, snap, resync, poolVars, grp, cfg, new, todo, allocated>>

NextMapIdxSame(i) == i
next_map_idx(i) == 1 - i

(* replace() on the inactive map: it sends what differs from the snapshot, *)
(* everything after a failure.                                             *)
ReplacedTrustsSnapshot(d, k) ==
    IF k \in KeysOf(grp) /\ snap[d][k] # new[k] THEN new[k] ELSE kmap[d][k]

Replaced(d, k) == IF k \notin KeysOf(grp) THEN kmap[d][k]
                  ELSE IF <<grp, d>> \in resync \/ snap[d][k] # new[k]
                       THEN new[k] ELSE kmap[d][k]

ReplaceMap == LET d == next_map_idx(cfg.amap[grp]) IN
    /\ pc = "replace"
    /\ kmap' = [kmap EXCEPT ![d] = [k \in Key |-> Replaced(d, k)]]
    /\ snap' = [snap EXCEPT ![d] =
                  [k \in Key |-> IF k \in KeysOf(grp) THEN new[k] ELSE @[k]]]
    /\ resync' = resync \ {<<grp, d>>}
    /\ cfg' = [cfg EXCEPT !.amap[grp] = d]
    /\ pc' = "slots"
    /\ UNCHANGED <<amap, slots, poolVars, grp, new, todo, allocated, released, err>>

(* It gives up half way; a full resync may have cleared keys by then. *)
ReplaceMapFails == LET d == next_map_idx(cfg.amap[grp]) IN
    /\ pc = "replace"
    /\ \E sent, lost \in SUBSET KeysOf(grp) :
         /\ lost # {} => <<grp, d>> \in resync
         /\ kmap' = [kmap EXCEPT ![d] = [k \in Key |->
                       IF k \in lost THEN NoRule
                       ELSE IF k \in sent THEN new[k] ELSE @[k]]]
    /\ resync' = resync \cup {<<grp, d>>}
    /\ Throw("replace")
    /\ UNCHANGED <<amap, slots, snap, poolVars, grp, cfg, new, todo, allocated, released>>

(* apply_defaults, or the body of set_tcp_flag_rule *)
ApplySlot(s, w) ==
    /\ pc = "slots"
    /\ s \in todo
    /\ \E r \in Rule : /\ Reconcile(w, cfg.slots[s], r)
                       /\ cfg' = [cfg EXCEPT !.slots[s] = r]
    /\ todo' = todo \ {s}
    /\ UNCHANGED <<kernelVars, snap, resync, used, pc, grp, new, err>>

(* IndexPool::allocate throws while a rule or a slot is reconciled *)
Exhausted(p, w) ==
    /\ \/ pc = "build" /\ p \in KeysOf(grp)
       \/ pc = "slots" /\ p \in todo
    /\ w.action = "rl"
    /\ ~Reuses(w, IF p \in Key THEN Active[p] ELSE cfg.slots[p])
    /\ \A b \in Bucket : free[b] = 0
    /\ Throw("exhausted")
    /\ UNCHANGED <<kernelVars, snap, resync, poolVars, grp, cfg, new, todo, allocated, released>>

(* upload_config_changes: one write of the whole XfwFilterCfg *)
Upload ==
    /\ pc = "slots"
    /\ todo = {}
    /\ amap' = cfg.amap
    /\ slots' = cfg.slots
    /\ pc' = "commit"
    /\ UNCHANGED <<kmap, snap, resync, poolVars, grp, cfg, new, todo, allocated, released, err>>

UploadFails ==
    /\ pc = "slots"
    /\ todo = {}
    /\ Throw("upload")
    /\ UNCHANGED <<kernelVars, snap, resync, poolVars, grp, cfg, new, todo, allocated, released>>

(* IndexPool::release, with reset_rlimit_bucket as its callback *)
ReleaseNoReset(b) == /\ UNCHANGED used
                     /\ free' = [free EXCEPT ![b] = @ + 1]

Release(b) == /\ used' = used \ {b}
              /\ free' = [free EXCEPT ![b] = @ + 1]

(* IndexPoolTransaction::commit and rollback, an index at a time *)
CommitRelease(b) ==
    /\ pc = "commit"
    /\ b \in released
    /\ Release(b)
    /\ released' = released \ {b}
    /\ UNCHANGED <<kernelVars, snap, resync, pc, grp, cfg, new, todo, allocated, err>>

RollbackRelease(b) ==
    /\ pc = "rollback"
    /\ b \in allocated
    /\ Release(b)
    /\ allocated' = allocated \ {b}
    /\ UNCHANGED <<kernelVars, snap, resync, pc, grp, cfg, new, todo, released, err>>

(* The locals of the call go out of scope. *)
Return ==
    /\ \/ pc = "commit" /\ released = {}
       \/ pc = "rollback" /\ allocated = {}
    /\ pc' = "idle"
    /\ grp' = "src"
    /\ cfg' = NoCfg
    /\ new' = [k \in Key |-> NoRule]
    /\ todo' = {}
    /\ allocated' = {}
    /\ released' = {}
    /\ err' = "none"
    /\ UNCHANGED <<kernelVars, snap, resync, poolVars>>

(* The datapath charges a packet to the bucket of a live RATE_LIMIT rule. *)
Charge(p) ==
    /\ Live(p).action = "rl"
    /\ used' = used \cup {Live(p).bucket}
    /\ UNCHANGED <<kernelVars, snap, resync, free, callVars>>

Call == \/ \E g \in Group : Begin(g)
        \/ \E k \in Key, w \in Wanted : AddRule(k, w)
        \/ EndBuild \/ ReplaceMap \/ ReplaceMapFails
        \/ \E s \in Slot, w \in Wanted : ApplySlot(s, w)
        \/ \E p \in Key \cup Slot, w \in Wanted : Exhausted(p, w)
        \/ Upload \/ UploadFails
        \/ \E b \in Bucket : CommitRelease(b) \/ RollbackRelease(b)
        \/ Return

Next == Call \/ \E p \in Key \cup Slot : Charge(p)

Spec == Init /\ [][Next]_vars

-----------------------------------------------------------------------------
(* Properties *)

(* The shape of the state: rules are well formed wherever they are kept    *)
(* and buckets are counted, never lost track of by type.                   *)
TypeOK ==
    /\ amap \in [MapGroup -> Side]
    /\ slots \in [Slot -> Rule]
    /\ kmap \in [Side -> [Key -> Rule]]
    /\ snap \in [Side -> [Key -> Rule]]
    /\ resync \subseteq MapGroup \X Side
    /\ free \in [Bucket -> Nat]
    /\ used \subseteq Bucket
    /\ pc \in {"idle", "build", "replace", "slots", "commit", "rollback"}
    /\ grp \in Group
    /\ cfg \in [amap : [MapGroup -> Side], slots : [Slot -> Rule]]
    /\ new \in [Key -> Rule]
    /\ todo \subseteq Slot
    /\ allocated \subseteq Bucket
    /\ released \subseteq Bucket
    /\ err \in {"none", "duplicate", "limit", "exhausted", "replace", "upload"}

Limiting(p) == Live(p).action = "rl"

(* Every rate-limiting rule the datapath can find has a bucket of its own, *)
(* and no bucket in use is in the pool: whatever is added, removed,        *)
(* renamed or rolled back, two rules never share counters.                 *)
OneOwner ==
    \A p \in Key \cup Slot : Limiting(p) =>
        /\ free[Live(p).bucket] = 0
        /\ \A q \in Key \cup Slot :
              (q # p /\ Limiting(q)) => Live(q).bucket # Live(p).bucket

(* "avoiding leaks" (maps_manager.hh:337): between two calls, whether the  *)
(* last one succeeded or threw, every bucket is in the pool exactly once   *)
(* or belongs to a live rule.                                              *)
NoLeak == pc = "idle" => \A b \in Bucket :
    \/ free[b] = 1
    \/ free[b] = 0 /\ \E p \in Key \cup Slot : Limiting(p) /\ Live(p).bucket = b

(* "explicitly clearing all such state before the bucket is reassigned"    *)
(* (:232-233): a bucket in the pool, or handed to a rule that is not yet   *)
(* live, has zero counters.                                                *)
CleanWhenAllocated == \A b \in Bucket :
    (free[b] > 0 \/ (b \in allocated /\ pc # "commit")) => b \notin used

(* "Until this function is called, no changes are visible in the BPF       *)
(* datapath" (:162): only the write of XfwFilterCfg changes a live rule.   *)
InvisibleUntilUpload ==
    [][(\E p \in Key \cup Slot : Live(p)' # Live(p)) => pc = "slots" /\ pc' = "commit"]_vars

(* "The existing bucket can be safely reused" (maps_manager.cc:195): a     *)
(* rule that stays under the same named limit across an update keeps its   *)
(* counters, so re-sending a configuration never refills a limit.          *)
KeepsCounters ==
    [][\A p \in Key \cup Slot :
        (Limiting(p) /\ Limiting(p)' /\ Live(p)'.named = Live(p).named) =>
            /\ Live(p)'.bucket = Live(p).bucket
            /\ Live(p).bucket \in used => Live(p).bucket \in used']_vars

(* The pool is large enough: allocation only fails for a rule set that is  *)
(* over its limit (or repeats a key) and would be refused anyway.          *)
ExhaustedOnlyOverLimit ==
    err = "exhausted" => /\ grp \in {"icmp", "dst"}
                         /\ Cardinality(Built) >= Limit(grp)

(* "Existing rules are fully replaced in bpf program" (maps_manager.hh:87):*)
(* once published, the group's live map holds the rules built and no other.*)
FullyReplaced ==
    pc = "commit" => \A k \in KeysOf(grp) : Live(k) = new[k]
=============================================================================
