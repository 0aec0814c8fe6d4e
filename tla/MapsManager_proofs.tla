------------------------- MODULE MapsManager_proofs -------------------------
(***************************************************************************)
(* Proofs about MapsManager for any number of rules, slots, named limits   *)
(* and buckets: who owns a rate-limit bucket through updates that succeed, *)
(* throw and roll back.                                                    *)
(***************************************************************************)
EXTENDS MapsManager, FiniteSetTheorems, TLAPS

Pos == Key \cup Slot

RL(r) == r.action = "rl"

(* The rules the call in progress has decided about, and its decision *)
Visited == (IF pc = "build" THEN Built ELSE KeysOf(grp)) \cup (SlotsOf(grp) \ todo)
Pend(p) == IF p \in Key THEN new[p] ELSE cfg.slots[p]

(* Two rate-limiting rules under one named limit *)
SameLimit(r, old) == RL(r) /\ RL(old) /\ r.named = old.named

Preparing == pc \in {"build", "replace", "slots"}

(* The active maps are in step with their snapshots, the inactive ones too *)
(* unless a resync is pending.                                             *)
MapsSynced ==
    /\ \A k \in Key, d \in Side : <<GroupOf(k), d>> \notin resync => kmap[d][k] = snap[d][k]
    /\ \A g \in MapGroup : <<g, amap[g]>> \notin resync

(* What the copy of XfwFilterCfg holds in each phase of a call *)
CallShape ==
    /\ pc = "idle" => allocated = {} /\ released = {}
    /\ Built \subseteq KeysOf(grp)
    /\ pc \in {"build", "replace"} => /\ grp \in MapGroup
                                      /\ cfg.amap = amap
                                      /\ cfg.slots = slots
                                      /\ todo = SlotsOf(grp)
    /\ pc = "slots" =>
         /\ \A g \in MapGroup : cfg.amap[g] = IF g = grp THEN 1 - amap[g] ELSE amap[g]
         /\ grp \in MapGroup => <<grp, cfg.amap[grp]>> \notin resync
         /\ \A k \in KeysOf(grp) : kmap[cfg.amap[grp]][k] = new[k]
         /\ todo \subseteq SlotsOf(grp)
         /\ \A s \in Slot : (s \notin SlotsOf(grp) \/ s \in todo) => cfg.slots[s] = slots[s]

(* The open transaction accounts for every bucket that changes hands. *)
Transaction == Preparing =>
    /\ \A p \in Visited : RL(Pend(p)) => Pend(p).bucket \in allocated \/ Pend(p) = Live(p)
    /\ \A p, q \in Visited : (p # q /\ RL(Pend(p)) /\ RL(Pend(q)))
                              => Pend(p).bucket # Pend(q).bucket
    /\ \A p \in Visited : RL(Live(p)) => Pend(p) = Live(p) \/ Live(p).bucket \in released
    /\ \A b \in released : \E p \in Visited :
          RL(Live(p)) /\ Live(p).bucket = b /\ Pend(p) # Live(p)
    /\ \A b \in allocated : \E p \in Visited : RL(Pend(p)) /\ Pend(p).bucket = b
    /\ \A p \in Visited : SameLimit(Pend(p), Live(p)) => Pend(p) = Live(p)

(* Free, live, allocated and about to be released exclude each other and   *)
(* leave no bucket out.                                                    *)
Accounting ==
    /\ \A b \in Bucket : free[b] \in {0, 1}
    /\ pc # "commit" => \A b \in allocated :
          free[b] = 0 /\ \A p \in Pos : RL(Live(p)) => Live(p).bucket # b
    /\ pc = "commit" => \A b \in released :
          free[b] = 0 /\ \A p \in Pos : RL(Live(p)) => Live(p).bucket # b
    /\ \A b \in Bucket : \/ free[b] = 1
                         \/ \E p \in Pos : RL(Live(p)) /\ Live(p).bucket = b
                         \/ pc # "commit" /\ b \in allocated
                         \/ pc = "commit" /\ b \in released

IInv == /\ TypeOK /\ MapsSynced /\ CallShape /\ Transaction /\ Accounting
        /\ OneOwner /\ CleanWhenAllocated /\ FullyReplaced

-----------------------------------------------------------------------------
(* Facts about the operators *)

LEMMA GroupFacts ==
    /\ \A k \in Key : GroupOf(k) \in MapGroup
    /\ \A g \in Group : KeysOf(g) \subseteq Key
    /\ \A g \in Group : SlotsOf(g) \subseteq Slot
    /\ \A g \in Group : \A k \in KeysOf(g) : g \in MapGroup /\ GroupOf(k) = g
    /\ \A g \in Group : \A k \in Key \ KeysOf(g) : GroupOf(k) # g
    /\ \A p \in Slot : p \notin Key
    /\ \A d \in Side : 1 - d \in Side /\ 1 - d # d
  BY MapsManagerAssumption
     DEF Key, Slot, Group, MapGroup, GroupOf, KeysOf, SlotsOf, Side

LEMMA RuleFacts ==
    /\ NoRule \in Rule /\ Plain \in Rule /\ ~RL(NoRule) /\ ~RL(Plain)
    /\ \A r \in Rule : RL(r) => r.bucket \in Bucket
    /\ \A w \in Wanted, b \in Bucket : w.action = "rl" =>
          [action |-> "rl", named |-> w.named, bucket |-> b] \in Rule
  BY DEF Rule, NoRule, Plain, RL, Wanted

LEMMA LiveType == ASSUME TypeOK, NEW p \in Pos PROVE Live(p) \in Rule
  BY GroupFacts DEF TypeOK, Live, Pos

LEMMA SameLive == ASSUME UNCHANGED kernelVars PROVE \A p \in Pos : Live(p)' = Live(p)
  BY DEF kernelVars, Live

(* What reconciling one rule does to the pool and the transaction *)
LEMMA ReconcileFacts ==
    ASSUME TypeOK, NEW w \in Wanted, NEW old \in Rule, NEW r \in Rule,
           Reconcile(w, old, r)
    PROVE  \/ /\ ~RL(r)
              /\ UNCHANGED <<free, allocated>>
              /\ released' = IF RL(old) THEN released \cup {old.bucket} ELSE released
           \/ RL(old) /\ r = old /\ UNCHANGED <<free, allocated, released>>
           \/ /\ RL(r) /\ r.bucket \in Bucket /\ free[r.bucket] > 0
              /\ ~SameLimit(r, old)
              /\ free' = [free EXCEPT ![r.bucket] = @ - 1]
              /\ allocated' = allocated \cup {r.bucket}
              /\ released' = IF RL(old) THEN released \cup {old.bucket} ELSE released
  BY DEF Reconcile, ReleaseOf, Reuses, Allocate, RL, Plain, SameLimit

(* Reconciling a rule keeps the books whether or not the call then throws. *)
LEMMA ReconcileAccounting ==
    ASSUME TypeOK, Accounting, OneOwner, CleanWhenAllocated,
           NEW w \in Wanted, NEW old \in Rule, NEW r \in Rule, Reconcile(w, old, r),
           UNCHANGED <<kernelVars, used>>, pc # "commit", pc' # "commit"
    PROVE  Accounting' /\ OneOwner' /\ CleanWhenAllocated'
<1>1. \A p \in Pos : Live(p)' = Live(p) /\ Live(p) \in Rule
  BY SameLive, LiveType
<1>2. CASE UNCHANGED <<free, allocated>>
  BY <1>1, <1>2 DEF Accounting, OneOwner, CleanWhenAllocated, Limiting, RL, Pos
<1>3. CASE /\ r.bucket \in Bucket /\ free[r.bucket] > 0
           /\ free' = [free EXCEPT ![r.bucket] = @ - 1]
           /\ allocated' = allocated \cup {r.bucket}
  <2>1. free[r.bucket] = 1 /\ free'[r.bucket] = 0
    BY <1>3 DEF TypeOK, Accounting
  <2>2. \A b \in Bucket : b # r.bucket => free'[b] = free[b]
    BY <1>3 DEF TypeOK
  <2>3. Accounting'
    BY <1>1, <1>3, <2>1, <2>2 DEF TypeOK, Accounting, OneOwner, Limiting, RL, Pos
  <2>4. OneOwner'
    BY <1>1, <2>1, <2>2, RuleFacts DEF OneOwner, Limiting, RL, Pos
  <2>5. CleanWhenAllocated'
    BY <1>3, <2>1, <2>2 DEF CleanWhenAllocated
  <2> QED
    BY <2>3, <2>4, <2>5
<1> QED
  BY <1>2, <1>3, ReconcileFacts

(* Deciding about one more rule p keeps the transaction complete. *)
LEMMA VisitStep ==
    ASSUME TypeOK, Accounting, OneOwner, CleanWhenAllocated, Transaction,
           Preparing, Preparing', NEW p \in Pos, p \notin Visited,
           Visited \subseteq Pos, Visited' = Visited \cup {p},
           \A q \in Visited : Pend(q)' = Pend(q) /\ Pend(q) \in Rule,
           NEW w \in Wanted, NEW r \in Rule, Pend(p)' = r, Reconcile(w, Live(p), r),
           UNCHANGED <<kernelVars, used>>
    PROVE  Transaction'
<1>1. \A q \in Pos : Live(q)' = Live(q) /\ Live(q) \in Rule
  BY SameLive, LiveType
<1>2. \A q \in Visited : RL(Pend(q)) => Pend(q).bucket \in Bucket /\ free[Pend(q).bucket] = 0
  BY <1>1, RuleFacts DEF Transaction, Accounting, OneOwner, Limiting, RL, Pos, Preparing
<1>3. \A q \in Visited : (RL(Live(p)) /\ RL(Pend(q))) => Pend(q).bucket # Live(p).bucket
  BY <1>1 DEF Transaction, Accounting, OneOwner, Limiting, RL, Pos, Preparing
<1>4. CASE /\ ~RL(r)
           /\ UNCHANGED <<free, allocated>>
           /\ released' = IF RL(Live(p)) THEN released \cup {Live(p).bucket} ELSE released
  BY <1>1, <1>4 DEF Transaction, SameLimit, RL
<1>5. CASE RL(Live(p)) /\ r = Live(p) /\ UNCHANGED <<free, allocated, released>>
  BY <1>1, <1>3, <1>5 DEF Transaction, SameLimit, RL
<1>6. CASE /\ RL(r) /\ r.bucket \in Bucket /\ free[r.bucket] > 0
           /\ ~SameLimit(r, Live(p))
           /\ allocated' = allocated \cup {r.bucket}
           /\ released' = IF RL(Live(p)) THEN released \cup {Live(p).bucket} ELSE released
  <2>1. RL(Live(p)) => r # Live(p)
    BY <1>6 DEF OneOwner, Limiting, RL, Pos
  <2> QED
    BY <1>1, <1>2, <1>6, <2>1 DEF Transaction, SameLimit, RL
<1> QED
  BY <1>1, <1>4, <1>5, <1>6, ReconcileFacts

-----------------------------------------------------------------------------
(* The inductive invariant *)

LEMMA InitIInv == ASSUME Init PROVE IInv
<1>1. \A p \in Pos : Live(p) \in Rule /\ ~RL(Live(p))
  BY GroupFacts, RuleFacts DEF Init, Live, Pos, Side
<1>2. TypeOK
  BY RuleFacts DEF Init, TypeOK, Side, NoCfg, Group, MapGroup
<1>3. MapsSynced /\ CallShape /\ Transaction
  BY DEF Init, MapsSynced, CallShape, Transaction, Preparing, Built
<1>4. Accounting /\ OneOwner /\ CleanWhenAllocated /\ FullyReplaced
  BY <1>1 DEF Init, Accounting, OneOwner, CleanWhenAllocated, FullyReplaced, Limiting, RL, Pos
<1> QED
  BY <1>2, <1>3, <1>4 DEF IInv

LEMMA BeginIInv == ASSUME IInv, NEW g \in Group, Begin(g) PROVE IInv'
<1> USE DEF IInv, Begin
<1>1. \A p \in Pos : Live(p)' = Live(p)
  BY SameLive
<1>2. TypeOK'
  BY GroupFacts, RuleFacts DEF TypeOK, kernelVars, poolVars
<1>3. MapsSynced'
  BY DEF MapsSynced, kernelVars
<1>4. Built' = {} /\ (g \in Flag => KeysOf(g) = {} /\ g \notin MapGroup) /\ (g \notin Flag => g \in MapGroup)
  BY MapsManagerAssumption DEF Built, Group, MapGroup, KeysOf
<1>5. CallShape'
  BY <1>4 DEF CallShape, kernelVars, TypeOK
<1>6. Visited' = {} /\ allocated' = {} /\ released' = {}
  BY <1>4 DEF Visited, CallShape
<1>7. Transaction'
  BY <1>6 DEF Transaction
<1>8. Accounting' /\ OneOwner' /\ CleanWhenAllocated' /\ FullyReplaced'
  BY <1>1, <1>6 DEF Accounting, OneOwner, CleanWhenAllocated, FullyReplaced, Limiting, RL, Pos,
                    poolVars, CallShape
<1> QED
  BY <1>2, <1>3, <1>5, <1>7, <1>8

(* While a map is built, the snapshot the rules are compared with is live. *)
LEMMA ActiveIsLive ==
    ASSUME IInv, pc \in {"build", "replace"}, NEW k \in KeysOf(grp)
    PROVE  k \in Key /\ Active[k] = Live(k) /\ Active[k] \in Rule
<1>1. k \in Key /\ grp \in MapGroup /\ GroupOf(k) = grp /\ k \in Pos
  BY GroupFacts DEF IInv, TypeOK, Pos
<1>2. cfg.amap[grp] = amap[grp] /\ amap[grp] \in Side /\ <<grp, amap[grp]>> \notin resync
  BY <1>1 DEF IInv, CallShape, TypeOK, MapsSynced
<1>3. Live(k) = snap[amap[grp]][k]
  BY <1>1, <1>2 DEF IInv, MapsSynced, Live
<1> QED
  BY <1>1, <1>2, <1>3, LiveType DEF Active, IInv

LEMMA AddRuleIInv == ASSUME IInv, NEW k \in Key, NEW w \in Wanted, AddRule(k, w) PROVE IInv'
<1>1. PICK r \in Rule :
         /\ Reconcile(w, Active[k], r)
         /\ IF new[k] = NoRule
            THEN new' = [new EXCEPT ![k] = r] /\ UNCHANGED <<pc, err>>
            ELSE Throw("duplicate") /\ UNCHANGED new
  BY DEF AddRule
<1>2. /\ pc = "build" /\ k \in KeysOf(grp)
      /\ UNCHANGED <<kernelVars, snap, resync, used, grp, cfg, todo>>
  BY DEF AddRule
<1>3. Active[k] = Live(k) /\ Active[k] \in Rule
  BY <1>2, ActiveIsLive
<1>4. pc' \in {"build", "rollback"} /\ err' \in {"duplicate", err} /\ (pc' = "build" => new[k] = NoRule)
  BY <1>1, <1>2 DEF Throw
<1>5. Accounting' /\ OneOwner' /\ CleanWhenAllocated'
  BY <1>1, <1>2, <1>3, <1>4, ReconcileAccounting DEF IInv
<1>6. r # NoRule
  BY <1>1 DEF Reconcile, Reuses, Plain, NoRule
<1>7. free' \in [Bucket -> Nat] /\ allocated' \subseteq Bucket /\ released' \subseteq Bucket
  <2>1. RL(Active[k]) => Active[k].bucket \in Bucket
    BY <1>3, RuleFacts
  <2>2. free \in [Bucket -> Nat] /\ allocated \subseteq Bucket /\ released \subseteq Bucket
    BY DEF IInv, TypeOK
  <2>3. CASE UNCHANGED <<free, allocated>>
    BY <1>1, <1>3, <2>1, <2>2, <2>3, ReconcileFacts DEF IInv
  <2>4. CASE /\ r.bucket \in Bucket /\ free[r.bucket] > 0
             /\ free' = [free EXCEPT ![r.bucket] = @ - 1]
             /\ allocated' = allocated \cup {r.bucket}
             /\ released' = IF RL(Active[k]) THEN released \cup {Active[k].bucket} ELSE released
    BY <2>1, <2>2, <2>4
  <2> QED
    BY <1>1, <1>3, <2>3, <2>4, ReconcileFacts DEF IInv
<1>8. TypeOK'
  BY <1>1, <1>2, <1>4, <1>7 DEF IInv, TypeOK, kernelVars, Throw
<1>9. MapsSynced' /\ FullyReplaced'
  BY <1>2, <1>4 DEF IInv, MapsSynced, FullyReplaced, kernelVars
<1>10. CallShape'
  <2>1. Built' \subseteq KeysOf(grp')
    BY <1>1, <1>2 DEF IInv, CallShape, Built, TypeOK
  <2> QED
    BY <1>2, <1>4, <2>1 DEF IInv, CallShape, kernelVars
<1>11. Transaction'
  <2>1. CASE pc' = "rollback"
    BY <2>1 DEF Transaction, Preparing
  <2>2. CASE pc' = "build"
    <3>1. Visited = Built /\ Visited' = Built'
      BY <1>2, <2>2 DEF Visited, IInv, CallShape
    <3>2. Visited \subseteq Pos /\ k \notin Visited /\ k \in Pos /\ Visited' = Visited \cup {k}
      BY <1>1, <1>4, <1>6, <2>2, <3>1 DEF Built, Pos, IInv, TypeOK
    <3>3. \A q \in Visited : Pend(q)' = Pend(q) /\ Pend(q) \in Rule
      BY <1>1, <1>4, <2>2, <3>1 DEF Built, Pend, IInv, TypeOK
    <3>4. Pend(k)' = r
      BY <1>1, <1>4, <2>2 DEF Pend, IInv, TypeOK
    <3> QED
      BY <1>1, <1>2, <1>3, <2>2, <3>2, <3>3, <3>4, VisitStep DEF IInv, Preparing
  <2> QED
    BY <1>4, <2>1, <2>2
<1> QED
  BY <1>5, <1>8, <1>9, <1>10, <1>11 DEF IInv

LEMMA EndBuildIInv == ASSUME IInv, EndBuild PROVE IInv'
<1>1. /\ pc = "build"
      /\ UNCHANGED <<kernelVars, snap, resync, poolVars, grp, cfg, new, todo, allocated>>
      /\ \/ pc' = "rollback" /\ err' = "limit" /\ UNCHANGED released
         \/ /\ pc' = "replace" /\ err' = err
            /\ released' = released \cup {Active[k].bucket : k \in Removed}
  BY DEF EndBuild, Throw
<1>2. \A p \in Pos : Live(p)' = Live(p)
  BY <1>1, SameLive
<1>3. \A k \in Removed : RL(Live(k)) /\ Active[k] = Live(k) /\ Live(k).bucket \in Bucket
  BY <1>1, ActiveIsLive, RuleFacts DEF Removed, RL
<1>4. TypeOK'
  BY <1>1, <1>3 DEF IInv, TypeOK, kernelVars, poolVars
<1>5. MapsSynced' /\ FullyReplaced' /\ CallShape'
  BY <1>1 DEF IInv, MapsSynced, FullyReplaced, CallShape, Built, kernelVars
<1>6. Accounting' /\ OneOwner' /\ CleanWhenAllocated'
  BY <1>1, <1>2 DEF IInv, Accounting, OneOwner, CleanWhenAllocated, Limiting, RL, Pos, poolVars
<1>7. Transaction'
  <2>1. CASE pc' = "rollback"
    BY <2>1 DEF Transaction, Preparing
  <2>2. CASE pc' = "replace"
    <3>1. Visited = Built /\ Visited' = KeysOf(grp) /\ Built \subseteq KeysOf(grp)
      BY <1>1, <2>2 DEF Visited, IInv, CallShape
    <3>2. \A p \in KeysOf(grp) : p \in Pos /\ p \in Key /\ Active[p] = Live(p) /\ Live(p)' = Live(p)
      BY <1>1, <1>2, ActiveIsLive DEF Pos
    <3>3. \A p \in KeysOf(grp) : Pend(p)' = Pend(p) /\ Pend(p) = new[p]
      BY <1>1, <3>2 DEF Pend
    <3>4. \A p \in KeysOf(grp) : p \notin Built => Pend(p) = NoRule /\ ~RL(Pend(p))
      BY <3>2, <3>3, RuleFacts DEF Built
    <3>5. \A p \in KeysOf(grp) : (p \notin Built /\ RL(Live(p))) => p \in Removed
      BY <3>2, <3>3, <3>4 DEF Removed, RL
    <3>6. \A p \in Removed : p \in KeysOf(grp) /\ Pend(p) # Live(p)
      BY <1>3, <3>3, RuleFacts DEF Removed
    <3>7. released' = released \cup {Live(k).bucket : k \in Removed}
      BY <1>1, <1>3, <2>2
    <3> HIDE DEF Removed, Built
    <3> QED
      BY <1>1, <1>3, <2>2, <3>1, <3>2, <3>3, <3>4, <3>5, <3>6, <3>7
         DEF IInv, Transaction, Preparing, SameLimit
  <2> QED
    BY <1>1, <2>1, <2>2
<1> QED
  BY <1>4, <1>5, <1>6, <1>7 DEF IInv

(* The map being replaced is not the live one. *)
LEMMA ReplaceFacts ==
    ASSUME IInv, pc = "replace"
    PROVE  /\ grp \in MapGroup
           /\ next_map_idx(cfg.amap[grp]) \in Side
           /\ next_map_idx(cfg.amap[grp]) = 1 - amap[grp]
           /\ next_map_idx(cfg.amap[grp]) # amap[grp]
           /\ amap[grp] \in Side
<1>1. grp \in MapGroup /\ cfg.amap[grp] = amap[grp] /\ amap[grp] \in Side
  BY DEF IInv, CallShape, TypeOK
<1> QED
  BY <1>1 DEF next_map_idx, Side

(* Writing the other map, failed or not, leaves every live rule alone. *)
LEMMA OtherMapLive ==
    ASSUME IInv, NEW d \in Side, d # amap[grp], UNCHANGED <<amap, slots>>,
           \A e \in Side : e # d => kmap'[e] = kmap[e],
           \A k \in Key : k \notin KeysOf(grp) => kmap'[d][k] = kmap[d][k]
    PROVE  \A p \in Pos : Live(p)' = Live(p)
<1> TAKE p \in Pos
<1>1. CASE p \in Key
  <2>1. GroupOf(p) \in MapGroup /\ amap[GroupOf(p)] \in Side
    BY <1>1, GroupFacts DEF IInv, TypeOK
  <2>2. CASE p \in KeysOf(grp)
    <3>1. GroupOf(p) = grp
      BY <2>2, GroupFacts DEF IInv, TypeOK
    <3> QED
      BY <1>1, <2>1, <3>1 DEF Live
  <2>3. CASE p \notin KeysOf(grp)
    BY <1>1, <2>1, <2>3 DEF Live
  <2> QED
    BY <2>2, <2>3
<1>2. CASE p \notin Key
  BY <1>2 DEF Live
<1> QED
  BY <1>1, <1>2

LEMMA ReplaceMapIInv == ASSUME IInv, ReplaceMap PROVE IInv'
<1> DEFINE d == next_map_idx(cfg.amap[grp])
<1>1. /\ pc = "replace" /\ pc' = "slots"
      /\ kmap' = [kmap EXCEPT ![d] = [k \in Key |-> Replaced(d, k)]]
      /\ snap' = [snap EXCEPT ![d] =
                    [k \in Key |-> IF k \in KeysOf(grp) THEN new[k] ELSE snap[d][k]]]
      /\ resync' = resync \ {<<grp, d>>}
      /\ cfg' = [cfg EXCEPT !.amap[grp] = d]
      /\ UNCHANGED <<amap, slots, poolVars, grp, new, todo, allocated, released, err>>
  BY DEF ReplaceMap
<1>2. grp \in MapGroup /\ d \in Side /\ d = 1 - amap[grp] /\ d # amap[grp] /\ amap[grp] \in Side
  BY <1>1, ReplaceFacts
<1> HIDE DEF d
<1>3. \A k \in Key : Replaced(d, k) = IF k \in KeysOf(grp) THEN new[k] ELSE kmap[d][k]
  <2> TAKE k \in Key
  <2>1. CASE k \in KeysOf(grp)
    <3>1. GroupOf(k) = grp
      BY <2>1, GroupFacts DEF IInv, TypeOK
    <3> QED
      BY <1>2, <2>1, <3>1 DEF Replaced, IInv, MapsSynced
  <2>2. CASE k \notin KeysOf(grp)
    BY <2>2 DEF Replaced
  <2> QED
    BY <2>1, <2>2
<1>4. \A k \in Key : /\ kmap'[d][k] = IF k \in KeysOf(grp) THEN new[k] ELSE kmap[d][k]
                     /\ snap'[d][k] = IF k \in KeysOf(grp) THEN new[k] ELSE snap[d][k]
  BY <1>1, <1>2, <1>3 DEF IInv, TypeOK
<1>5. \A e \in Side : e # d => kmap'[e] = kmap[e] /\ snap'[e] = snap[e]
  BY <1>1, <1>2 DEF IInv, TypeOK
<1>6. \A p \in Pos : Live(p)' = Live(p)
  BY <1>1, <1>2, <1>4, <1>5, OtherMapLive
<1>7. TypeOK'
  <2>1. [k \in Key |-> Replaced(d, k)] \in [Key -> Rule]
    BY <1>2, <1>3 DEF IInv, TypeOK
  <2>2. [k \in Key |-> IF k \in KeysOf(grp) THEN new[k] ELSE snap[d][k]] \in [Key -> Rule]
    BY <1>2 DEF IInv, TypeOK
  <2>3. kmap' \in [Side -> [Key -> Rule]] /\ snap' \in [Side -> [Key -> Rule]]
    BY <1>1, <1>2, <2>1, <2>2 DEF IInv, TypeOK
  <2>4. cfg' \in [amap : [MapGroup -> Side], slots : [Slot -> Rule]]
    BY <1>1, <1>2 DEF IInv, TypeOK
  <2> QED
    BY <1>1, <2>3, <2>4 DEF IInv, TypeOK, poolVars
<1>8. MapsSynced'
  <2>1. ASSUME NEW k \in Key, NEW e \in Side, <<GroupOf(k), e>> \notin resync'
        PROVE  kmap'[e][k] = snap'[e][k]
    <3>1. CASE e = d /\ k \in KeysOf(grp)
      BY <1>4, <3>1
    <3>2. CASE e = d /\ k \notin KeysOf(grp)
      <4>1. GroupOf(k) # grp
        BY <3>2, GroupFacts DEF IInv, TypeOK
      <4> QED
        BY <1>1, <1>4, <2>1, <3>2, <4>1 DEF IInv, MapsSynced
    <3>3. CASE e # d
      BY <1>1, <1>5, <2>1, <3>3 DEF IInv, MapsSynced
    <3> QED
      BY <3>1, <3>2, <3>3
  <2> QED
    BY <1>1, <2>1 DEF IInv, MapsSynced
<1>9. CallShape'
  <2>1. \A g \in MapGroup : cfg'.amap[g] = IF g = grp THEN 1 - amap[g] ELSE amap[g]
    BY <1>1, <1>2 DEF IInv, CallShape, TypeOK
  <2>2. cfg'.slots = cfg.slots /\ cfg'.amap[grp] = d
    BY <1>1, <1>2, <2>1 DEF IInv, TypeOK
  <2>3. \A k \in KeysOf(grp) : kmap'[d][k] = new[k]
    BY <1>4, GroupFacts DEF IInv, TypeOK
  <2> QED
    BY <1>1, <2>1, <2>2, <2>3 DEF IInv, CallShape, Built
<1>10. Transaction'
  <2>1. Visited' = Visited /\ Visited \subseteq Pos
    BY <1>1, GroupFacts DEF Visited, Pos, IInv, TypeOK
  <2>2. \A p \in Visited : Pend(p)' = Pend(p)
    BY <1>1 DEF Pend, IInv, TypeOK
  <2> QED
    BY <1>1, <1>6, <2>1, <2>2 DEF IInv, Transaction, Preparing
<1>11. Accounting' /\ OneOwner' /\ CleanWhenAllocated' /\ FullyReplaced'
  BY <1>1, <1>6 DEF IInv, Accounting, OneOwner, CleanWhenAllocated, FullyReplaced,
                    Limiting, RL, Pos, poolVars
<1> QED
  BY <1>7, <1>8, <1>9, <1>10, <1>11 DEF IInv

LEMMA ReplaceMapFailsIInv == ASSUME IInv, ReplaceMapFails PROVE IInv'
<1> DEFINE d == next_map_idx(cfg.amap[grp])
<1>1. PICK sent, lost \in SUBSET KeysOf(grp) :
         kmap' = [kmap EXCEPT ![d] = [k \in Key |->
                    IF k \in lost THEN NoRule
                    ELSE IF k \in sent THEN new[k] ELSE kmap[d][k]]]
  BY DEF ReplaceMapFails
<1>2. /\ pc = "replace" /\ pc' = "rollback" /\ err' = "replace"
      /\ resync' = resync \cup {<<grp, d>>}
      /\ UNCHANGED <<amap, slots, snap, poolVars, grp, cfg, new, todo, allocated, released>>
  BY DEF ReplaceMapFails, Throw
<1>3. grp \in MapGroup /\ d \in Side /\ d # amap[grp] /\ amap[grp] \in Side
  BY <1>2, ReplaceFacts
<1> HIDE DEF d
<1>4. \A e \in Side : e # d => kmap'[e] = kmap[e]
  BY <1>1, <1>3 DEF IInv, TypeOK
<1>5. \A k \in Key : k \notin KeysOf(grp) => kmap'[d][k] = kmap[d][k]
  BY <1>1, <1>3 DEF IInv, TypeOK
<1>6. \A p \in Pos : Live(p)' = Live(p)
  BY <1>2, <1>3, <1>4, <1>5, OtherMapLive
<1>7. TypeOK'
  <2>1. [k \in Key |-> IF k \in lost THEN NoRule
                        ELSE IF k \in sent THEN new[k] ELSE kmap[d][k]] \in [Key -> Rule]
    BY <1>3, RuleFacts DEF IInv, TypeOK
  <2>2. kmap' \in [Side -> [Key -> Rule]]
    BY <1>1, <1>3, <2>1 DEF IInv, TypeOK
  <2> QED
    BY <1>2, <1>3, <2>2 DEF IInv, TypeOK, poolVars
<1>8. MapsSynced'
  <2>1. ASSUME NEW k \in Key, NEW e \in Side, <<GroupOf(k), e>> \notin resync'
        PROVE  kmap'[e][k] = snap'[e][k]
    <3>1. k \in KeysOf(grp) => GroupOf(k) = grp
      BY GroupFacts DEF IInv, TypeOK
    <3> QED
      BY <1>2, <1>4, <1>5, <2>1, <3>1 DEF IInv, MapsSynced
  <2> QED
    BY <1>2, <1>3, <2>1 DEF IInv, MapsSynced
<1>9. CallShape' /\ Transaction' /\ FullyReplaced'
  BY <1>2 DEF IInv, CallShape, Transaction, Preparing, FullyReplaced, Built
<1>10. Accounting' /\ OneOwner' /\ CleanWhenAllocated'
  BY <1>2, <1>6 DEF IInv, Accounting, OneOwner, CleanWhenAllocated, Limiting, RL, Pos, poolVars
<1> QED
  BY <1>7, <1>8, <1>9, <1>10 DEF IInv

LEMMA ApplySlotIInv == ASSUME IInv, NEW s \in Slot, NEW w \in Wanted, ApplySlot(s, w) PROVE IInv'
<1>1. PICK r \in Rule : /\ Reconcile(w, cfg.slots[s], r)
                        /\ cfg' = [cfg EXCEPT !.slots[s] = r]
  BY DEF ApplySlot
<1>2. /\ pc = "slots" /\ s \in todo /\ todo' = todo \ {s}
      /\ UNCHANGED <<kernelVars, snap, resync, used, pc, grp, new, err>>
  BY DEF ApplySlot
<1>3. s \in SlotsOf(grp) /\ s \notin Key /\ s \in Pos
  BY <1>2, GroupFacts DEF IInv, CallShape, Pos
<1>4. cfg.slots[s] = Live(s) /\ Live(s) \in Rule
  BY <1>2, <1>3, LiveType DEF IInv, CallShape, Live
<1>5. Accounting' /\ OneOwner' /\ CleanWhenAllocated'
  BY <1>1, <1>2, <1>4, ReconcileAccounting DEF IInv
<1>6. free' \in [Bucket -> Nat] /\ allocated' \subseteq Bucket /\ released' \subseteq Bucket
  <2>1. RL(Live(s)) => Live(s).bucket \in Bucket
    BY <1>4, RuleFacts
  <2>2. free \in [Bucket -> Nat] /\ allocated \subseteq Bucket /\ released \subseteq Bucket
    BY DEF IInv, TypeOK
  <2>3. CASE UNCHANGED <<free, allocated>>
    BY <1>1, <1>4, <2>1, <2>2, <2>3, ReconcileFacts DEF IInv
  <2>4. CASE /\ r.bucket \in Bucket /\ free[r.bucket] > 0
             /\ free' = [free EXCEPT ![r.bucket] = @ - 1]
             /\ allocated' = allocated \cup {r.bucket}
             /\ released' = IF RL(Live(s)) THEN released \cup {Live(s).bucket} ELSE released
    BY <2>1, <2>2, <2>4
  <2> QED
    BY <1>1, <1>4, <2>3, <2>4, ReconcileFacts DEF IInv
<1>7. TypeOK'
  <2>1. cfg' \in [amap : [MapGroup -> Side], slots : [Slot -> Rule]]
    BY <1>1 DEF IInv, TypeOK
  <2> QED
    BY <1>2, <1>6, <2>1 DEF IInv, TypeOK, kernelVars
<1>8. cfg'.amap = cfg.amap /\ \A t \in Slot : cfg'.slots[t] = IF t = s THEN r ELSE cfg.slots[t]
  BY <1>1 DEF IInv, TypeOK
<1>9. MapsSynced' /\ FullyReplaced' /\ CallShape'
  BY <1>2, <1>3, <1>8 DEF IInv, MapsSynced, FullyReplaced, CallShape, Built, kernelVars
<1>10. Transaction'
  <2>1. Visited \subseteq Pos /\ s \notin Visited /\ Visited' = Visited \cup {s}
    BY <1>2, <1>3, GroupFacts DEF Visited, Pos, IInv, TypeOK
  <2>2. \A q \in Visited : Pend(q)' = Pend(q) /\ Pend(q) \in Rule
    BY <1>2, <1>8, <2>1 DEF Pend, Pos, IInv, TypeOK
  <2>3. Pend(s)' = r
    BY <1>3, <1>8 DEF Pend
  <2> QED
    BY <1>1, <1>2, <1>3, <1>4, <2>1, <2>2, <2>3, VisitStep DEF IInv, Preparing
<1> QED
  BY <1>5, <1>7, <1>9, <1>10 DEF IInv

(* Giving up before the upload: only the phase and the reason change. *)
LEMMA ThrowIInv ==
    ASSUME IInv, pc # "commit", pc' = "rollback", err' \in {"exhausted", "upload"},
           UNCHANGED <<kernelVars, snap, resync, poolVars, grp, cfg, new, todo, allocated, released>>
    PROVE  IInv'
<1>1. \A p \in Pos : Live(p)' = Live(p)
  BY SameLive
<1>2. TypeOK' /\ MapsSynced' /\ CallShape' /\ Transaction' /\ FullyReplaced'
  BY DEF IInv, TypeOK, MapsSynced, CallShape, Transaction, Preparing, FullyReplaced, Built,
         kernelVars, poolVars
<1>3. Accounting' /\ OneOwner' /\ CleanWhenAllocated'
  BY <1>1 DEF IInv, Accounting, OneOwner, CleanWhenAllocated, Limiting, RL, Pos, poolVars
<1> QED
  BY <1>2, <1>3 DEF IInv

(* Publishing: what was decided becomes live, everything else stays. *)
LEMMA UploadLive ==
    ASSUME IInv, Upload, NEW p \in Pos
    PROVE  Live(p)' = IF p \in Visited THEN Pend(p) ELSE Live(p)
<1>1. /\ pc = "slots" /\ todo = {}
      /\ amap' = cfg.amap /\ slots' = cfg.slots /\ kmap' = kmap
  BY DEF Upload
<1>2. Visited = KeysOf(grp) \cup SlotsOf(grp)
  BY <1>1 DEF Visited
<1>3. CASE p \in Key
  <2>1. p \notin SlotsOf(grp) /\ GroupOf(p) \in MapGroup
    BY <1>3, GroupFacts DEF IInv, TypeOK
  <2>2. CASE p \in KeysOf(grp)
    <3>1. GroupOf(p) = grp /\ kmap[cfg.amap[grp]][p] = new[p]
      BY <1>1, <2>2, GroupFacts DEF IInv, TypeOK, CallShape
    <3> QED
      BY <1>1, <1>2, <1>3, <2>2, <3>1 DEF Live, Pend
  <2>3. CASE p \notin KeysOf(grp)
    <3>1. GroupOf(p) # grp
      BY <1>3, <2>3, GroupFacts DEF IInv, TypeOK
    <3>2. cfg.amap[GroupOf(p)] = amap[GroupOf(p)]
      BY <1>1, <2>1, <3>1 DEF IInv, CallShape
    <3> QED
      BY <1>1, <1>2, <1>3, <2>1, <2>3, <3>2 DEF Live
  <2> QED
    BY <2>2, <2>3
<1>4. CASE p \notin Key
  <2>1. p \in Slot /\ p \notin KeysOf(grp)
    BY <1>4, GroupFacts DEF Pos, IInv, TypeOK
  <2> QED
    BY <1>1, <1>2, <1>4, <2>1 DEF Live, Pend, IInv, CallShape
<1> QED
  BY <1>3, <1>4

LEMMA UploadIInv == ASSUME IInv, Upload PROVE IInv'
<1>1. /\ pc = "slots" /\ todo = {} /\ pc' = "commit"
      /\ amap' = cfg.amap /\ slots' = cfg.slots
      /\ UNCHANGED <<kmap, snap, resync, poolVars, grp, cfg, new, todo, allocated, released, err>>
  BY DEF Upload
<1>2. \A p \in Pos : Live(p)' = IF p \in Visited THEN Pend(p) ELSE Live(p)
  BY UploadLive
<1>3. Visited = KeysOf(grp) \cup SlotsOf(grp) /\ Visited \subseteq Pos
  BY <1>1, GroupFacts DEF Visited, Pos, IInv, TypeOK
<1>4. \A p \in Pos : Live(p) \in Rule /\ (RL(Live(p)) => Live(p).bucket \in Bucket)
  BY LiveType, RuleFacts DEF IInv
<1>5. \A p \in Visited : Pend(p) \in Rule /\ (RL(Pend(p)) => Pend(p).bucket \in Bucket)
  BY <1>3, RuleFacts DEF Pend, Pos, IInv, TypeOK
<1>6. \A p \in Pos : RL(Live(p)) =>
         /\ free[Live(p).bucket] = 0
         /\ \A q \in Pos : q # p /\ RL(Live(q)) => Live(q).bucket # Live(p).bucket
  BY DEF IInv, OneOwner, Limiting, RL, Pos
<1>7. \A b \in allocated : free[b] = 0 /\ \A p \in Pos : RL(Live(p)) => Live(p).bucket # b
  BY <1>1 DEF IInv, Accounting
<1>8. /\ \A p \in Visited : RL(Pend(p)) => Pend(p).bucket \in allocated \/ Pend(p) = Live(p)
      /\ \A p, q \in Visited : (p # q /\ RL(Pend(p)) /\ RL(Pend(q)))
                                => Pend(p).bucket # Pend(q).bucket
      /\ \A p \in Visited : RL(Live(p)) => Pend(p) = Live(p) \/ Live(p).bucket \in released
      /\ \A b \in released : \E p \in Visited :
            RL(Live(p)) /\ Live(p).bucket = b /\ Pend(p) # Live(p)
      /\ \A b \in allocated : \E p \in Visited : RL(Pend(p)) /\ Pend(p).bucket = b
  BY <1>1 DEF IInv, Transaction, Preparing
<1>9. OneOwner'
  <2> HIDE DEF Visited, Pend, Live
  <2>1. \A p \in Pos : RL(Live(p)') =>
           /\ free[(Live(p)').bucket] = 0
           /\ \A q \in Pos : q # p /\ RL(Live(q)') => (Live(q)').bucket # (Live(p)').bucket
    BY <1>2, <1>3, <1>6, <1>7, <1>8
  <2> QED
    BY <1>1, <2>1 DEF OneOwner, Limiting, RL, Pos, poolVars
<1>10. Accounting'
  <2>1. \A b \in released : free[b] = 0 /\ \A p \in Pos : RL(Live(p)') => (Live(p)').bucket # b
    BY <1>2, <1>3, <1>6, <1>7, <1>8
  <2>2. ASSUME NEW b \in Bucket
        PROVE  free[b] = 1 \/ (\E p \in Pos : RL(Live(p)') /\ (Live(p)').bucket = b) \/ b \in released
    <3>1. \/ free[b] = 1 \/ b \in allocated
          \/ \E p \in Pos : RL(Live(p)) /\ Live(p).bucket = b
      BY <1>1 DEF IInv, Accounting
    <3>2. CASE b \in allocated
      BY <1>2, <1>3, <1>8, <3>2
    <3>3. CASE \E p \in Pos : RL(Live(p)) /\ Live(p).bucket = b
      BY <1>2, <1>3, <1>8, <3>3
    <3> QED
      BY <3>1, <3>2, <3>3
  <2> QED
    BY <1>1, <2>1, <2>2 DEF IInv, Accounting, RL, poolVars
<1>11. CleanWhenAllocated'
  BY <1>1 DEF IInv, CleanWhenAllocated, poolVars
<1>12. TypeOK' /\ CallShape' /\ Transaction'
  BY <1>1 DEF IInv, TypeOK, CallShape, Transaction, Preparing, Built, poolVars
<1>13. MapsSynced'
  BY <1>1 DEF IInv, MapsSynced, CallShape
<1>14. FullyReplaced'
  <2>1. \A k \in KeysOf(grp) : k \in Pos /\ k \in Visited /\ Pend(k) = new[k]
    BY <1>3, GroupFacts DEF Pend, Pos, IInv, TypeOK
  <2> QED
    BY <1>1, <1>2, <2>1 DEF FullyReplaced
<1> QED
  BY <1>9, <1>10, <1>11, <1>12, <1>13, <1>14 DEF IInv

(* An index that is nobody's goes back to the pool, cleared. *)
LEMMA ReleaseFacts ==
    ASSUME IInv, NEW b \in Bucket, free[b] = 0, Release(b), UNCHANGED kernelVars,
           \A p \in Pos : RL(Live(p)) => Live(p).bucket # b
    PROVE  /\ free' \in [Bucket -> Nat] /\ used' \subseteq Bucket
           /\ free'[b] = 1 /\ b \notin used' /\ used' \subseteq used
           /\ \A c \in Bucket : c # b => free'[c] = free[c]
           /\ OneOwner'
<1>1. \A p \in Pos : Live(p)' = Live(p) /\ Live(p) \in Rule
  BY SameLive, LiveType DEF IInv
<1>2. /\ free' \in [Bucket -> Nat] /\ used' \subseteq Bucket
      /\ free'[b] = 1 /\ b \notin used' /\ used' \subseteq used
      /\ \A c \in Bucket : c # b => free'[c] = free[c]
  BY DEF Release, IInv, TypeOK
<1>3. OneOwner'
  BY <1>1, <1>2, RuleFacts DEF IInv, OneOwner, Limiting, RL, Pos
<1> QED
  BY <1>2, <1>3

LEMMA CommitReleaseIInv == ASSUME IInv, NEW b \in Bucket, CommitRelease(b) PROVE IInv'
<1>1. /\ pc = "commit" /\ b \in released /\ Release(b) /\ released' = released \ {b}
      /\ UNCHANGED <<kernelVars, snap, resync, pc, grp, cfg, new, todo, allocated, err>>
  BY DEF CommitRelease
<1>2. free[b] = 0 /\ \A p \in Pos : RL(Live(p)) => Live(p).bucket # b
  BY <1>1 DEF IInv, Accounting
<1>3. /\ free' \in [Bucket -> Nat] /\ used' \subseteq Bucket
      /\ free'[b] = 1 /\ b \notin used' /\ used' \subseteq used
      /\ \A c \in Bucket : c # b => free'[c] = free[c]
      /\ OneOwner'
  BY <1>1, <1>2, ReleaseFacts
<1>4. \A p \in Pos : Live(p)' = Live(p)
  BY <1>1, SameLive
<1>5. Accounting'
  <2>1. \A c \in Bucket : free'[c] \in {0, 1}
    BY <1>3 DEF IInv, Accounting
  <2>2. \A c \in released' : free'[c] = 0 /\ \A p \in Pos : RL(Live(p)') => (Live(p)').bucket # c
    BY <1>1, <1>3, <1>4 DEF IInv, Accounting, TypeOK
  <2>3. \A c \in Bucket : \/ free'[c] = 1
                          \/ \E p \in Pos : RL(Live(p)') /\ (Live(p)').bucket = c
                          \/ c \in released'
    BY <1>1, <1>3, <1>4 DEF IInv, Accounting
  <2> QED
    BY <1>1, <2>1, <2>2, <2>3 DEF Accounting, RL
<1>6. CleanWhenAllocated'
  BY <1>1, <1>3 DEF IInv, CleanWhenAllocated
<1>7. TypeOK' /\ MapsSynced' /\ CallShape' /\ Transaction'
  BY <1>1, <1>3 DEF IInv, TypeOK, MapsSynced, CallShape, Transaction, Preparing, Built, kernelVars
<1>8. FullyReplaced'
  <2>1. \A k \in KeysOf(grp) : k \in Pos
    BY GroupFacts DEF Pos, IInv, TypeOK
  <2> QED
    BY <1>1, <1>4, <2>1 DEF IInv, FullyReplaced
<1> QED
  BY <1>3, <1>5, <1>6, <1>7, <1>8 DEF IInv

LEMMA RollbackReleaseIInv == ASSUME IInv, NEW b \in Bucket, RollbackRelease(b) PROVE IInv'
<1>1. /\ pc = "rollback" /\ b \in allocated /\ Release(b) /\ allocated' = allocated \ {b}
      /\ UNCHANGED <<kernelVars, snap, resync, pc, grp, cfg, new, todo, released, err>>
  BY DEF RollbackRelease
<1>2. free[b] = 0 /\ \A p \in Pos : RL(Live(p)) => Live(p).bucket # b
  BY <1>1 DEF IInv, Accounting
<1>3. /\ free' \in [Bucket -> Nat] /\ used' \subseteq Bucket
      /\ free'[b] = 1 /\ b \notin used' /\ used' \subseteq used
      /\ \A c \in Bucket : c # b => free'[c] = free[c]
      /\ OneOwner'
  BY <1>1, <1>2, ReleaseFacts
<1>4. \A p \in Pos : Live(p)' = Live(p)
  BY <1>1, SameLive
<1>5. Accounting'
  <2>1. \A c \in Bucket : free'[c] \in {0, 1}
    BY <1>3 DEF IInv, Accounting
  <2>2. \A c \in allocated' : free'[c] = 0 /\ \A p \in Pos : RL(Live(p)') => (Live(p)').bucket # c
    BY <1>1, <1>3, <1>4 DEF IInv, Accounting, TypeOK
  <2>3. \A c \in Bucket : \/ free'[c] = 1
                          \/ \E p \in Pos : RL(Live(p)') /\ (Live(p)').bucket = c
                          \/ c \in allocated'
    BY <1>1, <1>3, <1>4 DEF IInv, Accounting
  <2> QED
    BY <1>1, <2>1, <2>2, <2>3 DEF Accounting, RL
<1>6. CleanWhenAllocated'
  BY <1>1, <1>3 DEF IInv, CleanWhenAllocated
<1>7. TypeOK' /\ MapsSynced' /\ CallShape' /\ Transaction' /\ FullyReplaced'
  BY <1>1, <1>3 DEF IInv, TypeOK, MapsSynced, CallShape, Transaction, Preparing, Built,
                    FullyReplaced, kernelVars
<1> QED
  BY <1>3, <1>5, <1>6, <1>7 DEF IInv

LEMMA ReturnIInv == ASSUME IInv, Return PROVE IInv'
<1>1. /\ \/ pc = "commit" /\ released = {}
         \/ pc = "rollback" /\ allocated = {}
      /\ pc' = "idle" /\ grp' = "src" /\ cfg' = NoCfg /\ new' = [k \in Key |-> NoRule]
      /\ todo' = {} /\ allocated' = {} /\ released' = {} /\ err' = "none"
      /\ UNCHANGED <<kernelVars, snap, resync, poolVars>>
  BY DEF Return
<1>2. \A p \in Pos : Live(p)' = Live(p)
  BY <1>1, SameLive
<1>3. TypeOK'
  BY <1>1, RuleFacts DEF IInv, TypeOK, NoCfg, Group, MapGroup, Side, kernelVars, poolVars
<1>4. MapsSynced' /\ CallShape' /\ Transaction' /\ FullyReplaced'
  BY <1>1 DEF IInv, MapsSynced, CallShape, Transaction, Preparing, FullyReplaced, Built, kernelVars
<1>5. Accounting' /\ OneOwner' /\ CleanWhenAllocated'
  BY <1>1, <1>2 DEF IInv, Accounting, OneOwner, CleanWhenAllocated, Limiting, RL, Pos, poolVars
<1> QED
  BY <1>3, <1>4, <1>5 DEF IInv

LEMMA ChargeIInv == ASSUME IInv, NEW p \in Pos, Charge(p) PROVE IInv'
<1>1. /\ RL(Live(p)) /\ used' = used \cup {Live(p).bucket}
      /\ UNCHANGED <<kernelVars, snap, resync, free, callVars>>
  BY DEF Charge, RL
<1>2. \A q \in Pos : Live(q)' = Live(q)
  BY <1>1, SameLive
<1>3. Live(p).bucket \in Bucket /\ free[Live(p).bucket] = 0
  BY <1>1, LiveType, RuleFacts DEF IInv, OneOwner, Limiting, RL, Pos
<1>4. pc # "commit" => Live(p).bucket \notin allocated
  BY <1>1 DEF IInv, Accounting
<1>5. TypeOK' /\ MapsSynced' /\ CallShape'
  BY <1>1, <1>3 DEF IInv, TypeOK, MapsSynced, CallShape, Built, kernelVars, callVars
<1>6. Transaction'
  <2>1. Visited' = Visited /\ Visited \subseteq Pos /\ \A q \in Visited : Pend(q)' = Pend(q)
    BY <1>1, GroupFacts DEF Visited, Built, Pend, Pos, callVars, IInv, TypeOK
  <2> QED
    BY <1>1, <1>2, <2>1 DEF IInv, Transaction, Preparing, callVars
<1>7. Accounting' /\ OneOwner'
  BY <1>1, <1>2 DEF IInv, Accounting, OneOwner, Limiting, RL, Pos, callVars
<1>8. CleanWhenAllocated'
  BY <1>1, <1>3, <1>4 DEF IInv, CleanWhenAllocated, callVars
<1>9. FullyReplaced'
  <2>1. \A k \in KeysOf(grp) : k \in Pos
    BY GroupFacts DEF Pos, IInv, TypeOK
  <2> QED
    BY <1>1, <1>2, <2>1 DEF IInv, FullyReplaced, callVars
<1> QED
  BY <1>5, <1>6, <1>7, <1>8, <1>9 DEF IInv

LEMMA NextIInv == IInv /\ [Next]_vars => IInv'
<1> SUFFICES ASSUME IInv, [Next]_vars PROVE IInv'
  OBVIOUS
<1>1. CASE \E g \in Group : Begin(g)
  BY <1>1, BeginIInv
<1>2. CASE \E k \in Key, w \in Wanted : AddRule(k, w)
  BY <1>2, AddRuleIInv
<1>3. CASE EndBuild
  BY <1>3, EndBuildIInv
<1>4. CASE ReplaceMap
  BY <1>4, ReplaceMapIInv
<1>5. CASE ReplaceMapFails
  BY <1>5, ReplaceMapFailsIInv
<1>6. CASE \E s \in Slot, w \in Wanted : ApplySlot(s, w)
  BY <1>6, ApplySlotIInv
<1>7. CASE \E p \in Key \cup Slot, w \in Wanted : Exhausted(p, w)
  BY <1>7, ThrowIInv DEF Exhausted, Throw
<1>8. CASE Upload
  BY <1>8, UploadIInv
<1>9. CASE UploadFails
  BY <1>9, ThrowIInv DEF UploadFails, Throw
<1>10. CASE \E b \in Bucket : CommitRelease(b) \/ RollbackRelease(b)
  BY <1>10, CommitReleaseIInv, RollbackReleaseIInv
<1>11. CASE Return
  BY <1>11, ReturnIInv
<1>12. CASE \E p \in Key \cup Slot : Charge(p)
  BY <1>12, ChargeIInv DEF Pos
<1>13. CASE UNCHANGED vars
  <2>1. \A p \in Pos : Live(p)' = Live(p)
    BY <1>13, SameLive DEF vars
  <2>2. Visited' = Visited /\ Visited \subseteq Pos /\ \A q \in Visited : Pend(q)' = Pend(q)
    BY <1>13, GroupFacts DEF vars, callVars, Visited, Built, Pend, Pos, IInv, TypeOK
  <2>3. \A k \in KeysOf(grp) : k \in Pos
    BY GroupFacts DEF Pos, IInv, TypeOK
  <2>4. TypeOK' /\ MapsSynced' /\ CallShape'
    BY <1>13 DEF vars, kernelVars, poolVars, callVars, IInv, TypeOK, MapsSynced, CallShape, Built
  <2>5. Transaction'
    BY <1>13, <2>1, <2>2 DEF vars, callVars, IInv, Transaction, Preparing
  <2>6. Accounting' /\ OneOwner' /\ CleanWhenAllocated' /\ FullyReplaced'
    BY <1>13, <2>1, <2>3 DEF vars, poolVars, callVars, IInv, Accounting, OneOwner,
       CleanWhenAllocated, FullyReplaced, Limiting, RL, Pos
  <2> QED
    BY <2>4, <2>5, <2>6 DEF IInv
<1> QED
  BY <1>1, <1>2, <1>3, <1>4, <1>5, <1>6, <1>7, <1>8, <1>9, <1>10, <1>11, <1>12, <1>13
     DEF Next, Call

LEMMA InductiveInvariant == Spec => []IInv
<1>1. Init => IInv
  BY InitIInv
<1> QED
  BY <1>1, NextIInv, PTL DEF Spec

-----------------------------------------------------------------------------
(* Rules, maps, pool and transaction keep their shape through every set_*  *)
(* call of BpfMapsManager.                                                 *)
THEOREM TypeCorrect == Spec => []TypeOK
<1>1. IInv => TypeOK
  BY DEF IInv
<1> QED
  BY <1>1, InductiveInvariant, PTL

(* With any number of rules, limits and buckets, two live RATE_LIMIT rules *)
(* never share a bucket and the pool never offers a bucket that is in use: *)
(* what reconcile_ratelimit_bucket and IndexPoolTransaction are for.       *)
THEOREM BucketsHaveOneOwner == Spec => []OneOwner
<1>1. IInv => OneOwner
  BY DEF IInv
<1> QED
  BY <1>1, InductiveInvariant, PTL

(* After every set_* call, successful or thrown, the pool and the live     *)
(* rules hold all buckets between them: IndexPoolTransaction leaks none.   *)
THEOREM NothingLeaks == Spec => []NoLeak
<1>1. IInv => NoLeak
  BY DEF IInv, NoLeak, Accounting, CallShape, Limiting, RL, Pos
<1> QED
  BY <1>1, InductiveInvariant, PTL

(* reset_rlimit_bucket has cleared every bucket the pool can hand out. *)
THEOREM AllocatedClean == Spec => []CleanWhenAllocated
<1>1. IInv => CleanWhenAllocated
  BY DEF IInv
<1> QED
  BY <1>1, InductiveInvariant, PTL

(* What upload_config_changes publishes is exactly the rule set that was   *)
(* built, even when earlier updates of the same map failed half way.       *)
THEOREM PublishesWhatWasBuilt == Spec => []FullyReplaced
<1>1. IInv => FullyReplaced
  BY DEF IInv
<1> QED
  BY <1>1, InductiveInvariant, PTL

(* Nothing a set_* call does before upload_config_changes, and nothing it  *)
(* does when it fails, changes a rule the datapath can find.               *)
LEMMA OnlyUploadShows ==
    ASSUME IInv, [Next]_vars, NEW p \in Pos, Live(p)' # Live(p)
    PROVE  Upload
<1>1. CASE ReplaceMap
  <2> DEFINE d == next_map_idx(cfg.amap[grp])
  <2>1. pc = "replace"
    BY <1>1 DEF ReplaceMap
  <2>2. d \in Side /\ d # amap[grp]
    BY <2>1, ReplaceFacts
  <2>3. kmap' = [kmap EXCEPT ![d] = [k \in Key |-> Replaced(d, k)]] /\ UNCHANGED <<amap, slots>>
    BY <1>1 DEF ReplaceMap
  <2> HIDE DEF d
  <2>4. /\ \A e \in Side : e # d => kmap'[e] = kmap[e]
        /\ \A k \in Key : k \notin KeysOf(grp) => kmap'[d][k] = kmap[d][k]
    BY <2>2, <2>3 DEF IInv, TypeOK, Replaced
  <2> QED
    BY <2>2, <2>3, <2>4, OtherMapLive
<1>2. CASE ReplaceMapFails
  <2> DEFINE d == next_map_idx(cfg.amap[grp])
  <2>1. PICK sent, lost \in SUBSET KeysOf(grp) :
           kmap' = [kmap EXCEPT ![d] = [k \in Key |->
                      IF k \in lost THEN NoRule
                      ELSE IF k \in sent THEN new[k] ELSE kmap[d][k]]]
    BY <1>2 DEF ReplaceMapFails
  <2>2. pc = "replace" /\ UNCHANGED <<amap, slots>>
    BY <1>2 DEF ReplaceMapFails
  <2>3. d \in Side /\ d # amap[grp]
    BY <2>2, ReplaceFacts
  <2> HIDE DEF d
  <2>4. /\ \A e \in Side : e # d => kmap'[e] = kmap[e]
        /\ \A k \in Key : k \notin KeysOf(grp) => kmap'[d][k] = kmap[d][k]
    BY <2>1, <2>3 DEF IInv, TypeOK
  <2> QED
    BY <2>2, <2>3, <2>4, OtherMapLive
<1>3. CASE UNCHANGED kernelVars
  BY <1>3, SameLive
<1> QED
  BY <1>1, <1>2, <1>3 DEF Next, Call, Begin, AddRule, EndBuild, ApplySlot, Exhausted, UploadFails,
     CommitRelease, RollbackRelease, Return, Charge, vars

(* "Until this function is called, no changes are visible in the BPF       *)
(* datapath" (maps_manager.hh:162), for every rule set and every failure.  *)
THEOREM OnlyUploadIsVisible == Spec => InvisibleUntilUpload
<1>1. IInv /\ [Next]_vars =>
        [(\E p \in Key \cup Slot : Live(p)' # Live(p)) => pc = "slots" /\ pc' = "commit"]_vars
  BY OnlyUploadShows DEF Upload, Pos
<1> QED
  BY <1>1, InductiveInvariant, PTL DEF Spec, InvisibleUntilUpload

(* No step clears or hands away the bucket of a rule that is live before   *)
(* and after it.                                                           *)
LEMMA LiveCountersKept ==
    ASSUME IInv, [Next]_vars, NEW p \in Pos, RL(Live(p))
    PROVE  Live(p).bucket \in used => Live(p).bucket \in used'
<1>1. CASE \E b \in Bucket : CommitRelease(b)
  BY <1>1 DEF CommitRelease, Release, IInv, Accounting
<1>2. CASE \E b \in Bucket : RollbackRelease(b)
  BY <1>2 DEF RollbackRelease, Release, IInv, Accounting
<1>3. CASE used \subseteq used'
  BY <1>3
<1> QED
  BY <1>1, <1>2, <1>3 DEF Next, Call, Begin, AddRule, EndBuild, ReplaceMap, ReplaceMapFails,
     ApplySlot, Exhausted, Upload, UploadFails, Return, Charge, vars, poolVars

(* A rule that stays under the same named limit keeps its bucket and its   *)
(* counters through every update: reconcile_ratelimit_bucket reuses, and   *)
(* neither commit nor rollback resets what is still live.                  *)
THEOREM ReusedBucketKeepsCounters == Spec => KeepsCounters
<1>1. ASSUME IInv, [Next]_vars, NEW p \in Pos, SameLimit(Live(p)', Live(p))
      PROVE  Live(p)' = Live(p)
  <2>1. CASE Upload
    <3>1. Live(p)' = IF p \in Visited THEN Pend(p) ELSE Live(p)
      BY <1>1, <2>1, UploadLive
    <3> QED
      BY <1>1, <2>1, <3>1 DEF Upload, IInv, Transaction, Preparing
  <2> QED
    BY <1>1, <2>1, OnlyUploadShows
<1>2. IInv /\ [Next]_vars =>
        [\A p \in Key \cup Slot :
          (Limiting(p) /\ Limiting(p)' /\ Live(p)'.named = Live(p).named) =>
              /\ Live(p)'.bucket = Live(p).bucket
              /\ Live(p).bucket \in used => Live(p).bucket \in used']_vars
  BY <1>1, LiveCountersKept DEF Limiting, SameLimit, RL, Pos
<1> QED
  BY <1>2, InductiveInvariant, PTL DEF Spec, KeepsCounters

-----------------------------------------------------------------------------
(* The size of the bucket array *)

(* The keys of a group that hold a rule in its live map *)
Occupied(g) == {k \in KeysOf(g) : Live(k) # NoRule}

(* Every rule set that was published, or is about to be, is within its     *)
(* limit, so live rules and one open transaction fit the bucket array.     *)
Capacity ==
    /\ IsFiniteSet(Built)
    /\ \A g \in {"icmp", "dst"} : IsFiniteSet(Occupied(g)) /\ Cardinality(Occupied(g)) <= Limit(g)
    /\ pc \in {"replace", "slots"} => Cardinality(Built) <= Limit(grp)
    /\ err # "none" => pc = "rollback"
    /\ ExhaustedOnlyOverLimit

LEMMA LimitType == \A g : Limit(g) \in Nat
  BY MapsManagerAssumption DEF Limit

(* A set of values is no larger than the set of rules that hold them. *)
LEMMA ImageBound ==
    ASSUME NEW S, IsFiniteSet(S), NEW f, NEW T, \A t \in T : \E x \in S : f[x] = t
    PROVE  IsFiniteSet(T) /\ Cardinality(T) <= Cardinality(S)
<1> DEFINE D == {x \in S : f[x] \in T}
           g == [x \in D |-> f[x]]
<1>1. IsFiniteSet(D) /\ Cardinality(D) <= Cardinality(S)
  BY FS_Subset
<1>2. g \in Surjection(D, T)
  BY DEF Surjection
<1>3. IsFiniteSet(T) /\ Cardinality(T) <= Cardinality(D)
  BY <1>1, <1>2, FS_Surjection
<1>4. Cardinality(T) \in Nat /\ Cardinality(D) \in Nat /\ Cardinality(S) \in Nat
  BY <1>1, <1>3, FS_CardinalityType
<1> QED
  BY <1>1, <1>3, <1>4

LEMMA UnionBound ==
    ASSUME NEW S, IsFiniteSet(S), NEW T, IsFiniteSet(T)
    PROVE  /\ IsFiniteSet(S \cup T) /\ Cardinality(S \cup T) \in Nat
           /\ Cardinality(S \cup T) <= Cardinality(S) + Cardinality(T)
           /\ Cardinality(S) \in Nat /\ Cardinality(T) \in Nat
<1>1. IsFiniteSet(S \cup T) /\ IsFiniteSet(S \cap T)
  BY FS_Union, FS_Subset
<1>2. /\ Cardinality(S) \in Nat /\ Cardinality(T) \in Nat
      /\ Cardinality(S \cup T) \in Nat /\ Cardinality(S \cap T) \in Nat
  BY <1>1, FS_CardinalityType
<1>3. Cardinality(S \cup T) = Cardinality(S) + Cardinality(T) - Cardinality(S \cap T)
  BY FS_Union
<1> QED
  BY <1>1, <1>2, <1>3

(* The live rules own at most one half of the bucket array. *)
LEMMA LiveBound ==
    ASSUME IInv, Capacity
    PROVE  LET L == {b \in Bucket : \E p \in Pos : RL(Live(p)) /\ Live(p).bucket = b}
           IN  /\ IsFiniteSet(L)
               /\ Cardinality(L) <= MAX_ICMP_RULES + MAX_DST_RULES
                                     + Cardinality(Flag) + Cardinality(Default)
<1> DEFINE L == {b \in Bucket : \E p \in Pos : RL(Live(p)) /\ Live(p).bucket = b}
           K == Occupied("icmp") \cup Occupied("dst")
           S == K \cup (Flag \cup Default)
           f == [p \in Pos |-> Live(p).bucket]
<1>1. /\ IsFiniteSet(Occupied("icmp")) /\ Cardinality(Occupied("icmp")) <= MAX_ICMP_RULES
      /\ IsFiniteSet(Occupied("dst")) /\ Cardinality(Occupied("dst")) <= MAX_DST_RULES
  BY DEF Capacity, Limit
<1>2. IsFiniteSet(K) /\ Cardinality(K) <= MAX_ICMP_RULES + MAX_DST_RULES /\ Cardinality(K) \in Nat
  <2> HIDE DEF K
  <2>1. /\ IsFiniteSet(K) /\ Cardinality(K) \in Nat
        /\ Cardinality(K) <= Cardinality(Occupied("icmp")) + Cardinality(Occupied("dst"))
        /\ Cardinality(Occupied("icmp")) \in Nat /\ Cardinality(Occupied("dst")) \in Nat
    BY <1>1, UnionBound DEF K
  <2> QED
    BY <1>1, <2>1, MapsManagerAssumption
<1>3. /\ IsFiniteSet(Flag \cup Default) /\ Cardinality(Flag \cup Default) \in Nat
      /\ Cardinality(Flag \cup Default) <= Cardinality(Flag) + Cardinality(Default)
      /\ Cardinality(Flag) \in Nat /\ Cardinality(Default) \in Nat
  BY UnionBound, MapsManagerAssumption
<1> HIDE DEF K
<1>4. /\ IsFiniteSet(S) /\ Cardinality(S) \in Nat
      /\ Cardinality(S) <= Cardinality(K) + Cardinality(Flag \cup Default)
  BY <1>2, <1>3, UnionBound
<1>5. \A b \in L : \E p \in S : f[p] = b
  <2> SUFFICES ASSUME NEW b \in L PROVE \E p \in S : f[p] = b
    OBVIOUS
  <2>1. PICK p \in Pos : RL(Live(p)) /\ Live(p).bucket = b
    OBVIOUS
  <2>2. CASE p \in Key
    <3>1. Live(p) # NoRule /\ (p \in IcmpKey \/ p \in DstKey)
      BY <2>1, <2>2, RuleFacts DEF Key
    <3>2. p \in K
      BY <3>1 DEF K, Occupied, KeysOf
    <3> QED
      BY <2>1, <3>2
  <2>3. CASE p \in Slot
    BY <2>1, <2>3 DEF Slot
  <2> QED
    BY <2>2, <2>3 DEF Pos
<1> HIDE DEF S, f, L
<1>6. IsFiniteSet(L) /\ Cardinality(L) <= Cardinality(S)
  BY <1>4, <1>5, ImageBound
<1>7. Cardinality(L) \in Nat
  BY <1>6, FS_CardinalityType
<1>8. Cardinality(L) <= MAX_ICMP_RULES + MAX_DST_RULES + Cardinality(Flag) + Cardinality(Default)
  BY <1>2, <1>3, <1>4, <1>6, <1>7, MapsManagerAssumption
<1> QED
  BY <1>6, <1>8 DEF L

(* An open transaction holds at most one bucket per rule decided about. *)
LEMMA AllocatedBound ==
    ASSUME IInv, Preparing, IsFiniteSet(Visited)
    PROVE  IsFiniteSet(allocated) /\ Cardinality(allocated) <= Cardinality(Visited)
<1> DEFINE f == [p \in Visited |-> Pend(p).bucket]
<1>1. \A b \in allocated : \E p \in Visited : f[p] = b
  BY DEF IInv, Transaction
<1> HIDE DEF f
<1> QED
  BY <1>1, ImageBound

LEMMA ExhaustedCapacity ==
    ASSUME IInv, Capacity, NEW p \in Pos, NEW w \in Wanted, Exhausted(p, w)
    PROVE  grp \in {"icmp", "dst"} /\ Cardinality(Built) >= Limit(grp)
<1> DEFINE L == {b \in Bucket : \E q \in Pos : RL(Live(q)) /\ Live(q).bucket = b}
           Half == MAX_ICMP_RULES + MAX_DST_RULES + Cardinality(Flag) + Cardinality(Default)
<1>1. \A b \in Bucket : free[b] = 0
  BY DEF Exhausted
<1>2. pc \in {"build", "slots"} /\ (pc = "build" => p \in KeysOf(grp)) /\ (pc = "slots" => p \in todo)
  BY DEF Exhausted
<1>3. Bucket \subseteq L \cup allocated
  BY <1>1, <1>2 DEF IInv, Accounting
<1>4. IsFiniteSet(L) /\ Cardinality(L) <= Half
  BY LiveBound
<1>5. Cardinality(Flag) \in Nat /\ Cardinality(Default) \in Nat
  BY MapsManagerAssumption, FS_CardinalityType
<1>6. Cardinality(Bucket) = Half + Half
  BY <1>5, MapsManagerAssumption DEF XFW_MAX_RATE_LIMITER_BUCKETS
<1> HIDE DEF L
<1>7. IsFiniteSet(allocated) => Cardinality(allocated) \in Nat /\ Cardinality(allocated) >= Half
  <2> HAVE IsFiniteSet(allocated)
  <2>1. /\ IsFiniteSet(L \cup allocated) /\ Cardinality(L \cup allocated) \in Nat
        /\ Cardinality(L \cup allocated) <= Cardinality(L) + Cardinality(allocated)
        /\ Cardinality(L) \in Nat /\ Cardinality(allocated) \in Nat
    BY <1>4, UnionBound
  <2>2. Cardinality(Bucket) <= Cardinality(L \cup allocated) /\ Cardinality(Bucket) \in Nat
    BY <1>3, <2>1, FS_Subset, FS_CardinalityType
  <2> QED
    BY <1>4, <1>5, <1>6, <2>1, <2>2, MapsManagerAssumption
<1>8. Cardinality(Built) \in Nat /\ IsFiniteSet(Built)
  BY FS_CardinalityType DEF Capacity
<1>9. CASE pc = "build"
  <2>1. grp \in {"icmp", "dst"}
    BY <1>2, <1>9 DEF KeysOf
  <2>2. Visited = Built
    BY <1>9 DEF Visited, IInv, CallShape
  <2>3. IsFiniteSet(allocated) /\ Cardinality(allocated) <= Cardinality(Built)
    BY <1>8, <1>9, <2>2, AllocatedBound DEF Preparing
  <2>4. Cardinality(Built) >= Half
    BY <1>5, <1>7, <1>8, <2>3, MapsManagerAssumption
  <2>5. Limit(grp) <= Half
    BY <1>5, MapsManagerAssumption DEF Limit
  <2> QED
    BY <1>5, <1>8, <2>1, <2>4, <2>5, LimitType, MapsManagerAssumption
<1>10. CASE pc = "slots"
  <2> DEFINE T == (Flag \cup Default) \ {p}
             V == Built \cup T
  <2>1. p \in Flag \cup Default
    BY <1>2, <1>10 DEF IInv, TypeOK, Slot
  <2>2. /\ IsFiniteSet(Flag \cup Default) /\ Cardinality(Flag \cup Default) \in Nat
        /\ Cardinality(Flag \cup Default) <= Cardinality(Flag) + Cardinality(Default)
    BY UnionBound, MapsManagerAssumption
  <2>3. IsFiniteSet(T) /\ Cardinality(T) = Cardinality(Flag \cup Default) - 1
    BY <2>1, <2>2, FS_RemoveElement
  <2> HIDE DEF T
  <2>4. /\ IsFiniteSet(V) /\ Cardinality(V) <= Cardinality(Built) + Cardinality(T)
        /\ Cardinality(V) \in Nat
    BY <1>8, <2>3, UnionBound
  <2>5. Cardinality(Built) <= Limit(grp) /\ Limit(grp) <= MAX_ICMP_RULES + MAX_DST_RULES
    BY <1>10, MapsManagerAssumption DEF Capacity, Limit
  <2>6. \A b \in allocated : \E q \in V : Pend(q).bucket = b
    <3> SUFFICES ASSUME NEW b \in allocated PROVE \E q \in V : Pend(q).bucket = b
      OBVIOUS
    <3>1. PICK q \in Visited : RL(Pend(q)) /\ Pend(q).bucket = b
      BY <1>10 DEF IInv, Transaction, Preparing
    <3>2. CASE q \in KeysOf(grp)
      <4>1. q \in Key /\ Pend(q) = new[q]
        BY <3>2, GroupFacts DEF Pend, IInv, TypeOK
      <4>2. q \in Built
        BY <3>1, <4>1, RuleFacts DEF Built
      <4> QED
        BY <3>1, <4>2
    <3>3. CASE q \notin KeysOf(grp)
      <4>1. q \in SlotsOf(grp) \ todo
        BY <1>10, <3>1, <3>3 DEF Visited
      <4>2. q \in T
        BY <1>2, <1>10, <4>1, GroupFacts DEF T, Slot, IInv, TypeOK
      <4> QED
        BY <3>1, <4>2
    <3> QED
      BY <3>2, <3>3
  <2> DEFINE f == [q \in V |-> Pend(q).bucket]
  <2>7. \A b \in allocated : \E q \in V : f[q] = b
    BY <2>6
  <2> HIDE DEF V, f
  <2>8. IsFiniteSet(allocated) /\ Cardinality(allocated) <= Cardinality(V)
    BY <2>4, <2>7, ImageBound
  <2> QED
    BY <1>5, <1>7, <1>8, <2>2, <2>3, <2>4, <2>5, <2>8, LimitType, MapsManagerAssumption
<1> QED
  BY <1>2, <1>9, <1>10

LEMMA InitCapacity == ASSUME Init PROVE Capacity
<1>1. Built = {}
  BY DEF Init, Built
<1>2. \A g \in {"icmp", "dst"} : Occupied(g) = {}
  <2>1. \A k \in Key : Live(k) = NoRule
    BY GroupFacts DEF Init, Live, Side
  <2>2. \A g \in {"icmp", "dst"} : KeysOf(g) \subseteq Key
    BY DEF KeysOf, Key
  <2> QED
    BY <2>1, <2>2 DEF Occupied
<1> QED
  BY <1>1, <1>2, FS_EmptySet, LimitType DEF Init, Capacity, ExhaustedOnlyOverLimit

LEMMA NextCapacity == IInv /\ Capacity /\ [Next]_vars => Capacity'
<1> SUFFICES ASSUME IInv, Capacity, [Next]_vars PROVE Capacity'
  OBVIOUS
<1>k. \A g \in {"icmp", "dst"} : KeysOf(g) \subseteq Pos
  BY DEF KeysOf, Key, Pos
<1>l. (\A p \in Pos : Live(p)' = Live(p)) => \A g \in {"icmp", "dst"} : Occupied(g)' = Occupied(g)
  BY <1>k DEF Occupied
<1>o. Upload \/ \A g \in {"icmp", "dst"} : Occupied(g)' = Occupied(g)
  BY <1>l, OnlyUploadShows
<1>e. Built' = {} => IsFiniteSet(Built') /\ Cardinality(Built') = 0
  BY FS_EmptySet
<1>1. CASE \E g \in Group : Begin(g)
  <2>1. Built' = {} /\ err' = err /\ err = "none" /\ ~Upload
    BY <1>1 DEF Begin, Built, Capacity, Upload
  <2> QED
    BY <1>e, <1>o, <2>1, LimitType DEF Capacity, ExhaustedOnlyOverLimit
<1>2. CASE \E k \in Key, w \in Wanted : AddRule(k, w)
  <2>1. PICK k \in Key, w \in Wanted : AddRule(k, w)
    BY <1>2
  <2>2. pc = "build" /\ err = "none" /\ grp' = grp /\ ~Upload
    BY <2>1 DEF AddRule, Capacity, Upload
  <2>3. PICK r \in Rule : IF new[k] = NoRule
                          THEN new' = [new EXCEPT ![k] = r] /\ UNCHANGED <<pc, err>>
                          ELSE Throw("duplicate") /\ UNCHANGED new
    BY <2>1 DEF AddRule
  <2>4. Built' \subseteq Built \cup {k}
    BY <2>3 DEF Built, IInv, TypeOK
  <2>5. IsFiniteSet(Built')
    <3>1. IsFiniteSet(Built \cup {k})
      BY FS_AddElement DEF Capacity
    <3> QED
      BY <2>4, <3>1, FS_Subset
  <2>6. \/ pc' = "build" /\ err' = "none"
        \/ pc' = "rollback" /\ err' = "duplicate"
    BY <2>2, <2>3 DEF Throw
  <2> QED
    BY <1>o, <2>2, <2>5, <2>6 DEF Capacity, ExhaustedOnlyOverLimit
<1>3. CASE EndBuild
  <2>1. /\ pc = "build" /\ Built' = Built /\ grp' = grp /\ ~Upload /\ err = "none"
        /\ \/ pc' = "rollback" /\ err' = "limit"
           \/ pc' = "replace" /\ err' = err /\ ~(Cardinality(Built) > Limit(grp))
    BY <1>3 DEF EndBuild, Throw, Built, Upload, Capacity
  <2>2. Cardinality(Built) \in Nat
    BY FS_CardinalityType DEF Capacity
  <2> QED
    BY <1>o, <2>1, <2>2, LimitType DEF Capacity, ExhaustedOnlyOverLimit
<1>4. CASE ReplaceMap
  BY <1>o, <1>4 DEF ReplaceMap, Capacity, ExhaustedOnlyOverLimit, Built, Upload
<1>5. CASE ReplaceMapFails
  BY <1>o, <1>5 DEF ReplaceMapFails, Throw, Capacity, ExhaustedOnlyOverLimit, Built, Upload
<1>6. CASE \E s \in Slot, w \in Wanted : ApplySlot(s, w)
  <2>1. UNCHANGED <<pc, err, grp, new, kernelVars>>
    BY <1>6 DEF ApplySlot
  <2>2. \A g \in {"icmp", "dst"} : Occupied(g)' = Occupied(g)
    BY <1>l, <2>1, SameLive
  <2> QED
    BY <2>1, <2>2 DEF Capacity, ExhaustedOnlyOverLimit, Built
<1>7. CASE \E p \in Key \cup Slot, w \in Wanted : Exhausted(p, w)
  <2>1. grp \in {"icmp", "dst"} /\ Cardinality(Built) >= Limit(grp)
    BY <1>7, ExhaustedCapacity DEF Pos
  <2>2. UNCHANGED <<grp, new, kernelVars>> /\ pc' = "rollback"
    BY <1>7 DEF Exhausted, Throw
  <2>3. \A g \in {"icmp", "dst"} : Occupied(g)' = Occupied(g)
    BY <1>l, <2>2, SameLive
  <2> QED
    BY <2>1, <2>2, <2>3 DEF Capacity, ExhaustedOnlyOverLimit, Built
<1>8. CASE Upload
  <2>1. /\ pc = "slots" /\ pc' = "commit" /\ grp' = grp /\ new' = new /\ err' = err
        /\ Built' = Built /\ err = "none"
    BY <1>8 DEF Upload, Built, Capacity
  <2>2. FullyReplaced'
    BY NextIInv DEF IInv
  <2>3. ASSUME NEW g \in {"icmp", "dst"}
        PROVE  IsFiniteSet(Occupied(g)') /\ Cardinality(Occupied(g)') <= Limit(g)
    <3>1. CASE g = grp
      <4>1. Occupied(g)' = Built
        BY <2>1, <2>2, <3>1, GroupFacts DEF Occupied, FullyReplaced, Built, IInv, CallShape, TypeOK
      <4> QED
        BY <2>1, <3>1, <4>1 DEF Capacity
    <3>2. CASE g # grp
      <4>1. \A k \in KeysOf(g) : k \in Pos /\ k \notin Visited
        <5>1. \A k \in KeysOf(g) : k \in Key /\ GroupOf(k) = g
          BY GroupFacts DEF Group, MapGroup
        <5>2. \A k \in KeysOf(g) : k \notin KeysOf(grp) /\ k \notin SlotsOf(grp)
          BY <3>2, <5>1, GroupFacts DEF IInv, TypeOK
        <5> QED
          BY <2>1, <5>1, <5>2 DEF Visited, Pos
      <4>2. Occupied(g)' = Occupied(g)
        BY <1>8, <4>1, UploadLive DEF Occupied
      <4> QED
        BY <4>2 DEF Capacity
    <3> QED
      BY <3>1, <3>2
  <2> QED
    BY <2>1, <2>3 DEF Capacity, ExhaustedOnlyOverLimit, Limit
<1>9. CASE UploadFails
  BY <1>9, <1>l, SameLive DEF UploadFails, Throw, Capacity, ExhaustedOnlyOverLimit, Built
<1>10. CASE \E b \in Bucket : CommitRelease(b) \/ RollbackRelease(b)
  <2>1. UNCHANGED <<pc, err, grp, new, kernelVars>>
    BY <1>10 DEF CommitRelease, RollbackRelease
  <2>2. \A g \in {"icmp", "dst"} : Occupied(g)' = Occupied(g)
    BY <1>l, <2>1, SameLive
  <2> QED
    BY <2>1, <2>2 DEF Capacity, ExhaustedOnlyOverLimit, Built
<1>11. CASE Return
  <2>1. Built' = {} /\ err' = "none" /\ pc' = "idle" /\ ~Upload
    BY <1>11 DEF Return, Built, Upload
  <2> QED
    BY <1>e, <1>o, <2>1 DEF Capacity, ExhaustedOnlyOverLimit
<1>12. CASE (\E p \in Key \cup Slot : Charge(p)) \/ UNCHANGED vars
  <2>1. UNCHANGED <<pc, err, grp, new, kernelVars>>
    BY <1>12 DEF Charge, callVars, vars
  <2>2. \A g \in {"icmp", "dst"} : Occupied(g)' = Occupied(g)
    BY <1>l, <2>1, SameLive
  <2> QED
    BY <2>1, <2>2 DEF Capacity, ExhaustedOnlyOverLimit, Built
<1> QED
  BY <1>1, <1>2, <1>3, <1>4, <1>5, <1>6, <1>7, <1>8, <1>9, <1>10, <1>11, <1>12
     DEF Next, Call

(* XFW_MAX_RATE_LIMITER_BUCKETS is large enough for every size of the rule *)
(* maps and every number of defaults and flags: live rules take one half,  *)
(* the transaction the other, and the pool runs dry only for a rule set    *)
(* that is over its limit.                                                 *)
THEOREM PoolIsLargeEnough == Spec => []ExhaustedOnlyOverLimit
<1>1. Init => Capacity
  BY InitCapacity
<1>2. Capacity => ExhaustedOnlyOverLimit
  BY DEF Capacity
<1> QED
  BY <1>1, <1>2, NextCapacity, InductiveInvariant, PTL DEF Spec
=============================================================================
