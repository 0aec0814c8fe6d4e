--------------------------- MODULE RuleMaps_proofs ---------------------------
(***************************************************************************)
(* Proofs about the maps of rules: how one copy is written                 *)
(* (ShadowHashMap), how the datapath is switched from one copy to the      *)
(* other (DatapathSwitch), and what is written into them: the user's rules *)
(* and the networks of the countries (ManagerConfig, GeoIp).               *)
(*                                                                         *)
(* The writer, for every set of keys and values, every batch size and      *)
(* every capacity: replace() keeps its snapshot honest through any         *)
(* sequence of partial failures, and implements AtomicMap.                 *)
(*                                                                         *)
(* The switch, for any number of CPUs, packets in flight, flows and rule   *)
(* sets, and for a configuration element that is copied at once or field   *)
(* by field: ConsistentView is about packets that have their verdict; what *)
(* carries it is that the copy a packet selected is one it may use (Held), *)
(* and that the manager only rewrites a copy no packet holds.              *)
(*                                                                         *)
(* The contents, for any texts and databases and any address widths.  The  *)
(* user's rules: the tries follow from the stored rules (TriesFollow).     *)
(* The import: the walk lists its leaves in the order of their addresses   *)
(* (Block) and agrees with the path of every address (Decided); merging    *)
(* keeps prefixes that share no address and have no sibling beside them    *)
(* (Merged), and adds exactly the addresses of a leaf (Joining, Filled).   *)
(***************************************************************************)
EXTENDS ShadowHashMap, DatapathSwitch, ManagerConfig, Counting, SequenceTheorems

(* How far a call has come, phase by phase.  This is the strengthening of  *)
(* SnapshotAuthoritative that every step preserves: what was sent is in    *)
(* the kernel, what was not is still as the call found it.                 *)
Progress ==
    /\ pc = "idle" => (~resync_required => kernel = snapshot)
    /\ pc = "delete" =>
         /\ ~resync_required
         /\ before = snapshot
         /\ todo \subseteq DeleteKeys(snapshot, new_state)
         /\ \A k \in Key : kernel[k] =
              IF k \in DeleteKeys(snapshot, new_state) /\ k \notin todo
              THEN Absent ELSE snapshot[k]
    /\ pc = "clear" =>
         /\ resync_required
         /\ \A k \in Key : kernel[k] \in {before[k], Absent}
    /\ pc = "upsert" =>
         /\ todo \subseteq Dom(new_state)
         /\ \A k \in Key : IF k \in todo THEN kernel[k] \in {before[k], Absent}
                                      ELSE kernel[k] = new_state[k]
    /\ pc # "idle" => new_state \in Requests

IInv == TypeOK /\ Progress

LEMMA InitIInv == Init => IInv
  BY DEF Init, IInv, TypeOK, Progress, Empty, Contents

LEMMA NextIInv == IInv /\ [Next]_vars => IInv'
<1> SUFFICES ASSUME IInv, [Next]_vars PROVE IInv'
  OBVIOUS
<1> USE DEF IInv, TypeOK, Progress
<1>1. ASSUME NEW n \in Requests, Replace(n) PROVE IInv'
  BY <1>1 DEF Replace, Requests, DeleteKeys, Dom, Contents
<1>2. CASE DeleteBatch
  BY <1>2 DEF DeleteBatch, Batches, Erased, DeleteKeys, Dom, Contents
<1>3. CASE DeleteBatchFails
  BY <1>3 DEF DeleteBatchFails, GiveUp, Erased, Contents
<1>4. CASE DeletesDone
  BY <1>4 DEF DeletesDone, DeleteKeys, UpsertKeys, Dom, Contents
<1>5. CASE ClearBatch
  BY <1>5 DEF ClearBatch, Erased, Contents
<1>6. CASE ClearFails
  BY <1>6 DEF ClearFails
<1>7. CASE ClearDone
  BY <1>7 DEF ClearDone, Dom, Contents
<1>8. CASE UpsertBatch
  BY <1>8 DEF UpsertBatch, Batches, Stored, Contents
<1>9. CASE UpsertBatchFails
  BY <1>9 DEF UpsertBatchFails, GiveUp, Stored, Contents
<1>10. CASE Installed
  <2>1. kernel = new_state
    BY <1>10 DEF Installed, Contents
  <2> QED
    BY <1>10, <2>1 DEF Installed
<1>11. CASE UNCHANGED vars
  BY <1>11 DEF vars, DeleteKeys, Dom
<1> QED
  BY <1>1, <1>2, <1>3, <1>4, <1>5, <1>6, <1>7, <1>8, <1>9, <1>10, <1>11
     DEF Next

LEMMA InductiveInvariant == Spec => []IInv
  BY InitIInv, NextIInv, PTL DEF Spec

(* The state of BpfShadowHashMap stays well formed. *)
THEOREM TypeCorrect == Spec => []TypeOK
<1>1. IInv => TypeOK
  BY DEF IInv
<1> QED
  BY <1>1, InductiveInvariant, PTL

(* Between two calls of replace() the kernel map is the snapshot unless a  *)
(* resync is pending: a diff is only ever computed against the truth.      *)
THEOREM SnapshotIsAuthoritative == Spec => []SnapshotAuthoritative
<1>1. IInv => SnapshotAuthoritative
  BY DEF IInv, Progress, SnapshotAuthoritative
<1> QED
  BY <1>1, InductiveInvariant, PTL

(* Deleting before inserting is enough: the upsert phase of any replace()  *)
(* of a rule set within the limit finds room for every key it sends.       *)
THEOREM CapacitySuffices == Spec => []CapacityRespected
<1>1. IInv => CapacityRespected
  <2> SUFFICES ASSUME IInv, pc = "upsert"
               PROVE  Cardinality(Dom(kernel) \cup todo) <= MaxEntries
    BY DEF CapacityRespected
  <2>1. Dom(kernel) \cup todo \subseteq Dom(new_state)
    BY DEF IInv, TypeOK, Progress, Dom
  <2>2. IsFiniteSet(Dom(new_state))
    BY ShadowAssumption, FS_Subset DEF Dom
  <2>3. Cardinality(Dom(kernel) \cup todo) <= Cardinality(Dom(new_state))
    BY <2>1, <2>2, FS_Subset
  <2>4. IsFiniteSet(Dom(kernel) \cup todo)
    BY <2>1, <2>2, FS_Subset
  <2>5. Cardinality(Dom(new_state)) <= MaxEntries
    BY DEF IInv, Progress, Requests
  <2> QED
    BY <2>2, <2>3, <2>4, <2>5, FS_CardinalityType, ShadowAssumption
<1> QED
  BY <1>1, InductiveInvariant, PTL

-----------------------------------------------------------------------------
(* Refinement: a call is a stutter of AtomicMap until it returns. *)

LEMMA InitRefines == Init => Atomic!Init
  BY DEF Init, Atomic!Init, Empty

LEMMA NextRefines == IInv /\ IInv' /\ [Next]_vars => [Atomic!Next]_(Atomic!vars)
<1> SUFFICES ASSUME IInv, IInv', [Next]_vars
             PROVE  [Atomic!Next]_(Atomic!vars)
  OBVIOUS
<1> DEFINE now  == IF pc = "idle" THEN kernel ELSE before
           next == IF pc' = "idle" THEN kernel' ELSE before'
<1> USE DEF IInv, TypeOK
<1>1. ASSUME now' = now, new_state' = new_state, pc' = pc, result' = result
      PROVE  UNCHANGED Atomic!vars
  BY <1>1 DEF Atomic!vars
<1>busy. ASSUME next = now, new_state' = new_state, pc # "idle", pc' # "idle"
      PROVE  UNCHANGED Atomic!vars
  BY <1>busy DEF Atomic!vars
<1>2. ASSUME pc # "idle", pc' = "idle", kernel' = new_state, new_state' = new_state,
             result' = "ok"
      PROVE  Atomic!Next
  BY <1>2 DEF Atomic!Next, Atomic!ReturnTrue
<1>3. ASSUME pc # "idle", pc' = "idle", new_state' = new_state, result' = "failed",
             \A k \in Key : kernel'[k] \in {before[k], new_state[k], Absent}
      PROVE  Atomic!Next
  BY <1>3 DEF Atomic!Next, Atomic!ReturnFalse, Atomic!Mix, Atomic!Contents, Contents
<1>4. ASSUME NEW n \in Requests, Replace(n) PROVE Atomic!Next
  BY <1>4 DEF Replace, Requests, Contents, Atomic!Next, Atomic!Call, Atomic!Contents
<1>5. CASE DeleteBatch \/ DeletesDone \/ ClearBatch \/ ClearDone \/ UpsertBatch
  BY <1>busy, <1>5 DEF DeleteBatch, DeletesDone, ClearBatch, ClearDone, UpsertBatch
<1>6. CASE DeleteBatchFails
  <2>1. \A k \in Key : kernel'[k] \in {before[k], new_state[k], Absent}
    BY <1>6 DEF Progress, DeleteBatchFails, Erased, DeleteKeys, Contents
  <2> QED
    BY <1>3, <1>6, <2>1 DEF DeleteBatchFails, GiveUp
<1>7. CASE ClearFails
  <2>1. \A k \in Key : kernel'[k] \in {before[k], new_state[k], Absent}
    BY <1>7 DEF Progress, ClearFails
  <2> QED
    BY <1>3, <1>7, <2>1 DEF ClearFails
<1>8. CASE UpsertBatchFails
  <2>1. \A k \in Key : kernel'[k] \in {before[k], new_state[k], Absent}
    BY <1>8 DEF Progress, UpsertBatchFails, Stored, Contents
  <2> QED
    BY <1>3, <1>8, <2>1 DEF UpsertBatchFails, GiveUp
<1>9. CASE Installed
  <2>1. kernel = new_state
    BY <1>9 DEF Progress, Installed, Contents
  <2> QED
    BY <1>2, <1>9, <2>1 DEF Installed
<1>10. CASE UNCHANGED vars
  BY <1>1, <1>10 DEF vars
<1> QED
  BY <1>1, <1>4, <1>5, <1>6, <1>7, <1>8, <1>9, <1>10 DEF Next

(* For any number of batches and any pattern of failures, replace() is the *)
(* atomic operation its caller takes it for.                               *)
THEOREM Refinement == Spec => ImplementsAtomicMap
  BY InitRefines, NextRefines, InductiveInvariant, PTL
     DEF Spec, ImplementsAtomicMap, Atomic!Spec

-----------------------------------------------------------------------------
(* The conditions under which the view is consistent: see the README. *)
FarApart == Grace /\ ExplicitDefault \in Action

SwitchTypeOK ==
    /\ amap_dst \in 0..1
    /\ default = ExplicitDefault
    /\ map \in [0..1 -> RuleSet]
    /\ mpc \in {"idle", "write", "publish"}
    /\ target \in RuleSet
    /\ ppc \in [CPU -> {"idle", "select", "lookup", "default", "done"}]
    /\ key \in [CPU -> Flow]
    /\ chosen \in [CPU -> 0..1]
    /\ verdict \in [CPU -> Action \cup {"none"}]
    /\ seen \in [CPU -> SUBSET RuleSet]

(* What a packet can still pick was in force during its life. *)
Held(c) ==
    /\ ppc[c] = "select"  => /\ InForce \in seen[c]
                             /\ mpc = "publish" => map[inactive] \in seen[c]
    /\ ppc[c] = "lookup"  => /\ map[chosen[c]] \in seen[c]
                             /\ mpc = "write" => chosen[c] = amap_dst
                             /\ mpc = "publish" => map[0] \in seen[c] /\ map[1] \in seen[c]
    /\ ppc[c] = "default" => \E r \in seen[c] : r[key[c]] = "none"
    /\ ppc[c] = "done"    => \E r \in seen[c] : verdict[c] = VerdictOf(r, key[c])

SwitchInv == SwitchTypeOK /\ \A c \in CPU : Held(c)

LEMMA SwitchInitInv == ASSUME FarApart PROVE SwitchInit => SwitchInv
<1> SUFFICES ASSUME SwitchInit PROVE SwitchInv
  OBVIOUS
<1>1. NoRules \in RuleSet
  BY DEF NoRules, RuleSet
<1>2. SwitchTypeOK
  BY <1>1 DEF SwitchInit, SwitchTypeOK, FarApart, DefaultOf, Action
<1>3. \A c \in CPU : Held(c)
  BY DEF SwitchInit, Held
<1> QED BY <1>2, <1>3 DEF SwitchInv

LEMMA SwitchStepInv == ASSUME FarApart, SwitchInv, [SwitchNext]_switchVars PROVE SwitchInv'
<1> USE DEF SwitchInv, SwitchTypeOK, elementVars, updateVars, packetVars, InForce, inactive
<1>1. ASSUME NEW r \in RuleSet, StartUpdate(r) PROVE SwitchInv'
  <2>1. SwitchTypeOK'
    BY <1>1 DEF StartUpdate
  <2>2. ASSUME NEW c \in CPU PROVE Held(c)'
    BY <1>1 DEF StartUpdate, FarApart, Held, VerdictOf, DefaultOf
  <2> QED BY <2>1, <2>2
<1>2. ASSUME NEW k \in Flow, WriteKey(k) PROVE SwitchInv'
  <2>1. SwitchTypeOK'
    BY <1>2 DEF WriteKey, RuleSet
  <2>2. map'[amap_dst] = map[amap_dst]
    BY <1>2 DEF WriteKey
  <2>3. ASSUME NEW c \in CPU PROVE Held(c)'
    BY <1>2, <2>2 DEF WriteKey, Held, VerdictOf, DefaultOf
  <2> QED BY <2>1, <2>3
<1>3. CASE StartPublish
  <2>1. SwitchTypeOK'
    BY <1>3 DEF StartPublish
  <2>2. ASSUME NEW c \in CPU PROVE Held(c)'
    BY <1>3 DEF StartPublish, Held, VerdictOf, DefaultOf
  <2> QED BY <2>1, <2>2
<1>4. ASSUME NEW F \in SUBSET {"amap_dst", "default"}, CopyFields(F) PROVE SwitchInv'
  <2>1. SwitchTypeOK'
    BY <1>4 DEF CopyFields, FarApart, DefaultOf, Action
  <2>2. ASSUME NEW c \in CPU PROVE Held(c)'
    BY <1>4 DEF CopyFields, Held, VerdictOf, DefaultOf
  <2> QED BY <2>1, <2>2
<1>5. ASSUME NEW c \in CPU, NEW k \in Flow, Receive(c, k) PROVE SwitchInv'
  <2>1. SwitchTypeOK'
    BY <1>5 DEF Receive
  <2>2. ASSUME NEW d \in CPU PROVE Held(d)'
    BY <1>5 DEF Receive, Held, VerdictOf, DefaultOf
  <2> QED BY <2>1, <2>2
<1>6. ASSUME NEW c \in CPU, Select(c) PROVE SwitchInv'
  <2>1. SwitchTypeOK'
    BY <1>6 DEF Select, SELECT_SHADOW_MAP
  <2>2. ASSUME NEW d \in CPU PROVE Held(d)'
    BY <1>6 DEF Select, SELECT_SHADOW_MAP, Held, VerdictOf, DefaultOf
  <2> QED BY <2>1, <2>2
<1>7. ASSUME NEW c \in CPU, LookupRule(c) PROVE SwitchInv'
  <2>1. map[chosen[c]][key[c]] \in Action \cup {"none"}
    BY DEF RuleSet
  <2>2. SwitchTypeOK'
    BY <1>7, <2>1 DEF LookupRule
  <2>3. ASSUME NEW d \in CPU PROVE Held(d)'
    BY <1>7, <2>1 DEF LookupRule, Held, VerdictOf, DefaultOf
  <2> QED BY <2>2, <2>3
<1>8. ASSUME NEW c \in CPU, ReadDefault(c) PROVE SwitchInv'
  <2>1. SwitchTypeOK'
    BY <1>8 DEF ReadDefault, FarApart
  <2>2. ASSUME NEW d \in CPU PROVE Held(d)'
    BY <1>8 DEF ReadDefault, Held, VerdictOf, DefaultOf, FarApart, Action
  <2> QED BY <2>1, <2>2
<1>9. ASSUME NEW c \in CPU, Finish(c) PROVE SwitchInv'
  <2>1. SwitchTypeOK'
    BY <1>9 DEF Finish
  <2>2. ASSUME NEW d \in CPU PROVE Held(d)'
    BY <1>9 DEF Finish, Held, VerdictOf, DefaultOf
  <2> QED BY <2>1, <2>2
<1>10. CASE UNCHANGED switchVars
  BY <1>10 DEF switchVars, Held, VerdictOf, DefaultOf
<1> QED
  BY <1>1, <1>2, <1>3, <1>4, <1>5, <1>6, <1>7, <1>8, <1>9, <1>10 DEF SwitchNext

(* "consistent view during updates" (maps_manager.hh:47): with an explicit *)
(* default action, and requests that come after the packets of the last    *)
(* one are through, every verdict is that of one configuration in force    *)
(* during the life of the packet, however many packets race the manager    *)
(* (xfw_dst_filter against set_dst_rules).                                 *)
THEOREM OneConfigurationPerPacket ==
    ASSUME FarApart PROVE SwitchSpec => []ConsistentView
<1>1. SwitchInit => SwitchInv
  BY SwitchInitInv
<1>2. SwitchInv /\ [SwitchNext]_switchVars => SwitchInv'
  BY SwitchStepInv
<1>3. SwitchInv => ConsistentView
  BY DEF SwitchInv, Held, ConsistentView
<1> QED BY <1>1, <1>2, <1>3, PTL DEF SwitchSpec

-----------------------------------------------------------------------------
(* No two source rules of a protocol hold one network of the user's. *)
OneHolder(src, v6, tcp) ==
    \A a, b \in Of(src, tcp) : a # b => RuleNets(src[a], v6) \cap RuleNets(src[b], v6) = {}

(* In the tries is what the stored rules say. *)
TriesFollow ==
    whole => /\ tries.src = SrcTries(stored.src)
             /\ \A v6, tcp \in BOOLEAN : OneHolder(stored.src, v6, tcp)

(* Whatever set_config did, whole tells whether the tries follow. *)
LEMMA SetConfigFollows ==
    ASSUME NEW c, set_config(c), TriesFollow PROVE TriesFollow'
<1> DEFINE src == Supported(c) /\ SrcAccepted(c.src)
           all == src /\ IcmpAccepted(c.icmp) /\ DstAccepted(c.dst) /\ NetAccepted(c.net)
<1>1. CASE all
  <2>1. stored' = c /\ tries' = [src |-> SrcTries(c.src), net |-> ProtNets(c.net)]
    BY <1>1 DEF set_config
  <2>2. SrcAccepted(c.src)
    BY <1>1
  <2>3. \A v6, tcp \in BOOLEAN : OneHolder(c.src, v6, tcp)
    BY <2>2 DEF SrcAccepted, HeldOnce, OneHolder
  <2>4. tries'.src = SrcTries(c.src)
    BY <2>1
  <2> QED
    BY <2>1, <2>3, <2>4 DEF TriesFollow
<1>2. CASE ~all
  <2>1. stored' = stored /\ (whole' => whole /\ tries' = tries)
    BY <1>2, Zenon DEF set_config
  <2>2. CASE whole'
    <3>1. tries' = tries /\ whole /\ stored' = stored
      BY <2>1, <2>2
    <3> QED
      BY <3>1 DEF TriesFollow
  <2>3. CASE ~whole'
    BY <2>3 DEF TriesFollow
  <2> QED
    BY <2>2, <2>3
<1> QED
  BY <1>1, <1>2

(* The tries of a manager that starts are those of no rules. *)
LEMMA StartFollows == ManagerInit => TriesFollow
<1> SUFFICES ASSUME NEW db \in Database, ManagerStart(db) PROVE TriesFollow
  BY DEF ManagerInit
<1>1. stored = XfwConfig /\ tries = [src |-> SrcTries(NoEntries), net |-> ProtNets(NoEntries)]
  BY DEF ManagerStart
<1>2. stored.src = NoEntries /\ tries.src = SrcTries(NoEntries)
  BY <1>1 DEF XfwConfig
<1>3. \A tcp \in BOOLEAN : Of(NoEntries, tcp) = {}
  BY DEF Of, NoEntries
<1> QED
  BY <1>2, <1>3 DEF TriesFollow, OneHolder

(* Every step of the manager keeps the tries with the rules. *)
LEMMA NextFollows == TriesFollow /\ [ManagerNext]_managerVars => TriesFollow'
<1> SUFFICES ASSUME TriesFollow, [ManagerNext]_managerVars PROVE TriesFollow'
  OBVIOUS
<1>1. ASSUME NEW text \in Texts, NEW patch \in BOOLEAN, UpdateXfwConfig(text, patch) PROVE TriesFollow'
  <2>1. PICK c : c = Updated(stored, Message(text, patch), geodb)
    OBVIOUS
  <2>2. set_config(c)
    BY <1>1, <2>1 DEF UpdateXfwConfig
  <2> QED
    BY <2>2, SetConfigFollows
<1>2. CASE Reload
  <2>1. CASE has_config
    <3>1. PICK c : c = stored
      OBVIOUS
    <3>2. set_config(c)
      BY <1>2, <2>1, <3>1 DEF Reload
    <3> QED
      BY <3>2, SetConfigFollows
  <2>2. CASE ~has_config
    <3>1. UNCHANGED <<stored, tries, whole>>
      BY <1>2, <2>2 DEF Reload
    <3> QED
      BY <3>1 DEF TriesFollow
  <2> QED
    BY <2>1, <2>2
<1>3. CASE ReplaceDatabase
  BY <1>3 DEF ReplaceDatabase, TriesFollow
<1>4. CASE UNCHANGED managerVars
  BY <1>4 DEF managerVars, TriesFollow
<1> QED
  BY <1>1, <1>2, <1>3, <1>4 DEF ManagerNext

(* What the user wrote is found in the trie. *)
LEMMA OwnNetsInTrie ==
    ASSUME NEW src, NEW v6 \in BOOLEAN, NEW tcp \in BOOLEAN, OneHolder(src, v6, tcp),
           NEW alias \in Of(src, tcp), NEW k \in RuleNets(src[alias], v6)
    PROVE  /\ k \in DOMAIN Trie(src, v6, tcp)
           /\ Trie(src, v6, tcp)[k] = SrcRule(src[alias])
<1> DEFINE users == {a \in Of(src, tcp) : k \in RuleNets(src[a], v6)}
           Nets(a) == RuleNets(src[a], v6) \cup CountryNets(src[a], v6)
           dom == UNION {Nets(a) : a \in Of(src, tcp)}
           holder == CHOOSE a \in users : \A b \in users \ {a} : AliasRank[a] < AliasRank[b]
<1>1. users = {alias}
  BY DEF OneHolder
<1>2. holder = alias
  <2>1. \A b \in users \ {alias} : AliasRank[alias] < AliasRank[b]
    BY <1>1
  <2>2. holder \in users
    <3> HIDE DEF users
    <3> QED
      BY <1>1, <2>1
  <2> QED
    BY <1>1, <2>2
<1>3. k \in dom
  OBVIOUS
<1>4. DOMAIN Trie(src, v6, tcp) = dom
  BY DEF Trie
<1>5. Trie(src, v6, tcp)[k] = SrcRule(src[holder])
  <2>1. users # {}
    BY <1>1
  <2> QED
    BY <1>3, <2>1, Zenon DEF Trie
<1> QED
  BY <1>2, <1>3, <1>4, <1>5

(* The longest match is the only answer of a lookup. *)
LEMMA LongestWins ==
    ASSUME NEW trie, NEW addr, NEW width \in Nat, NEW k \in DOMAIN trie, Matches(k, addr, width),
           \A j \in DOMAIN trie \ {k} : Matches(j, addr, width) => j.u < k.u
    PROVE  Lookup(trie, addr, width) = {trie[k]}
<1> DEFINE hits == {j \in DOMAIN trie : Matches(j, addr, width)}
           longest == {j \in hits : \A i \in hits : i.u <= j.u}
<1>1. \A j \in hits : j.u \in Nat
  BY DEF Matches
<1>2. k \in hits
  OBVIOUS
<1>3. \A j \in hits : j # k => j.u < k.u
  OBVIOUS
<1>4. longest = {k}
  <2> HIDE DEF hits
  <2>1. \A i \in hits : i.u <= k.u
    BY <1>1, <1>2, <1>3
  <2>2. \A j \in hits : j # k => ~(k.u <= j.u)
    BY <1>1, <1>2, <1>3
  <2> QED
    BY <1>2, <2>1, <2>2, Zenon
<1> HIDE DEF longest
<1>5. Lookup(trie, addr, width) = {trie[j] : j \in longest}
  BY DEF Lookup, longest
<1> QED
  BY <1>4, <1>5

(* Where the user's network is the longest, its rule answers. *)
LEMMA UserWins == TriesFollow => UserOverridesGeo
<1> DEFINE Nets(v6, tcp) == UNION {RuleNets(stored.src[a], v6) \cup CountryNets(stored.src[a], v6)
                                     : a \in Of(stored.src, tcp)}
           Width(v6) == IF v6 THEN W6 ELSE W4
<1> SUFFICES ASSUME TriesFollow, whole, NEW v6 \in BOOLEAN, NEW tcp \in BOOLEAN,
                    NEW alias \in Of(stored.src, tcp), NEW k \in RuleNets(stored.src[alias], v6),
                    NEW addr \in Covered({k}, Width(v6)),
                    \A j \in Nets(v6, tcp) \ {k} : Matches(j, addr, Width(v6)) => j.u < k.u
             PROVE  Lookup(tries.src[v6][tcp], addr, Width(v6)) = {SrcRule(stored.src[alias])}
  BY Zenon DEF UserOverridesGeo
<1> DEFINE width == Width(v6)
<1>0. Matches(k, addr, width)
  BY DEF Covered
<1>1. tries.src[v6][tcp] = Trie(stored.src, v6, tcp) /\ OneHolder(stored.src, v6, tcp)
  <2>1. tries.src = SrcTries(stored.src) /\ OneHolder(stored.src, v6, tcp)
    BY DEF TriesFollow
  <2> QED
    BY <2>1 DEF SrcTries
<1>2. PICK src : src = stored.src
  OBVIOUS
<1>3. PICK trie : trie = Trie(src, v6, tcp)
  OBVIOUS
<1>4. DOMAIN trie = Nets(v6, tcp)
  BY <1>2, <1>3 DEF Trie
<1>5. k \in DOMAIN trie /\ trie[k] = SrcRule(src[alias])
  BY <1>1, <1>2, <1>3, OwnNetsInTrie
<1>6. width \in Nat
  BY GeoIpAssumption
<1>7. Lookup(trie, addr, width) = {trie[k]}
  <2>1. \A j \in Nets(v6, tcp) \ {k} : Matches(j, addr, width) => j.u < k.u
    BY Zenon
  <2> HIDE DEF Nets, width
  <2> QED
    BY <1>0, <1>4, <1>5, <1>6, <2>1, LongestWins
<1> QED
  BY <1>1, <1>2, <1>3, <1>5, <1>7

-----------------------------------------------------------------------------
(* The GeoIP import: the addresses of a prefix *)
Size(len, w) == Pow2[w - len]
Fits(len, x, w) ==
    /\ len \in 0..w /\ x \in Nat /\ \E m \in Nat : x = m * Size(len, w)
    /\ x + Size(len, w) <= Pow2[w]
In(p, a, w) == p.addr <= a /\ a < p.addr + Size(p.len, w)

(* A prefix one bit shorter is twice as large. *)
LEMMA SizeFacts ==
    ASSUME NEW w \in Nat, NEW len \in 0..w
    PROVE  /\ Size(len, w) \in Nat \ {0} /\ \E k \in Nat : Pow2[w] = k * Size(len, w)
           /\ len > 0 => len - 1 \in 0..w /\ Size(len - 1, w) = 2 * Size(len, w)
<1>1. w - len \in Nat /\ w - len <= w
  OBVIOUS
<1>2. Size(len, w) \in Nat \ {0}
  BY <1>1, Pow2Facts DEF Size
<1>3. \E k \in Nat : Pow2[w] = k * Size(len, w)
  BY <1>1, Pow2Multiple DEF Size
<1>4. ASSUME len > 0 PROVE len - 1 \in 0..w /\ Size(len - 1, w) = 2 * Size(len, w)
  <2>1. w - (len - 1) = (w - len) + 1 /\ len - 1 \in 0..w
    BY <1>4
  <2>2. Pow2[(w - len) + 1] = 2 * Pow2[w - len]
    BY <1>1, Pow2Facts
  <2> QED
    BY <2>1, <2>2 DEF Size
<1> QED
  BY <1>2, <1>3, <1>4

(* A prefix and its sibling are the halves of their parent. *)
LEMMA Siblings ==
    ASSUME NEW w \in Nat, NEW len \in 0..w, len > 0, NEW x, Fits(len, x, w)
    PROVE  \E q \in Nat, p \in Nat \ {0} :
              /\ p = Size(len, w) /\ Size(len - 1, w) = 2 * p
              /\ q = canonicalize_prefix(x, w, len - 1) /\ Fits(len - 1, q, w)
              /\ Fits(len, Sibling(x, w, len), w)
              /\ \/ x = q /\ Sibling(x, w, len) = q + p
                 \/ x = q + p /\ Sibling(x, w, len) = q
              /\ Sibling(Sibling(x, w, len), w, len) = x
<1>1. PICK p \in Nat \ {0} : p = Size(len, w) /\ p = Pow2[w - len]
  BY SizeFacts DEF Size
<1>2. Size(len - 1, w) = 2 * p /\ len - 1 \in 0..w
  BY <1>1, SizeFacts
<1>3. PICK k \in Nat : Pow2[w] = k * (2 * p)
  BY <1>2, SizeFacts
<1>4. PICK t \in Nat : t = Pow2[w]
  BY Pow2Facts
<1>5. x \in Nat /\ x + p <= t /\ \E m \in Nat : x = m * p
  BY <1>1, <1>4 DEF Fits
<1>6. PICK m \in Nat : x = m * p
  BY <1>5
<1>7. PICK q \in Nat :
              /\ (\E j \in Nat : q = j * (2 * p)) /\ q + 2 * p <= t
              /\ x - (x % (2 * p)) = q
              /\ \/ x = q /\ (x \div p) % 2 = 0
                 \/ x = q + p /\ (x \div p) % 2 # 0
  <2>1. t = k * (2 * p) /\ p \in Nat \ {0} /\ m \in Nat /\ x \in Nat /\ x = m * p /\ t \in Nat
        /\ k \in Nat /\ x + p <= t
    BY <1>3, <1>4, <1>5, <1>6
  <2>2. Paired(p, x, t)
    BY ONLY <2>1, Halves, Zenon
  <2> QED
    BY <2>2, Zenon DEF Paired
<1>8. PICK j \in Nat : q = j * (2 * p)
  BY <1>7
<1>9. q = canonicalize_prefix(x, w, len - 1)
  BY <1>2, <1>7 DEF canonicalize_prefix, Size
<1>10. Fits(len - 1, q, w)
  BY <1>2, <1>4, <1>7 DEF Fits
<1>11. \A y : Sibling(y, w, len) = IF (y \div p) % 2 = 0 THEN y + p ELSE y - p
  BY <1>1 DEF Sibling
<1>12. (q \div p) % 2 = 0 /\ ((q + p) \div p) % 2 # 0
  BY <1>8, HalfFacts
<1>13. Sibling(q, w, len) = q + p /\ Sibling(q + p, w, len) = q
  <2>1. (q + p) - p = q
    OBVIOUS
  <2>2. Sibling(q, w, len) = IF (q \div p) % 2 = 0 THEN q + p ELSE q - p
    BY <1>11
  <2>3. Sibling(q + p, w, len) = IF ((q + p) \div p) % 2 = 0 THEN (q + p) + p ELSE (q + p) - p
    BY <1>11
  <2>4. Sibling(q, w, len) = q + p
    BY ONLY <1>12, <2>2
  <2>5. Sibling(q + p, w, len) = (q + p) - p
    BY ONLY <1>12, <2>3
  <2> QED
    BY ONLY <2>1, <2>4, <2>5
<1>14. /\ \/ x = q /\ Sibling(x, w, len) = q + p
          \/ x = q + p /\ Sibling(x, w, len) = q
       /\ Sibling(Sibling(x, w, len), w, len) = x
  BY <1>7, <1>13
<1>15. Fits(len, q, w) /\ Fits(len, q + p, w)
  <2>1. q = (2 * j) * p /\ q + p = (2 * j + 1) * p /\ 2 * j \in Nat /\ 2 * j + 1 \in Nat
    BY <1>8
  <2>2. (\E i \in Nat : q = i * p) /\ (\E i \in Nat : q + p = i * p)
    BY <2>1
  <2>3. q + p <= t /\ (q + p) + p <= t /\ q + p \in Nat
    BY <1>7
  <2> QED
    BY <1>1, <1>4, <2>2, <2>3 DEF Fits
<1> QED
  BY <1>1, <1>2, <1>9, <1>10, <1>14, <1>15

(* A prefix that fits matches its addresses. *)
LEMMA MatchIsIn ==
    ASSUME NEW w \in Nat, NEW len \in 0..w, NEW x, Fits(len, x, w), NEW a \in Nat
    PROVE  /\ (a \div Pow2[w - len] = x \div Pow2[w - len]) <=> (x <= a /\ a < x + Size(len, w))
           /\ canonicalize_prefix(x, w, len) = x
<1>1. PICK p \in Nat \ {0} : p = Size(len, w) /\ p = Pow2[w - len]
  BY SizeFacts DEF Size
<1>2. PICK m \in Nat : x = m * p
  BY <1>1 DEF Fits
<1>3. x \in Nat
  BY DEF Fits
<1>4. x \div p = m
  <2>1. m * p <= x /\ x <= m * p + p - 1
    BY <1>2, <1>3
  <2> QED
    BY <1>3, <2>1, DivUnique
<1>5. x % p = 0
  <2>1. x = m * p + 0 /\ 0 < p /\ x \in Int /\ p \in Nat \ {0} /\ m \in Int /\ 0 \in Nat
    BY <1>2, <1>3
  <2> QED
    BY ONLY <2>1, ModShift
<1>6. canonicalize_prefix(x, w, len) = x
  BY <1>1, <1>3, <1>5 DEF canonicalize_prefix
<1>7. ASSUME x <= a, a < x + p PROVE a \div p = m
  <2>1. m * p <= a /\ a <= m * p + p - 1
    BY <1>2, <1>3, <1>7
  <2> QED
    BY <2>1, DivUnique
<1>8. ASSUME a \div p = m PROVE x <= a /\ a < x + p
  <2>1. p * m <= a /\ a < p * m + p
    BY <1>8, DivFacts
  <2> QED
    BY <1>2, <2>1
<1> QED
  BY <1>1, <1>4, <1>6, <1>7, <1>8

(* Sets of prefixes: each of them fits, no two share an address, none has  *)
(* its sibling beside it.                                                  *)
NetPrefixes(C)    == [len : Nat, addr : Nat, country : C]
AllFit(B, w)      == \A p \in B : Fits(p.len, p.addr, w)
NoOverlaps(B, w)  == \A p, q \in B : \A a \in Nat : In(p, a, w) /\ In(q, a, w) => p = q
SiblingOf(p, w)   == [len |-> p.len, addr |-> Sibling(p.addr, w, p.len), country |-> p.country]
NoSiblings(B, w)  == \A p \in B : p.len > 0 => SiblingOf(p, w) \notin B
Merged(B, w, C)   == B \subseteq NetPrefixes(C) /\ AllFit(B, w) /\ NoOverlaps(B, w) /\ NoSiblings(B, w)
Cov(B, w, a, d)   == \E p \in B : p.country = d /\ In(p, a, w)
Apart(B, p, w)    == \A q \in B : \A a \in Nat : ~(In(q, a, w) /\ In(p, a, w))

(* Taking prefixes out leaves the others merged. *)
LEMMA MergedSubset ==
    ASSUME NEW B, NEW w, NEW C, Merged(B, w, C), NEW D \in SUBSET B
    PROVE  Merged(D, w, C)
  BY DEF Merged, AllFit, NoOverlaps, NoSiblings

(* The prefix that merge_prefix is about to add, with what is still in the *)
(* buckets: it covers what the buckets and the leaf covered.               *)
Joining(c, B, w, C, country, leaf) ==
    /\ Merged(c.buckets, w, C) /\ c.buckets \subseteq B
    /\ Fits(c.len, c.addr, w) /\ Apart(c.buckets, c, w)
    /\ \A a \in Nat, d \in C : (Cov(c.buckets, w, a, d) \/ (d = country /\ In(c, a, w))) <=>
                               (Cov(B, w, a, d) \/ (d = country /\ In(leaf, a, w)))
Joined(c, w, country) ==
    \/ c.len = 0
    \/ [len |-> c.len, addr |-> Sibling(c.addr, w, c.len), country |-> country] \notin c.buckets

(* The loop state of merge_prefix *)
Cursor(B) == [buckets : SUBSET B, len : Nat, addr : Nat]

(* A round of merge_prefix joins, or finds nothing to join. *)
LEMMA JoinStep ==
    ASSUME NEW w \in Nat, NEW B, NEW C, NEW country \in C, NEW leaf, NEW c \in Cursor(B),
           Joining(c, B, w, C, country, leaf)
    PROVE  /\ Join(c, w, country) \in Cursor(B)
           /\ Joining(Join(c, w, country), B, w, C, country, leaf)
           /\ \/ Joined(c, w, country) /\ Join(c, w, country) = c
              \/ c.len > 0 /\ Join(c, w, country).len = c.len - 1
<1> DEFINE s == [len |-> c.len, addr |-> Sibling(c.addr, w, c.len), country |-> country]
           x == canonicalize_prefix(c.addr, w, c.len - 1)
           e == [buckets |-> c.buckets \ {s}, len |-> c.len - 1, addr |-> x]
<1>1. CASE Joined(c, w, country)
  <2>1. Join(c, w, country) = c
    BY <1>1 DEF Joined, Join, Cursor
  <2> QED
    BY <1>1, <2>1
<1>2. CASE ~Joined(c, w, country)
  <2>1. c.len > 0 /\ s \in c.buckets /\ c.len \in Nat /\ c.addr \in Nat
    BY <1>2 DEF Joined, Cursor
  <2>2. Join(c, w, country) = e
    BY <2>1 DEF Join
  <2>3. Fits(c.len, c.addr, w) /\ c.len \in 0..w
    BY DEF Joining, Fits
  <2>4. PICK q \in Nat, p \in Nat \ {0} :
              /\ p = Size(c.len, w) /\ Size(c.len - 1, w) = 2 * p
              /\ q = x /\ Fits(c.len - 1, q, w)
              /\ \/ c.addr = q /\ Sibling(c.addr, w, c.len) = q + p
                 \/ c.addr = q + p /\ Sibling(c.addr, w, c.len) = q
    <3>1. PICK l, y : l = c.len /\ y = c.addr
      OBVIOUS
    <3>2. w \in Nat /\ l \in 0..w /\ l > 0 /\ Fits(l, y, w)
      BY <2>1, <2>3, <3>1
    <3>3. \E q \in Nat, p \in Nat \ {0} :
              /\ p = Size(l, w) /\ Size(l - 1, w) = 2 * p
              /\ q = canonicalize_prefix(y, w, l - 1) /\ Fits(l - 1, q, w)
              /\ \/ y = q /\ Sibling(y, w, l) = q + p
                 \/ y = q + p /\ Sibling(y, w, l) = q
      BY ONLY <3>2, Siblings
    <3> QED
      BY <3>1, <3>3
  <2>5. \A a \in Nat : In(e, a, w) <=> In(c, a, w) \/ In(s, a, w)
    <3>1. ASSUME NEW a \in Nat PROVE In(e, a, w) <=> (q <= a /\ a < q + 2 * p)
      BY <2>4 DEF In
    <3>2. ASSUME NEW a \in Nat PROVE In(c, a, w) <=> (c.addr <= a /\ a < c.addr + p)
      BY <2>4 DEF In
    <3>3. ASSUME NEW a \in Nat
          PROVE  In(s, a, w) <=> (Sibling(c.addr, w, c.len) <= a /\ a < Sibling(c.addr, w, c.len) + p)
      BY <2>4 DEF In
    <3> HIDE DEF e, s
    <3> QED
      BY <2>4, <3>1, <3>2, <3>3
  <2>6. e \in Cursor(B)
    BY <2>1, <2>4 DEF Cursor
  <2>7. Merged(c.buckets \ {s}, w, C)
    BY MergedSubset DEF Joining
  <2>8. Apart(e.buckets, e, w)
    <3> SUFFICES ASSUME NEW r \in c.buckets \ {s}, NEW a \in Nat, In(r, a, w), In(e, a, w) PROVE FALSE
      BY DEF Apart
    <3>1. ~In(c, a, w)
      BY DEF Joining, Apart
    <3>2. In(s, a, w)
      BY <2>5, <3>1
    <3>3. r = s
      BY <2>1, <3>2 DEF Joining, Merged, NoOverlaps
    <3> QED
      BY <3>3
  <2>9. ASSUME NEW a \in Nat, NEW d \in C
        PROVE  (Cov(e.buckets, w, a, d) \/ (d = country /\ In(e, a, w))) <=>
               (Cov(c.buckets, w, a, d) \/ (d = country /\ In(c, a, w)))
    <3>1. Cov(c.buckets, w, a, d) <=> Cov(e.buckets, w, a, d) \/ (d = country /\ In(s, a, w))
      <4>1. e.buckets = c.buckets \ {s} /\ s.country = country
        OBVIOUS
      <4> HIDE DEF s, e
      <4> QED
        BY <2>1, <4>1 DEF Cov
    <3>2. In(e, a, w) <=> In(c, a, w) \/ In(s, a, w)
      BY <2>5
    <3> HIDE DEF s, e
    <3> QED
      BY <3>1, <3>2
  <2>10. Joining(e, B, w, C, country, leaf)
    <3>1. e.buckets = c.buckets \ {s} /\ e.len = c.len - 1 /\ e.addr = x
      OBVIOUS
    <3>2. Fits(e.len, e.addr, w)
      BY <2>4
    <3>3. \A a \in Nat, d \in C : (Cov(e.buckets, w, a, d) \/ (d = country /\ In(e, a, w))) <=>
                               (Cov(B, w, a, d) \/ (d = country /\ In(leaf, a, w)))
      <4> HIDE DEF e, s, x
      <4> QED
        BY <2>9 DEF Joining
    <3>4. c.buckets \subseteq B
      BY DEF Joining
    <3> HIDE DEF e, s, x
    <3> QED
      BY <2>7, <2>8, <3>1, <3>2, <3>3, <3>4 DEF Joining
  <2> QED
    BY <2>1, <2>2, <2>6, <2>10
<1> QED
  BY <1>1, <1>2

(* The rounds of merge_prefix *)
LEMMA JoinsRuns ==
    ASSUME NEW w \in Nat, NEW B, NEW C, NEW country \in C, NEW leaf, NEW x \in Nat, NEW len \in 0..w,
           Merged(B, w, C), Fits(len, x, w), leaf.addr = x, leaf.len = len, Apart(B, leaf, w)
    PROVE  LET c == Joins(B, w, country, x, len)[len]
           IN  c \in Cursor(B) /\ Joining(c, B, w, C, country, leaf) /\ Joined(c, w, country)
<1> DEFINE S == {c \in Cursor(B) : Joining(c, B, w, C, country, leaf)}
           z == [buckets |-> B, len |-> len, addr |-> canonicalize_prefix(x, w, len)]
           G(g) == [i \in 0..len |-> IF i = 0 THEN z ELSE Join(g[i - 1], w, country)]
           F == [i \in 1..len |-> [c \in S |-> Join(c, w, country)]]
           loop == Joins(B, w, country, x, len)
<1>0. len \in Nat
  OBVIOUS
<1>1. z \in S
  <2>1. canonicalize_prefix(x, w, len) = x
    BY MatchIsIn
  <2>2. z.buckets = B /\ z.len = len /\ z.addr = x /\ z \in Cursor(B)
    BY <2>1 DEF Cursor
  <2>3. \A a \in Nat : In(z, a, w) <=> In(leaf, a, w)
    BY <2>2 DEF In
  <2> HIDE DEF z
  <2>4. Apart(B, z, w)
    BY <2>3 DEF Apart
  <2> QED
    BY <2>2, <2>3, <2>4 DEF Joining
<1>2. ASSUME NEW c \in S
      PROVE  /\ Join(c, w, country) \in S
             /\ \/ Joined(c, w, country) /\ Join(c, w, country) = c
                \/ c.len > 0 /\ Join(c, w, country).len = c.len - 1
  BY JoinStep
<1>3. \E g : g = G(g)
  <2>1. F \in [1..len -> [S -> S]]
    <3> HIDE DEF S
    <3> QED
      BY <1>2
  <2>2. PICK g : Looped(S, z, len, F, g)
    <3> HIDE DEF S, z, F
    <3> QED
      BY <1>0, <1>1, <2>1, LoopExists, Zenon
  <2>3. g \in [0..len -> S] /\ g[0] = z /\ \A i \in 1..len : g[i] = F[i][g[i - 1]]
    BY <2>2, Zenon DEF Looped
  <2> HIDE DEF S, z
  <2>4. ASSUME NEW i \in 1..len PROVE g[i] = Join(g[i - 1], w, country)
    <3>1. i - 1 \in 0..len
      OBVIOUS
    <3> QED
      BY <2>3, <3>1
  <2> HIDE DEF F
  <2>5. g = [i \in 0..len |-> g[i]]
    BY <2>3
  <2>6. \A i \in 0..len : g[i] = IF i = 0 THEN z ELSE Join(g[i - 1], w, country)
    BY <2>3, <2>4
  <2>7. g = G(g)
    BY <2>5, <2>6
  <2> HIDE DEF G
  <2> QED
    BY <2>7
<1>4. loop = G(loop)
  <2>1. loop = CHOOSE g : g = G(g)
    BY DEF Joins
  <2> HIDE DEF G, loop
  <2> QED
    BY <1>3, <2>1
<1> HIDE DEF loop, S, z
<1>5. loop[0] = z /\ \A i \in 1..len : loop[i] = Join(loop[i - 1], w, country)
  <2>1. \A i \in 0..len : loop[i] = G(loop)[i]
    BY <1>4
  <2>2. \A i \in 0..len : loop[i] = IF i = 0 THEN z ELSE Join(loop[i - 1], w, country)
    <3> HIDE DEF loop
    <3> QED
      BY <2>1
  <2> QED
    BY <2>2
<1> DEFINE P == {i \in 0..len : loop[i] \in S /\ (loop[i].len = len - i \/ Joined(loop[i], w, country))}
<1>6. \A i \in 0..len : i \in P
  <2>1. 0 \in P
    BY <1>1, <1>5 DEF z
  <2>2. ASSUME NEW i \in 1..len, i - 1 \in P PROVE i \in P
    <3>1. PICK c \in S : c = loop[i - 1] /\ (c.len = len - (i - 1) \/ Joined(c, w, country))
      BY <2>2
    <3>2. loop[i] = Join(c, w, country)
      BY <1>5, <3>1
    <3>3. /\ Join(c, w, country) \in S
          /\ \/ Joined(c, w, country) /\ Join(c, w, country) = c
             \/ c.len > 0 /\ Join(c, w, country).len = c.len - 1
      BY <1>2
    <3>4. CASE Joined(c, w, country) /\ Join(c, w, country) = c
      BY <3>2, <3>3, <3>4
    <3>5. CASE c.len > 0 /\ Join(c, w, country).len = c.len - 1 /\ c.len = len - (i - 1)
      <4>1. (len - (i - 1)) - 1 = len - i
        OBVIOUS
      <4> QED
        BY <3>2, <3>3, <3>5, <4>1
    <3>6. ASSUME Joined(c, w, country) PROVE Join(c, w, country) = c
      BY <3>6 DEF Joined, Join
    <3> QED
      BY <3>1, <3>3, <3>4, <3>5, <3>6
  <2> HIDE DEF P
  <2> QED
    BY <1>0, <2>1, <2>2, UpTo
<1>7. len \in P /\ len - len = 0
  BY <1>6
<1>8. loop[len] \in S /\ Joined(loop[len], w, country)
  BY <1>7 DEF Joined
<1> QED
  BY <1>8 DEF S, loop

(* merge_prefix adds the addresses of the leaf and no others. *)
LEMMA MergeAdds ==
    ASSUME NEW w \in Nat, NEW B, NEW C, NEW country \in C, NEW leaf, NEW x \in Nat, NEW len \in 0..w,
           Merged(B, w, C), Fits(len, x, w), leaf.addr = x, leaf.len = len, Apart(B, leaf, w)
    PROVE  LET M == merge_prefix(B, w, country, x, len)
           IN  /\ Merged(M, w, C)
               /\ \A a \in Nat, d \in C :
                     Cov(M, w, a, d) <=> (Cov(B, w, a, d) \/ (d = country /\ In(leaf, a, w)))
<1> DEFINE c == Joins(B, w, country, x, len)[len]
           e == [len |-> c.len, addr |-> c.addr, country |-> country]
           M == merge_prefix(B, w, country, x, len)
<1>1. c \in Cursor(B) /\ Joining(c, B, w, C, country, leaf) /\ Joined(c, w, country)
  BY JoinsRuns
<1>2. M = c.buckets \cup {e}
  BY DEF merge_prefix
<1> HIDE DEF c, M
<1>3. \A a \in Nat : In(e, a, w) <=> In(c, a, w)
  BY DEF In
<1>4. e \in NetPrefixes(C) /\ Fits(e.len, e.addr, w) /\ e.country = country
  BY <1>1 DEF Cursor, NetPrefixes, Joining
<1>5. e.len > 0 => SiblingOf(e, w) \notin c.buckets
  BY <1>1 DEF Joined, SiblingOf
<1>6. ASSUME e.len > 0 PROVE SiblingOf(e, w) # e
  <2>1. e.len \in 0..w /\ SiblingOf(e, w).addr = Sibling(e.addr, w, e.len)
    BY <1>4 DEF Fits, SiblingOf
  <2> HIDE DEF e
  <2>a. PICK l, y : l = e.len /\ y = e.addr
    OBVIOUS
  <2>b. w \in Nat /\ l \in 0..w /\ l > 0 /\ Fits(l, y, w)
    BY <1>4, <1>6, <2>1, <2>a
  <2>2. PICK q \in Nat, p \in Nat \ {0} :
              \/ y = q /\ Sibling(y, w, l) = q + p
              \/ y = q + p /\ Sibling(y, w, l) = q
    BY ONLY <2>b, Siblings
  <2>3. q # q + p
    OBVIOUS
  <2> QED
    BY <2>1, <2>2, <2>3, <2>a
<1>7. ASSUME NEW r \in c.buckets, r.len > 0, SiblingOf(r, w) = e PROVE FALSE
  <2>1. r \in NetPrefixes(C) /\ Fits(r.len, r.addr, w) /\ r.len \in 0..w
    BY <1>1 DEF Joining, Merged, AllFit, Fits
  <2>2. Sibling(Sibling(r.addr, w, r.len), w, r.len) = r.addr
    BY <1>7, <2>1, Siblings
  <2>3. e.len = r.len /\ e.addr = Sibling(r.addr, w, r.len) /\ e.country = r.country
    <3>1. \A u, v : SiblingOf(u, w) = v => v.len = u.len /\ v.addr = Sibling(u.addr, w, u.len)
                                           /\ v.country = u.country
      BY DEF SiblingOf
    <3> HIDE DEF e
    <3> QED
      BY <1>7, <3>1
  <2> HIDE DEF e
  <2>4. SiblingOf(e, w) = [len |-> r.len, addr |-> r.addr, country |-> r.country]
    BY <2>2, <2>3 DEF SiblingOf
  <2>5. r = [len |-> r.len, addr |-> r.addr, country |-> r.country]
    BY <2>1 DEF NetPrefixes
  <2>6. e.len > 0
    BY <1>7, <2>3
  <2> QED
    BY <1>5, <2>4, <2>5, <2>6
<1> HIDE DEF e
<1>8. NoSiblings(M, w)
  BY <1>1, <1>2, <1>5, <1>6, <1>7 DEF NoSiblings, Joining, Merged
<1>9. NoOverlaps(M, w)
  BY <1>1, <1>2, <1>3 DEF NoOverlaps, Joining, Merged, Apart
<1>10. M \subseteq NetPrefixes(C) /\ AllFit(M, w)
  BY <1>1, <1>2, <1>4 DEF Joining, Merged, AllFit
<1>11. ASSUME NEW a \in Nat, NEW d \in C
       PROVE  Cov(M, w, a, d) <=> (Cov(B, w, a, d) \/ (d = country /\ In(leaf, a, w)))
  <2>1. Cov(M, w, a, d) <=> Cov(c.buckets, w, a, d) \/ (d = country /\ In(c, a, w))
    BY <1>2, <1>3, <1>4 DEF Cov
  <2>2. (Cov(c.buckets, w, a, d) \/ (d = country /\ In(c, a, w))) <=>
                               (Cov(B, w, a, d) \/ (d = country /\ In(leaf, a, w)))
    BY <1>1 DEF Joining
  <2> QED
    BY <2>1, <2>2
<1> QED
  BY <1>8, <1>9, <1>10, <1>11 DEF Merged, M

(* add_country_prefix adds them to the country the leaf names, if any. *)
LEMMA AddLeaf ==
    ASSUME NEW w \in Nat, NEW B, NEW C, NEW leaf, Merged(B, w, C), Fits(leaf.len, leaf.addr, w),
           Apart(B, leaf, w), Optional(read_country(leaf.entry)), read_country(leaf.entry) \subseteq C
    PROVE  LET M == add_country_prefix(B, w, leaf)
           IN  /\ Merged(M, w, C)
               /\ \A a \in Nat, d \in C :
                     Cov(M, w, a, d) <=> \/ Cov(B, w, a, d)
                                         \/ read_country(leaf.entry) = {d} /\ In(leaf, a, w)
<1> DEFINE M == add_country_prefix(B, w, leaf)
<1>1. PICK found : found = read_country(leaf.entry)
  OBVIOUS
<1>2. CASE found = {}
  <2>1. M = B
    BY <1>1, <1>2 DEF add_country_prefix
  <2> QED
    BY <1>1, <1>2, <2>1
<1>3. CASE found # {}
  <2>1. PICK country \in C : found = {country}
    BY <1>1, <1>3 DEF Optional
  <2>2. country = CHOOSE c \in found : TRUE
    BY <2>1
  <2>3. M = merge_prefix(B, w, country, leaf.addr, leaf.len)
    BY <1>1, <1>3, <2>2 DEF add_country_prefix
  <2>4. leaf.len \in 0..w /\ leaf.addr \in Nat
    BY DEF Fits
  <2>5. /\ Merged(M, w, C)
        /\ \A a \in Nat, d \in C :
              Cov(M, w, a, d) <=> (Cov(B, w, a, d) \/ (d = country /\ In(leaf, a, w)))
    <3> HIDE DEF M
    <3>1. PICK x \in Nat, len \in 0..w : x = leaf.addr /\ len = leaf.len
      BY <2>4
    <3>2. M = merge_prefix(B, w, country, x, len) /\ Fits(len, x, w)
      BY <2>3, <3>1
    <3> QED
      BY <3>1, <3>2, MergeAdds
  <2>6. \A d \in C : found = {d} <=> d = country
    BY <2>1
  <2> HIDE DEF M
  <2>7. \A a \in Nat, d \in C :
           Cov(M, w, a, d) <=> (Cov(B, w, a, d) \/ (read_country(leaf.entry) = {d} /\ In(leaf, a, w)))
    BY <1>1, <2>5, <2>6
  <2> QED
    BY <2>5, <2>7 DEF M
<1> QED
  BY <1>2, <1>3

(* Leaves in the order of their addresses, the country of one, what the    *)
(* first n of them say of an address, and buckets that say the same        *)
InOrder(L, w) == \A i, j \in 1..Len(L) : i < j => L[i].addr + Size(L[i].len, w) <= L[j].addr
CountryOf(L, i) == read_country(L[i].entry)
Says(L, w, a, d, n) == \E j \in 1..n : CountryOf(L, j) = {d} /\ In(L[j], a, w)
Filled(B, L, w, C, n) ==
    Merged(B, w, C) /\ \A a \in Nat, d \in C : Cov(B, w, a, d) <=> Says(L, w, a, d, n)

(* The next leaf in order is apart from what the buckets cover. *)
LEMMA FillStep ==
    ASSUME NEW w \in Nat, NEW L, NEW n \in Nat, n = Len(L), InOrder(L, w), NEW C, NEW i \in 1..n, NEW B,
           \A j \in 1..n : /\ Fits(L[j].len, L[j].addr, w)
                           /\ Optional(CountryOf(L, j)) /\ CountryOf(L, j) \subseteq C,
           Filled(B, L, w, C, i - 1)
    PROVE  Filled(add_country_prefix(B, w, L[i]), L, w, C, i)
<1> DEFINE M == add_country_prefix(B, w, L[i])
<1>1. PICK leaf : leaf = L[i]
  OBVIOUS
<1>2. /\ Fits(leaf.len, leaf.addr, w) /\ Optional(read_country(leaf.entry))
      /\ read_country(leaf.entry) \subseteq C
  BY <1>1 DEF CountryOf
<1>3. Apart(B, leaf, w)
  <2> SUFFICES ASSUME NEW q \in B, NEW a \in Nat, In(q, a, w), In(leaf, a, w) PROVE FALSE
    BY DEF Apart
  <2>1. q.country \in C /\ Cov(B, w, a, q.country)
    BY DEF Filled, Merged, NetPrefixes, Cov
  <2>2. PICK j \in 1..(i - 1) : In(L[j], a, w)
    BY <2>1 DEF Filled, Says
  <2>3. j \in 1..n /\ j < i
    OBVIOUS
  <2>4. L[j].addr + Size(L[j].len, w) <= leaf.addr
    BY <1>1, <2>3 DEF InOrder
  <2>5. L[j].len \in 0..w /\ L[j].addr \in Nat /\ leaf.addr \in Nat
    BY <1>2, <2>3 DEF Fits
  <2>6. Size(L[j].len, w) \in Nat
    BY <2>5, SizeFacts
  <2>7. a < L[j].addr + Size(L[j].len, w) /\ leaf.addr <= a
    BY <2>2 DEF In
  <2> QED
    BY <2>4, <2>5, <2>6, <2>7
<1>4. /\ Merged(M, w, C)
      /\ \A a \in Nat, d \in C :
            Cov(M, w, a, d) <=> (Cov(B, w, a, d) \/ (read_country(leaf.entry) = {d} /\ In(leaf, a, w)))
  BY <1>1, <1>2, <1>3, AddLeaf DEF Filled
<1>5. 1..i = 1..(i - 1) \cup {i}
  OBVIOUS
<1>6. ASSUME NEW a \in Nat, NEW d \in C
      PROVE  Says(L, w, a, d, i) <=> \/ Says(L, w, a, d, i - 1)
                                     \/ read_country(leaf.entry) = {d} /\ In(leaf, a, w)
  BY <1>1, <1>5 DEF Says, CountryOf
<1> HIDE DEF M
<1>7. \A a \in Nat, d \in C : Cov(M, w, a, d) <=> Says(L, w, a, d, i)
  BY <1>4, <1>6 DEF Filled
<1> QED
  BY <1>4, <1>7 DEF Filled, M

(* The buckets of all leaves cover what the leaves say. *)
LEMMA BucketsFill ==
    ASSUME NEW w \in Nat, NEW L, NEW n \in Nat, n = Len(L), InOrder(L, w), NEW C,
           \A j \in 1..n : /\ Fits(L[j].len, L[j].addr, w)
                           /\ Optional(CountryOf(L, j)) /\ CountryOf(L, j) \subseteq C
    PROVE  Filled(Buckets(L, w)[n], L, w, C, n)
<1> DEFINE S == SUBSET NetPrefixes(C)
           Add(i, B) == add_country_prefix(B, w, L[i])
           F == [i \in 1..n |-> [B \in S |-> IF Add(i, B) \in S THEN Add(i, B) ELSE B]]
           G(g) == [i \in 0..n |-> IF i = 0 THEN {} ELSE Add(i, g[i - 1])]
           loop == Buckets(L, w)
<1>1. Filled({}, L, w, C, 0)
  BY DEF Filled, Merged, AllFit, NoOverlaps, NoSiblings, Cov, Says
<1>2. ASSUME NEW i \in 1..n, NEW B, Filled(B, L, w, C, i - 1) PROVE Filled(Add(i, B), L, w, C, i)
  BY <1>2, FillStep
<1> HIDE DEF Add
<1>3. \E g : g = G(g)
  <2>1. F \in [1..n -> [S -> S]] /\ {} \in S
    <3> HIDE DEF NetPrefixes
    <3> QED
      OBVIOUS
  <2>2. PICK g : Looped(S, {}, n, F, g)
    <3> HIDE DEF S, F
    <3> QED
      BY <2>1, LoopExists, Zenon
  <2>3. g \in [0..n -> S] /\ g[0] = {} /\ \A i \in 1..n : g[i] = F[i][g[i - 1]]
    BY <2>2, Zenon DEF Looped
  <2>4. \A i \in 1..n, B \in S : F[i][B] = IF Add(i, B) \in S THEN Add(i, B) ELSE B
    OBVIOUS
  <2> DEFINE P == {i \in 0..n : Filled(g[i], L, w, C, i) /\ (i > 0 => g[i] = Add(i, g[i - 1]))}
  <2>5. \A i \in 0..n : i \in P
    <3>1. 0 \in P
      <4>1. Filled(g[0], L, w, C, 0) /\ 0 \in 0..n /\ ~(0 > 0)
        BY <1>1, <2>3
      <4> HIDE DEF S, F
      <4> QED
        BY ONLY <4>1
    <3>2. ASSUME NEW i \in 1..n, i - 1 \in P PROVE i \in P
      <4>1. PICK B : B = g[i - 1] /\ Filled(B, L, w, C, i - 1)
        BY <3>2
      <4>2. B \in S
        BY <2>3, <4>1
      <4>3. Filled(Add(i, B), L, w, C, i)
        BY <1>2, <4>1
      <4>4. Add(i, B) \in S
        BY <4>3 DEF Filled, Merged
      <4> HIDE DEF S, F
      <4>5. g[i] = Add(i, B)
        BY <2>3, <2>4, <4>1, <4>2, <4>4
      <4> QED
        BY <4>1, <4>3, <4>5
    <3> HIDE DEF P
    <3> QED
      BY <3>1, <3>2, UpTo
  <2>6. \A i \in 0..n : g[i] = IF i = 0 THEN {} ELSE Add(i, g[i - 1])
    BY <2>3, <2>5
  <2>7. g = [i \in 0..n |-> g[i]]
    <3> HIDE DEF S
    <3> QED
      BY <2>3
  <2>8. g = G(g)
    <3> HIDE DEF S, F, P
    <3> QED
      BY <2>6, <2>7
  <2> HIDE DEF G
  <2> QED
    BY <2>8
<1>4. loop = G(loop)
  <2>1. loop = CHOOSE g : g = G(g)
    BY DEF Buckets, Add
  <2> HIDE DEF G, loop
  <2> QED
    BY <1>3, <2>1
<1> HIDE DEF loop
<1>5. loop[0] = {} /\ \A i \in 1..n : loop[i] = Add(i, loop[i - 1])
  <2>1. \A i \in 0..n : loop[i] = G(loop)[i]
    BY <1>4
  <2>2. \A i \in 0..n : loop[i] = IF i = 0 THEN {} ELSE Add(i, loop[i - 1])
    BY <2>1
  <2> QED
    BY <2>2
<1> DEFINE P == {i \in 0..n : Filled(loop[i], L, w, C, i)}
<1>6. \A i \in 0..n : i \in P
  <2>1. 0 \in P
    <3>1. Filled(loop[0], L, w, C, 0) /\ 0 \in 0..n
      BY <1>1, <1>5
    <3> QED
      BY ONLY <3>1
  <2>2. ASSUME NEW i \in 1..n, i - 1 \in P PROVE i \in P
    <3>1. Filled(Add(i, loop[i - 1]), L, w, C, i)
      BY <1>2, <2>2
    <3> QED
      BY <1>5, <3>1
  <2> HIDE DEF P
  <2> QED
    BY <2>1, <2>2, UpTo
<1> QED
  BY <1>6 DEF loop

(* The keys a country gets from its prefixes *)
KeyOf(p) == [u |-> p.len, addr |-> p.addr]
Keys(B, c) == {[u |-> p.len, addr |-> p.addr] : p \in {q \in B : q.country = c}}

(* The keys of a country are those of its prefixes. *)
LEMMA KeysFacts ==
    ASSUME NEW B, NEW c
    PROVE  \A k : k \in Keys(B, c) <=> \E p \in B : p.country = c /\ k = KeyOf(p)
  BY DEF Keys, KeyOf

(* A leaf of an ordered walk is the only one at its addresses. *)
LEMMA OneLeaf ==
    ASSUME NEW w \in Nat, NEW L, NEW n \in Nat, n = Len(L), InOrder(L, w),
           \A j \in 1..n : Fits(L[j].len, L[j].addr, w), NEW i \in 1..n, NEW j \in 1..n, NEW a \in Nat,
           In(L[i], a, w), In(L[j], a, w)
    PROVE  i = j
<1>1. ASSUME NEW k \in 1..n, NEW l \in 1..n, k < l, In(L[k], a, w), In(L[l], a, w) PROVE FALSE
  <2>1. L[k].addr + Size(L[k].len, w) <= L[l].addr
    BY <1>1 DEF InOrder
  <2>2. L[k].len \in 0..w /\ L[k].addr \in Nat /\ L[l].addr \in Nat
    BY DEF Fits
  <2>3. Size(L[k].len, w) \in Nat
    BY <2>2, SizeFacts
  <2>4. a < L[k].addr + Size(L[k].len, w) /\ L[l].addr <= a
    BY <1>1 DEF In
  <2> QED
    BY <2>1, <2>2, <2>3, <2>4
<1> QED
  BY <1>1

(* found is what the leaves say. *)
Answers(found, L, w, n) ==
    \A a \in Addresses(w) :
        \/ \E j \in 1..n : In(L[j], a, w) /\ found[a] = CountryOf(L, j)
        \/ (\A j \in 1..n : ~In(L[j], a, w)) /\ found[a] = {}

(* Buckets that cover what the leaves say are exact where the leaves are. *)
LEMMA FilledExact ==
    ASSUME NEW w \in Nat, NEW L, NEW n \in Nat, n = Len(L), InOrder(L, w), NEW C, Country \subseteq C,
           \A j \in 1..n : Fits(L[j].len, L[j].addr, w),
           NEW B, Filled(B, L, w, C, n), NEW found, Answers(found, L, w, n),
           NEW keys, \A c \in Country : keys[c] = Keys(B, c)
    PROVE  Exact(keys, w, found)
<1>1. ASSUME NEW p \in B PROVE Fits(p.len, p.addr, w) /\ p.len \in 0..w /\ p \in NetPrefixes(C)
  BY DEF Filled, Merged, AllFit, Fits
<1>2. ASSUME NEW p \in B, NEW a \in Nat PROVE Matches(KeyOf(p), a, w) <=> In(p, a, w)
  <2>1. PICK l \in 0..w, x \in {p.addr} : l = p.len /\ Fits(l, x, w)
    BY <1>1
  <2>2. (a \div Pow2[w - l] = x \div Pow2[w - l]) <=> (x <= a /\ a < x + Size(l, w))
    BY <2>1, MatchIsIn
  <2>3. Matches(KeyOf(p), a, w) <=> (a \div Pow2[w - l] = x \div Pow2[w - l])
    BY <2>1 DEF Matches, KeyOf
  <2>4. In(p, a, w) <=> (x <= a /\ a < x + Size(l, w))
    BY <2>1 DEF In
  <2> QED
    BY <2>2, <2>3, <2>4
<1>3. ASSUME NEW a \in Addresses(w), NEW c \in Country
      PROVE  Cardinality({k \in keys[c] : Matches(k, a, w)}) = IF found[a] = {c} THEN 1 ELSE 0
  <2> DEFINE K == {k \in keys[c] : Matches(k, a, w)}
  <2>1. a \in Nat /\ c \in C
    BY Pow2Facts DEF Addresses
  <2>2. \A k : k \in K <=> \E p \in B : p.country = c /\ k = KeyOf(p) /\ In(p, a, w)
    <3>1. \A k : k \in K <=> k \in Keys(B, c) /\ Matches(k, a, w)
      BY <1>3
    <3> HIDE DEF K
    <3> QED
      BY <1>2, <2>1, <3>1, KeysFacts
  <2> HIDE DEF K
  <2>3. CASE found[a] = {c}
    <3>1. PICK j \in 1..n : In(L[j], a, w) /\ CountryOf(L, j) = {c}
      BY <2>3 DEF Answers
    <3>2. Cov(B, w, a, c)
      BY <2>1, <3>1 DEF Says, Filled
    <3>3. PICK p \in B : p.country = c /\ In(p, a, w)
      BY <3>2 DEF Cov
    <3>4. \A q \in B : In(q, a, w) => q = p
      BY <2>1, <3>3 DEF Filled, Merged, NoOverlaps
    <3>5. K = {KeyOf(p)}
      BY <2>2, <3>3, <3>4
    <3> QED
      BY <2>3, <3>5, FS_Singleton DEF K
  <2>4. CASE found[a] # {c}
    <3>1. ASSUME NEW k \in K PROVE FALSE
      <4>1. Cov(B, w, a, c)
        BY <2>2, <3>1 DEF Cov
      <4>2. PICK i \in 1..n : CountryOf(L, i) = {c} /\ In(L[i], a, w)
        BY <2>1, <4>1 DEF Filled, Says
      <4>3. PICK j \in 1..n : In(L[j], a, w) /\ found[a] = CountryOf(L, j)
        BY <4>2 DEF Answers
      <4>4. i = j
        BY <2>1, <4>2, <4>3, OneLeaf
      <4> QED
        BY <2>4, <4>2, <4>3, <4>4
    <3>2. K = {}
      BY <3>1
    <3> QED
      BY <2>4, <3>2, FS_EmptySet DEF K
  <2> QED
    BY <2>3, <2>4
<1>4. ASSUME NEW c \in Country, NEW k \in keys[c], k.u > 0,
             [k EXCEPT !.addr = Sibling(k.addr, w, k.u)] \in keys[c]
      PROVE  FALSE
  <2>1. PICK p \in B : p.country = c /\ k = KeyOf(p)
    BY <1>4, KeysFacts
  <2>2. [k EXCEPT !.addr = Sibling(k.addr, w, k.u)] = [u |-> p.len, addr |-> Sibling(p.addr, w, p.len)]
    BY <2>1 DEF KeyOf
  <2>3. PICK r \in B : r.country = c /\ [u |-> p.len, addr |-> Sibling(p.addr, w, p.len)] = KeyOf(r)
    BY <1>4, <2>2, KeysFacts
  <2>4. r.len = p.len /\ r.addr = Sibling(p.addr, w, p.len)
    BY <2>3 DEF KeyOf
  <2>5. r = SiblingOf(p, w)
    BY <1>1, <2>1, <2>3, <2>4 DEF NetPrefixes, SiblingOf
  <2>6. p.len > 0
    BY <1>4, <2>1 DEF KeyOf
  <2> QED
    BY <2>5, <2>6 DEF Filled, Merged, NoSiblings
<1> QED
  BY <1>3, <1>4 DEF Exact

(* The records a walk meets, and the leaves it makes of them *)
Recs(db) == {db.nodes[n].left : n \in DOMAIN db.nodes}
            \cup {db.nodes[n].right : n \in DOMAIN db.nodes} \cup {Bad}
LeafOf(db) == [entry : Recs(db), addr : Nat, len : Nat]

(* The records of a database are well formed. *)
LEMMA RecsFacts ==
    ASSUME NEW db, IsDatabase(db)
    PROVE  /\ \A r \in Recs(db) : IsRecord(r, DOMAIN db.nodes)
           /\ \A n \in DOMAIN db.nodes : db.nodes[n].left \in Recs(db) /\ db.nodes[n].right \in Recs(db)
           /\ Bad \in Recs(db) /\ 0 \in DOMAIN db.nodes
<1>1. IsRecord(Bad, DOMAIN db.nodes)
  BY DEF IsRecord, Bad
<1> QED
  BY <1>1 DEF Recs, IsDatabase

(* The right child's address stays an address. *)
LEMMA RightHalf ==
    ASSUME NEW w \in Nat, NEW x \in Nat, NEW y \in Nat
    PROVE  (x + y) % Pow2[w] \in Addresses(w)
<1>1. PICK p \in Nat \ {0} : p = Pow2[w]
  BY Pow2Facts
<1>2. (x + y) % p \in 0..(p - 1)
  OBVIOUS
<1> QED
  BY <1>1, <1>2 DEF Addresses

(* What a node leads to, one level above deeper *)
Below(db, w, skipped, deeper, left, n, x) ==
    visit_rec(db.nodes[n].left, x, w - left + 1, deeper, skipped)
    \o visit_rec(db.nodes[n].right, (x + Pow2[left - 1]) % Pow2[w], w - left + 1, deeper, skipped)
Deepest(w, x) == <<[entry |-> Bad, addr |-> x, len |-> w]>>
Tables(db, w) == [DOMAIN db.nodes -> [Addresses(w) -> Seq(LeafOf(db))]]

(* What a record leads to is a sequence of leaves. *)
LEMMA VisitType ==
    ASSUME NEW db, IsDatabase(db), NEW w \in Nat, NEW skipped, NEW deeper \in Tables(db, w),
           NEW rec \in Recs(db), NEW x \in Addresses(w), NEW len \in Nat
    PROVE  visit_rec(rec, x, len, deeper, skipped) \in Seq(LeafOf(db))
<1>1. CASE rec.type = "empty" \/ rec \in skipped
  BY <1>1 DEF visit_rec
<1>2. CASE ~(rec.type = "empty" \/ rec \in skipped) /\ rec.type = "node"
  <2>1. rec.node \in DOMAIN db.nodes
    BY <1>2, RecsFacts DEF IsRecord
  <2>2. deeper[rec.node][x] \in Seq(LeafOf(db))
    BY <2>1 DEF Tables
  <2> QED
    BY <1>2, <2>2 DEF visit_rec
<1>3. CASE ~(rec.type = "empty" \/ rec \in skipped) /\ rec.type # "node"
  <2>1. x \in Nat
    BY Pow2Facts DEF Addresses
  <2>2. [entry |-> rec, addr |-> x, len |-> len] \in LeafOf(db)
    BY <2>1 DEF LeafOf
  <2> QED
    BY <1>3, <2>2 DEF visit_rec
<1> QED
  BY <1>1, <1>2, <1>3

(* So is what a node leads to. *)
LEMMA BelowType ==
    ASSUME NEW db, IsDatabase(db), NEW w \in Nat, NEW skipped, NEW deeper \in Tables(db, w),
           NEW left \in 1..w, NEW n \in DOMAIN db.nodes, NEW x \in Addresses(w)
    PROVE  Below(db, w, skipped, deeper, left, n, x) \in Seq(LeafOf(db))
<1>1. db.nodes[n].left \in Recs(db) /\ db.nodes[n].right \in Recs(db)
  BY RecsFacts
<1>2. w - left + 1 \in Nat /\ left - 1 \in Nat
  OBVIOUS
<1>3. x \in Nat /\ Pow2[left - 1] \in Nat
  BY <1>2, Pow2Facts DEF Addresses
<1>4. (x + Pow2[left - 1]) % Pow2[w] \in Addresses(w)
  BY <1>3, RightHalf
<1>5. PICK y \in Addresses(w), l \in Nat : y = (x + Pow2[left - 1]) % Pow2[w] /\ l = w - left + 1
  BY <1>2, <1>4
<1>6. /\ visit_rec(db.nodes[n].left, x, l, deeper, skipped) \in Seq(LeafOf(db))
      /\ visit_rec(db.nodes[n].right, y, l, deeper, skipped) \in Seq(LeafOf(db))
  BY <1>1, VisitType
<1> QED
  BY <1>5, <1>6, ConcatProperties DEF Below

(* The recursive walk exists and satisfies its equations. *)
LEMMA WalkEquations ==
    ASSUME NEW db, IsDatabase(db), NEW w \in Nat, NEW skipped
    PROVE  LET walk == Walk(db, w, skipped) IN
           /\ \A left \in 0..w : walk[left] \in Tables(db, w)
           /\ \A n \in DOMAIN db.nodes, x \in Addresses(w) : walk[0][n][x] = Deepest(w, x)
           /\ \A left \in 1..w, n \in DOMAIN db.nodes, x \in Addresses(w) :
                 walk[left][n][x] = Below(db, w, skipped, walk[left - 1], left, n, x)
<1> DEFINE S == Tables(db, w)
           N == DOMAIN db.nodes
           A == Addresses(w)
           B(left, deeper) == [n \in N |-> [x \in A |-> Below(db, w, skipped, deeper, left, n, x)]]
           z == [n \in N |-> [x \in A |-> Deepest(w, x)]]
           F == [left \in 1..w |-> [deeper \in S |-> B(left, deeper)]]
           G(g) == [left \in 0..w |-> [n \in N |-> [x \in A |->
                      IF left = 0 THEN Deepest(w, x) ELSE Below(db, w, skipped, g[left - 1], left, n, x)]]]
           walk == Walk(db, w, skipped)
<1>1. z \in S
  <2>1. ASSUME NEW x \in A PROVE Deepest(w, x) \in Seq(LeafOf(db))
    <3>1. x \in Nat /\ Bad \in Recs(db)
      BY RecsFacts, Pow2Facts DEF Addresses
    <3>2. [entry |-> Bad, addr |-> x, len |-> w] \in LeafOf(db)
      BY <3>1 DEF LeafOf
    <3> QED
      BY <3>2 DEF Deepest
  <2> QED
    BY <2>1 DEF Tables
<1>2. ASSUME NEW left \in 1..w, NEW deeper \in S PROVE B(left, deeper) \in S
  <2>1. ASSUME NEW n \in N, NEW x \in A
        PROVE  Below(db, w, skipped, deeper, left, n, x) \in Seq(LeafOf(db))
    BY BelowType
  <2> QED
    BY <2>1 DEF Tables
<1> HIDE DEF S
<1>3. \E g : g = G(g)
  <2>1. F \in [1..w -> [S -> S]]
    <3> HIDE DEF B
    <3> QED
      BY <1>2
  <2>2. PICK g : Looped(S, z, w, F, g)
    <3> HIDE DEF z, F
    <3> QED
      BY <1>1, <2>1, LoopExists, Zenon
  <2>3. g \in [0..w -> S] /\ g[0] = z /\ \A i \in 1..w : g[i] = F[i][g[i - 1]]
    BY <2>2, Zenon DEF Looped
  <2>4. ASSUME NEW i \in 1..w PROVE g[i] = B(i, g[i - 1])
    <3> HIDE DEF B
    <3>1. g[i - 1] \in S
      BY <2>3
    <3> QED
      BY <2>3, <3>1
  <2> HIDE DEF F
  <2>5. ASSUME NEW i \in 0..w PROVE g[i] = G(g)[i]
    <3>1. CASE i = 0
      <4>1. G(g)[0] = z
        OBVIOUS
      <4> QED
        BY <2>3, <3>1, <4>1
    <3>2. CASE i # 0
      <4>1. i \in 1..w
        BY <3>2
      <4>2. G(g)[i] = B(i, g[i - 1])
        BY <3>2
      <4> QED
        BY <2>4, <4>1, <4>2
    <3> QED
      BY <3>1, <3>2
  <2>6. g = [i \in 0..w |-> g[i]] /\ G(g) = [i \in 0..w |-> G(g)[i]]
    BY <2>3
  <2>7. g = G(g)
    <3> HIDE DEF G, z
    <3> QED
      BY <2>5, <2>6
  <2> HIDE DEF G
  <2> QED
    BY <2>7
<1>4. walk = G(walk)
  <2>1. walk = CHOOSE g : g = G(g)
    BY DEF Walk, Below, Deepest
  <2> HIDE DEF G, walk
  <2> QED
    BY <1>3, <2>1
<1> HIDE DEF walk
<1>5. walk[0] = z /\ \A i \in 1..w : walk[i] = B(i, walk[i - 1])
  <2>1. \A i \in 0..w : walk[i] = G(walk)[i]
    <3> HIDE DEF G
    <3> QED
      BY <1>4
  <2>2. G(walk)[0] = z
    OBVIOUS
  <2>3. ASSUME NEW i \in 1..w PROVE G(walk)[i] = B(i, walk[i - 1])
    OBVIOUS
  <2> HIDE DEF G, B, z
  <2> QED
    BY <2>1, <2>2, <2>3
<1>6. \A i \in 0..w : walk[i] \in S
  <2> DEFINE P == {i \in 0..w : walk[i] \in S}
  <2> HIDE DEF B, z
  <2>1. 0 \in P
    BY <1>1, <1>5
  <2>2. ASSUME NEW i \in 1..w, i - 1 \in P PROVE i \in P
    BY <1>2, <1>5, <2>2
  <2> HIDE DEF P
  <2>3. \A i \in 0..w : i \in P
    BY <2>1, <2>2, UpTo
  <2> QED
    BY <2>3 DEF P
<1>7. \A n \in N, x \in A : walk[0][n][x] = Deepest(w, x)
  BY <1>5
<1>8. \A i \in 1..w, n \in N, x \in A : walk[i][n][x] = Below(db, w, skipped, walk[i - 1], i, n, x)
  <2> SUFFICES ASSUME NEW i \in 1..w, NEW n \in N, NEW x \in A
               PROVE  walk[i][n][x] = Below(db, w, skipped, walk[i - 1], i, n, x)
    OBVIOUS
  <2>1. PICK deeper : deeper = walk[i - 1]
    OBVIOUS
  <2>2. walk[i] = B(i, deeper)
    BY <1>5, <2>1
  <2>3. B(i, deeper)[n][x] = Below(db, w, skipped, deeper, i, n, x)
    OBVIOUS
  <2> HIDE DEF B
  <2> QED
    BY <2>1, <2>2, <2>3
<1> QED
  BY <1>6, <1>7, <1>8 DEF walk, S

(* Leaves in order, between two addresses *)
Block(L, db, lo, hi, w) ==
    /\ L \in Seq(LeafOf(db)) /\ InOrder(L, w)
    /\ \A i \in 1..Len(L) :
          /\ Fits(L[i].len, L[i].addr, w) /\ L[i].entry.type \in {"data", "bad"}
          /\ lo <= L[i].addr /\ L[i].addr + Size(L[i].len, w) <= hi

(* Z is X followed by Y. *)
Appended(Z, X, Y, m, n) ==
    /\ m \in Nat /\ n \in Nat /\ m = Len(X) /\ n = Len(Y) /\ Len(Z) = m + n
    /\ \A i \in 1..(m + n) : \/ i \in 1..m /\ Z[i] = X[i]
                             \/ i - m \in 1..n /\ Z[i] = Y[i - m]
    /\ \A i \in 1..m : i \in 1..(m + n) /\ Z[i] = X[i]
    /\ \A i \in 1..n : i + m \in 1..(m + n) /\ Z[i + m] = Y[i]

(* That is what concatenation is. *)
LEMMA Concat ==
    ASSUME NEW S, NEW X \in Seq(S), NEW Y \in Seq(S)
    PROVE  X \o Y \in Seq(S) /\ \E m, n : Appended(X \o Y, X, Y, m, n)
<1>1. Len(X) \in Nat /\ Len(Y) \in Nat
  OBVIOUS
<1>2. /\ X \o Y \in Seq(S) /\ Len(X \o Y) = Len(X) + Len(Y)
      /\ \A i \in 1..Len(X) + Len(Y) : (X \o Y)[i] = IF i <= Len(X) THEN X[i] ELSE Y[i - Len(X)]
  BY ConcatProperties
<1>3. PICK m \in Nat, n \in Nat : m = Len(X) /\ n = Len(Y)
  BY <1>1
<1>4. \A i \in 1..(m + n) : i <= m => i \in 1..m
  OBVIOUS
<1>5. \A i \in 1..(m + n) : ~(i <= m) => i - m \in 1..n
  OBVIOUS
<1>6. \A i \in 1..m : i \in 1..(m + n) /\ i <= m
  OBVIOUS
<1>7. \A i \in 1..n : i + m \in 1..(m + n) /\ ~(i + m <= m) /\ (i + m) - m = i
  OBVIOUS
<1>8. \A i \in 1..(m + n) : (X \o Y)[i] = IF i <= m THEN X[i] ELSE Y[i - m]
  BY <1>2, <1>3
<1>9. PICK Z : Z = X \o Y
  OBVIOUS
<1>10. \A i \in 1..(m + n) : \/ i \in 1..m /\ Z[i] = X[i]
                             \/ i - m \in 1..n /\ Z[i] = Y[i - m]
  BY <1>4, <1>5, <1>8, <1>9
<1>11. \A i \in 1..m : i \in 1..(m + n) /\ Z[i] = X[i]
  BY <1>6, <1>8, <1>9
<1>12. \A i \in 1..n : i + m \in 1..(m + n) /\ Z[i + m] = Y[i]
  <2> SUFFICES ASSUME NEW i \in 1..n PROVE i + m \in 1..(m + n) /\ Z[i + m] = Y[i]
    OBVIOUS
  <2>1. PICK j : j = i + m
    OBVIOUS
  <2>2. j \in 1..(m + n) /\ ~(j <= m) /\ j - m = i
    BY <1>7, <2>1
  <2>3. Z[j] = Y[j - m]
    BY <1>8, <1>9, <2>2
  <2> QED
    BY <2>1, <2>2, <2>3
<1>13. Appended(Z, X, Y, m, n)
  BY <1>2, <1>3, <1>9, <1>10, <1>11, <1>12 DEF Appended
<1> QED
  BY <1>2, <1>9, <1>13

(* Two blocks side by side are a block. *)
LEMMA BlockConcat ==
    ASSUME NEW db, NEW w \in Nat, NEW lo \in Nat, NEW mid \in Nat, NEW hi \in Nat, lo <= mid, mid <= hi,
           NEW X, NEW Y, Block(X, db, lo, mid, w), Block(Y, db, mid, hi, w)
    PROVE  Block(X \o Y, db, lo, hi, w)
<1>1. X \in Seq(LeafOf(db)) /\ Y \in Seq(LeafOf(db))
  BY DEF Block
<1>2. PICK Z : Z = X \o Y
  OBVIOUS
<1>3. PICK m \in Nat, n \in Nat :
           /\ m = Len(X) /\ n = Len(Y) /\ Len(Z) = m + n /\ Z \in Seq(LeafOf(db))
           /\ \A i \in 1..(m + n) : \/ i \in 1..m /\ Z[i] = X[i]
                                    \/ i - m \in 1..n /\ Z[i] = Y[i - m]
  <2>1. Z \in Seq(LeafOf(db)) /\ \E m, n : Appended(Z, X, Y, m, n)
    BY <1>1, <1>2, Concat, Zenon
  <2> QED
    BY <2>1 DEF Appended
<1>4. ASSUME NEW L, NEW i, Fits(L[i].len, L[i].addr, w)
      PROVE  L[i].addr \in Nat /\ Size(L[i].len, w) \in Nat
  BY <1>4, SizeFacts DEF Fits
<1>5. ASSUME NEW i \in 1..m
      PROVE  /\ Fits(X[i].len, X[i].addr, w) /\ X[i].entry.type \in {"data", "bad"}
             /\ lo <= X[i].addr /\ X[i].addr + Size(X[i].len, w) <= mid
             /\ X[i].addr \in Nat /\ Size(X[i].len, w) \in Nat
  BY <1>3, <1>4 DEF Block
<1>6. ASSUME NEW i \in 1..n
      PROVE  /\ Fits(Y[i].len, Y[i].addr, w) /\ Y[i].entry.type \in {"data", "bad"}
             /\ mid <= Y[i].addr /\ Y[i].addr + Size(Y[i].len, w) <= hi
             /\ Y[i].addr \in Nat /\ Size(Y[i].len, w) \in Nat
  BY <1>3, <1>4 DEF Block
<1>7. ASSUME NEW i \in 1..(m + n)
      PROVE  /\ Fits(Z[i].len, Z[i].addr, w) /\ Z[i].entry.type \in {"data", "bad"}
             /\ lo <= Z[i].addr /\ Z[i].addr + Size(Z[i].len, w) <= hi
  <2>1. CASE i \in 1..m /\ Z[i] = X[i]
    <3>1. X[i].addr + Size(X[i].len, w) <= hi
      BY <1>5, <2>1
    <3> QED
      BY <1>5, <2>1, <3>1
  <2>2. CASE i - m \in 1..n /\ Z[i] = Y[i - m]
    <3>1. PICK k \in 1..n : k = i - m
      BY <2>2
    <3>2. lo <= Y[k].addr
      BY <1>6
    <3> QED
      BY <1>6, <2>2, <3>1, <3>2
  <2> QED
    BY <1>3, <2>1, <2>2
<1>8. ASSUME NEW i \in 1..(m + n), NEW j \in 1..(m + n), i < j
      PROVE  Z[i].addr + Size(Z[i].len, w) <= Z[j].addr
  <2>1. CASE j \in 1..m /\ Z[j] = X[j]
    <3>1. i \in 1..m /\ ~(i - m \in 1..n)
      BY <1>8, <2>1
    <3>2. Z[i] = X[i]
      BY <1>3, <3>1
    <3> QED
      BY <1>3, <1>8, <2>1, <3>1, <3>2 DEF Block, InOrder
  <2>2. CASE j - m \in 1..n /\ Z[j] = Y[j - m] /\ i \in 1..m /\ Z[i] = X[i]
    <3>1. PICK k \in 1..n : k = j - m
      BY <2>2
    <3>2. X[i].addr + Size(X[i].len, w) <= Y[k].addr
      BY <1>5, <1>6, <2>2
    <3> QED
      BY <2>2, <3>1, <3>2
  <2>3. CASE j - m \in 1..n /\ Z[j] = Y[j - m] /\ i - m \in 1..n /\ Z[i] = Y[i - m]
    <3>1. PICK k \in 1..n, l \in 1..n : k = j - m /\ l = i - m
      BY <2>3
    <3>2. l < k
      BY <1>8, <3>1
    <3>3. Y[l].addr + Size(Y[l].len, w) <= Y[k].addr
      BY <1>3, <3>2 DEF Block, InOrder
    <3> QED
      BY <2>3, <3>1, <3>3
  <2> QED
    BY <1>3, <2>1, <2>2, <2>3
<1>9. InOrder(Z, w)
  BY <1>3, <1>8 DEF InOrder
<1> QED
  BY <1>2, <1>3, <1>7, <1>9 DEF Block

(* x starts a range of 2^k addresses. *)
Aligned(x, k, w) == x \in Nat /\ (\E m \in Nat : x = m * Pow2[k]) /\ x + Pow2[k] <= Pow2[w]

(* The halves of an aligned range are aligned. *)
LEMMA AlignedHalves ==
    ASSUME NEW w \in Nat, NEW k \in 1..w, NEW x, Aligned(x, k, w)
    PROVE  \E h \in Nat \ {0}, m \in Nat :
              /\ h = Pow2[k - 1] /\ Pow2[k] = 2 * h /\ x = m * (2 * h) /\ x \in Addresses(w)
              /\ Aligned(x, k - 1, w) /\ Aligned(x + h, k - 1, w)
              /\ (x + h) % Pow2[w] = x + h /\ x + h \in Addresses(w)
<1>1. k - 1 \in Nat /\ (k - 1) + 1 = k
  OBVIOUS
<1>2. PICK h \in Nat \ {0} : h = Pow2[k - 1] /\ Pow2[k] = 2 * h
  BY <1>1, Pow2Facts
<1>3. PICK t \in Nat \ {0} : t = Pow2[w]
  BY Pow2Facts
<1>4. PICK m \in Nat : x = m * (2 * h)
  BY <1>2 DEF Aligned
<1>5. x \in Nat /\ x + 2 * h <= t
  BY <1>2, <1>3 DEF Aligned
<1>6. x = (2 * m) * h /\ x + h = (2 * m + 1) * h /\ 2 * m \in Nat /\ 2 * m + 1 \in Nat
  BY <1>4
<1>7. Aligned(x, k - 1, w) /\ Aligned(x + h, k - 1, w)
  <2>1. (\E i \in Nat : x = i * h) /\ (\E i \in Nat : x + h = i * h)
    BY <1>6
  <2>2. x + h <= t /\ (x + h) + h <= t /\ x + h \in Nat
    BY <1>5
  <2> QED
    BY <1>2, <1>3, <1>5, <2>1, <2>2 DEF Aligned
<1>8. x < t /\ x + h < t
  BY <1>5
<1>9. (x + h) % t = x + h
  BY <1>5, <1>8
<1>10. x \in 0..(t - 1) /\ x + h \in 0..(t - 1)
  BY <1>5, <1>8
<1> QED
  BY <1>2, <1>3, <1>4, <1>7, <1>9, <1>10 DEF Addresses

(* What one record adds *)
LEMMA VisitBlock ==
    ASSUME NEW db, IsDatabase(db), NEW w \in Nat, NEW k \in 1..w, NEW skipped, NEW deeper,
           NEW rec \in Recs(db), NEW y, Aligned(y, k - 1, w),
           \A n \in DOMAIN db.nodes : Block(deeper[n][y], db, y, y + Pow2[k - 1], w)
    PROVE  Block(visit_rec(rec, y, w - k + 1, deeper, skipped), db, y, y + Pow2[k - 1], w)
<1> DEFINE V == visit_rec(rec, y, w - k + 1, deeper, skipped)
<1>1. CASE rec.type = "empty" \/ rec \in skipped
  <2>1. V = <<>>
    BY <1>1 DEF visit_rec
  <2> HIDE DEF V
  <2>2. Len(V) = 0 /\ V \in Seq(LeafOf(db)) /\ 1..Len(V) = {}
    BY <2>1
  <2>3. Block(V, db, y, y + Pow2[k - 1], w)
    BY <2>2 DEF Block, InOrder
  <2> QED
    BY <2>3 DEF V
<1>2. CASE ~(rec.type = "empty" \/ rec \in skipped) /\ rec.type = "node"
  <2>1. rec.node \in DOMAIN db.nodes
    BY <1>2, RecsFacts DEF IsRecord
  <2>2. V = deeper[rec.node][y]
    BY <1>2 DEF visit_rec
  <2> QED
    BY <2>1, <2>2
<1>3. CASE ~(rec.type = "empty" \/ rec \in skipped) /\ rec.type # "node"
  <2>1. PICK l : l = w - k + 1
    OBVIOUS
  <2>2. l \in 0..w /\ l \in Nat /\ w - l = k - 1
    BY <2>1
  <2>3. Size(l, w) = Pow2[k - 1] /\ Fits(l, y, w) /\ y \in Nat /\ Size(l, w) \in Nat
    BY <2>2, SizeFacts DEF Size, Fits, Aligned
  <2>4. PICK e : e = [entry |-> rec, addr |-> y, len |-> l]
    OBVIOUS
  <2>5. e \in LeafOf(db) /\ e.entry = rec /\ e.addr = y /\ e.len = l
    BY <2>2, <2>3, <2>4 DEF LeafOf
  <2>6. V = <<e>>
    BY <1>3, <2>1, <2>4 DEF visit_rec
  <2>7. rec.type \in {"data", "bad"}
    BY <1>3, RecsFacts DEF IsRecord
  <2> HIDE DEF V
  <2>8. Len(V) = 1 /\ V[1] = e /\ V \in Seq(LeafOf(db))
    BY <2>5, <2>6
  <2>9. InOrder(V, w)
    BY <2>8 DEF InOrder
  <2>10. y <= y /\ y + Size(l, w) <= y + Size(l, w)
    BY <2>3
  <2>11. \A i \in 1..Len(V) : V[i] = e
    BY <2>8
  <2>12. Block(V, db, y, y + Pow2[k - 1], w)
    BY <2>3, <2>5, <2>7, <2>8, <2>9, <2>10, <2>11 DEF Block
  <2> QED
    BY <2>12 DEF V
<1> QED
  BY <1>1, <1>2, <1>3

(* The leaves below a node are in order within the node's addresses. *)
LEMMA WalkBlocks ==
    ASSUME NEW db, IsDatabase(db), NEW w \in Nat, NEW skipped
    PROVE  \A k \in 0..w : \A n \in DOMAIN db.nodes : \A x : Aligned(x, k, w) =>
               Block(Walk(db, w, skipped)[k][n][x], db, x, x + Pow2[k], w)
<1>1. PICK walk : walk = Walk(db, w, skipped)
  OBVIOUS
<1>2. /\ \A left \in 0..w : walk[left] \in Tables(db, w)
      /\ \A n \in DOMAIN db.nodes, x \in Addresses(w) : walk[0][n][x] = Deepest(w, x)
      /\ \A left \in 1..w, n \in DOMAIN db.nodes, x \in Addresses(w) :
            walk[left][n][x] = Below(db, w, skipped, walk[left - 1], left, n, x)
  BY <1>1, WalkEquations
<1> DEFINE P == {k \in 0..w : \A n \in DOMAIN db.nodes : \A x : Aligned(x, k, w) =>
                     Block(walk[k][n][x], db, x, x + Pow2[k], w)}
<1>3. 0 \in P
  <2> SUFFICES ASSUME NEW n \in DOMAIN db.nodes, NEW x, Aligned(x, 0, w)
               PROVE  Block(walk[0][n][x], db, x, x + Pow2[0], w)
    OBVIOUS
  <2>1. Pow2[0] = 1 /\ Pow2[w] \in Nat
    BY Pow2Facts
  <2>2. x \in Nat /\ x \in Addresses(w) /\ x + 1 <= Pow2[w]
    BY <2>1 DEF Aligned, Addresses
  <2>3. PICK e : e = [entry |-> Bad, addr |-> x, len |-> w]
    OBVIOUS
  <2>4. walk[0][n][x] = <<e>>
    BY <1>2, <2>2, <2>3 DEF Deepest
  <2>5. e \in LeafOf(db) /\ e.entry.type = "bad" /\ e.addr = x /\ e.len = w
    BY <2>2, <2>3, RecsFacts DEF LeafOf, Bad
  <2>6. w \in 0..w /\ w - w = 0 /\ x = x * 1
    BY <2>2
  <2>7. Size(w, w) = 1
    BY <2>1, <2>6 DEF Size
  <2>8. Fits(w, x, w)
    BY <2>2, <2>6, <2>7 DEF Fits
  <2>9. PICK V : V = walk[0][n][x]
    OBVIOUS
  <2>10. Len(V) = 1 /\ V[1] = e /\ V \in Seq(LeafOf(db))
    BY <2>4, <2>5, <2>9
  <2>11. InOrder(V, w)
    BY <2>10 DEF InOrder
  <2>12. \A i \in 1..Len(V) : V[i] = e
    BY <2>10
  <2>13. x <= x /\ x + 1 <= x + 1
    BY <2>2
  <2> QED
    BY <2>1, <2>5, <2>7, <2>8, <2>9, <2>10, <2>11, <2>12, <2>13 DEF Block
<1>4. ASSUME NEW k \in 1..w, k - 1 \in P PROVE k \in P
  <2> SUFFICES ASSUME NEW n \in DOMAIN db.nodes, NEW x, Aligned(x, k, w)
               PROVE  Block(walk[k][n][x], db, x, x + Pow2[k], w)
    OBVIOUS
  <2>1. PICK h \in Nat \ {0} :
           /\ h = Pow2[k - 1] /\ Pow2[k] = 2 * h /\ x \in Addresses(w)
           /\ Aligned(x, k - 1, w) /\ Aligned(x + h, k - 1, w)
           /\ (x + h) % Pow2[w] = x + h /\ x + h \in Addresses(w)
    BY AlignedHalves
  <2>2. PICK deeper : deeper = walk[k - 1]
    OBVIOUS
  <2>3. \A j \in DOMAIN db.nodes : \A y : Aligned(y, k - 1, w) =>
             Block(deeper[j][y], db, y, y + Pow2[k - 1], w)
    BY <1>4, <2>2
  <2>4. PICK l, r : l = db.nodes[n].left /\ r = db.nodes[n].right
    OBVIOUS
  <2>5. l \in Recs(db) /\ r \in Recs(db)
    BY <2>4, RecsFacts
  <2>6. PICK y : y = x + h
    OBVIOUS
  <2>7. PICK X, Y : /\ X = visit_rec(l, x, w - k + 1, deeper, skipped)
                    /\ Y = visit_rec(r, y, w - k + 1, deeper, skipped)
    OBVIOUS
  <2>8. Block(X, db, x, x + h, w)
    BY <2>1, <2>3, <2>5, <2>7, VisitBlock
  <2>9. Block(Y, db, y, y + h, w)
    BY <2>1, <2>3, <2>5, <2>6, <2>7, VisitBlock
  <2>10. x \in Nat /\ y \in Nat /\ y + h \in Nat /\ x <= y /\ y <= y + h /\ y + h = x + 2 * h
    BY <2>1, <2>6 DEF Aligned
  <2>11. Block(X \o Y, db, x, y + h, w)
    BY <2>6, <2>8, <2>9, <2>10, BlockConcat
  <2>12. walk[k][n][x] = X \o Y
    BY <1>2, <2>1, <2>2, <2>4, <2>6, <2>7 DEF Below
  <2> QED
    BY <2>1, <2>10, <2>11, <2>12
<1> HIDE DEF P
<1>5. \A k \in 0..w : k \in P
  BY <1>3, <1>4, UpTo
<1> QED
  BY <1>1, <1>5 DEF P

(* The path of an address, bit by bit *)
Stops(r, d, skipped) == r.type # "node" \/ (d > 1 /\ r \in skipped)
Turn(db, w, a, r, d) ==
    IF (a \div Pow2[w - d]) % 2 = 0 THEN db.nodes[r.node].left ELSE db.nodes[r.node].right
OnPath(at, db, w, n, skipped, a) ==
    /\ at[0] = Child(n)
    /\ \A d \in 0..w : at[d] \in Recs(db) \cup {Child(n)}
    /\ \A d \in 1..w : at[d] = IF Stops(at[d - 1], d, skipped) THEN at[d - 1]
                               ELSE Turn(db, w, a, at[d - 1], d)

(* The path of an address exists and satisfies its equations. *)
LEMMA PathEquations ==
    ASSUME NEW db, IsDatabase(db), NEW w \in Nat, NEW n \in DOMAIN db.nodes, NEW skipped, NEW a
    PROVE  OnPath(Path(db, w, n, skipped, a), db, w, n, skipped, a)
<1> DEFINE S == Recs(db) \cup {Child(n)}
           St(r, d) == IF Stops(r, d, skipped) THEN r ELSE Turn(db, w, a, r, d)
           F == [d \in 1..w |-> [r \in S |-> St(r, d)]]
           G(g) == [d \in 0..w |-> IF d = 0 THEN Child(n) ELSE St(g[d - 1], d)]
           at == Path(db, w, n, skipped, a)
<1>1. Child(n) \in S
  OBVIOUS
<1>2. ASSUME NEW r \in S, NEW d \in 1..w PROVE St(r, d) \in S
  <2>1. CASE Stops(r, d, skipped)
    BY <2>1
  <2>2. CASE ~Stops(r, d, skipped)
    <3>1. r.type = "node" => r.node \in DOMAIN db.nodes
      BY RecsFacts DEF IsRecord, Child
    <3>2. r.node \in DOMAIN db.nodes
      BY <2>2, <3>1 DEF Stops
    <3>3. Turn(db, w, a, r, d) \in S
      BY <3>2, RecsFacts DEF Turn
    <3> QED
      BY <2>2, <3>3
  <2> QED
    BY <2>1, <2>2
<1> HIDE DEF St, S
<1>3. \E g : g = G(g)
  <2>1. F \in [1..w -> [S -> S]]
    BY <1>2
  <2>2. PICK g : Looped(S, Child(n), w, F, g)
    <3> HIDE DEF F
    <3> QED
      BY <1>1, <2>1, LoopExists, Zenon
  <2>3. g \in [0..w -> S] /\ g[0] = Child(n) /\ \A i \in 1..w : g[i] = F[i][g[i - 1]]
    BY <2>2, Zenon DEF Looped
  <2>4. ASSUME NEW i \in 1..w PROVE g[i] = St(g[i - 1], i)
    <3>1. g[i - 1] \in S
      BY <2>3
    <3> QED
      BY <2>3, <3>1
  <2> HIDE DEF F
  <2>5. \A i \in 0..w : g[i] = IF i = 0 THEN Child(n) ELSE St(g[i - 1], i)
    BY <2>3, <2>4
  <2>6. g = [i \in 0..w |-> g[i]]
    BY <2>3
  <2>7. g = G(g)
    BY <2>5, <2>6
  <2> HIDE DEF G
  <2> QED
    BY <2>7
<1>4. at = G(at)
  <2>1. at = CHOOSE g : g = G(g)
    BY DEF Path, St, Stops, Turn
  <2> HIDE DEF G, at
  <2> QED
    BY <1>3, <2>1
<1> HIDE DEF at
<1>5. at[0] = Child(n) /\ \A i \in 1..w : at[i] = St(at[i - 1], i)
  <2>1. \A i \in 0..w : at[i] = G(at)[i]
    BY <1>4
  <2>2. \A i \in 0..w : at[i] = IF i = 0 THEN Child(n) ELSE St(at[i - 1], i)
    BY <2>1
  <2> QED
    BY <2>2
<1>6. \A i \in 0..w : at[i] \in S
  <2> DEFINE P == {i \in 0..w : at[i] \in S}
  <2>1. 0 \in P
    BY <1>1, <1>5
  <2>2. ASSUME NEW i \in 1..w, i - 1 \in P PROVE i \in P
    BY <1>2, <1>5, <2>2
  <2> HIDE DEF P
  <2>3. \A i \in 0..w : i \in P
    BY <2>1, <2>2, UpTo
  <2> QED
    BY <2>3 DEF P
<1> QED
  BY <1>5, <1>6 DEF OnPath, St, at, S

(* A path that has ended stays where it ended. *)
LEMMA PathStays ==
    ASSUME NEW db, NEW w \in Nat, NEW n, NEW skipped, NEW a, NEW at, OnPath(at, db, w, n, skipped, a),
           NEW d \in 1..w, at[d].type # "node" \/ at[d] \in skipped
    PROVE  at[w] = at[d]
<1> DEFINE P == {e \in 0..w : e >= d => at[e] = at[d]}
<1>1. 0 \in P
  OBVIOUS
<1>2. ASSUME NEW e \in 1..w, e - 1 \in P PROVE e \in P
  <2>1. CASE e - 1 >= d
    <3>1. at[e - 1] = at[d] /\ e > 1
      BY <1>2, <2>1
    <3>2. Stops(at[e - 1], e, skipped)
      BY <3>1 DEF Stops
    <3>3. at[e] = at[e - 1]
      BY <3>2 DEF OnPath
    <3> QED
      BY <3>1, <3>3
  <2>2. CASE ~(e - 1 >= d)
    <3>1. e >= d => e = d
      BY <2>2
    <3> QED
      BY <3>1
  <2> QED
    BY <2>1, <2>2
<1> HIDE DEF P
<1>3. \A e \in 0..w : e \in P
  BY <1>1, <1>2, UpTo
<1> QED
  BY <1>3 DEF P

(* What the leaves L say of an address at which the path ends in r *)
Decided(L, r, a, w) ==
    \/ \E i \in 1..Len(L) : In(L[i], a, w) /\ L[i].entry.type = "bad"
    \/ (\E i \in 1..Len(L) : In(L[i], a, w) /\ L[i].entry = r) /\ r.type = "data"
    \/ (\A i \in 1..Len(L) : ~In(L[i], a, w)) /\ r.type # "data"

(* Leaves that miss an address change nothing of what is said of it. *)
LEMMA DecidedConcat ==
    ASSUME NEW S, NEW w, NEW X \in Seq(S), NEW Y \in Seq(S), NEW r, NEW a,
           \/ Decided(X, r, a, w) /\ \A i \in 1..Len(Y) : ~In(Y[i], a, w)
           \/ Decided(Y, r, a, w) /\ \A i \in 1..Len(X) : ~In(X[i], a, w)
    PROVE  Decided(X \o Y, r, a, w)
<1>1. PICK Z : Z = X \o Y
  OBVIOUS
<1>2. PICK m, n : Appended(Z, X, Y, m, n)
  BY <1>1, Concat, Zenon
<1>3. m \in Nat /\ n \in Nat /\ m = Len(X) /\ n = Len(Y) /\ Len(Z) = m + n
  BY <1>2 DEF Appended
<1>4. \A i \in 1..(m + n) : \/ i \in 1..m /\ Z[i] = X[i]
                            \/ i - m \in 1..n /\ Z[i] = Y[i - m]
  BY <1>2 DEF Appended
<1>5. \A i \in 1..m : \E j \in 1..(m + n) : Z[j] = X[i]
  BY <1>2 DEF Appended
<1>6. \A i \in 1..n : \E j \in 1..(m + n) : Z[j] = Y[i]
  BY <1>2 DEF Appended
<1>a. \A i \in 1..(m + n) : (\E j \in 1..m : Z[i] = X[j]) \/ (\E j \in 1..n : Z[i] = Y[j])
  BY <1>4
<1>b. ASSUME NEW V, NEW l, l = Len(V), Decided(V, r, a, w),
             \A i \in 1..l : \E j \in 1..(m + n) : Z[j] = V[i],
             \A i \in 1..(m + n) : In(Z[i], a, w) => \E j \in 1..l : Z[i] = V[j]
      PROVE  Decided(Z, r, a, w)
  <2>1. CASE \E i \in 1..l : In(V[i], a, w) /\ V[i].entry.type = "bad"
    BY <1>3, <1>b, <2>1 DEF Decided
  <2>2. CASE (\E i \in 1..l : In(V[i], a, w) /\ V[i].entry = r) /\ r.type = "data"
    BY <1>3, <1>b, <2>2 DEF Decided
  <2>3. CASE (\A i \in 1..l : ~In(V[i], a, w)) /\ r.type # "data"
    BY <1>3, <1>b, <2>3 DEF Decided
  <2> QED
    BY <1>b, <2>1, <2>2, <2>3 DEF Decided
<1>7. Decided(Z, r, a, w)
  <2>1. CASE Decided(X, r, a, w) /\ \A i \in 1..Len(Y) : ~In(Y[i], a, w)
    <3>1. \A i \in 1..(m + n) : In(Z[i], a, w) => \E j \in 1..m : Z[i] = X[j]
      BY <1>3, <1>a, <2>1
    <3> QED
      BY <1>3, <1>5, <1>b, <2>1, <3>1
  <2>2. CASE Decided(Y, r, a, w) /\ \A i \in 1..Len(X) : ~In(X[i], a, w)
    <3>1. \A i \in 1..(m + n) : In(Z[i], a, w) => \E j \in 1..n : Z[i] = Y[j]
      BY <1>3, <1>a, <2>2
    <3> QED
      BY <1>3, <1>6, <1>b, <2>2, <3>1
  <2> QED
    BY <2>1, <2>2
<1> QED
  BY <1>1, <1>7

(* The next bit of an address tells the half it is in. *)
LEMMA BitTellsHalf ==
    ASSUME NEW h \in Nat \ {0}, NEW m \in Nat, NEW x \in Nat, x = m * (2 * h), NEW a \in Nat
    PROVE  /\ x <= a /\ a < x + h => (a \div h) % 2 = 0
           /\ x + h <= a /\ a < x + 2 * h => (a \div h) % 2 # 0
<1>1. PICK j \in Nat : j = 2 * m
  OBVIOUS
<1>2. x = j * h /\ x + h = (j + 1) * h
  BY <1>1
<1>3. ASSUME x <= a, a < x + h PROVE (a \div h) % 2 = 0
  <2>1. j * h <= a /\ a <= j * h + h - 1
    BY <1>2, <1>3
  <2>2. a \div h = j
    BY <2>1, DivUnique
  <2> QED
    BY <1>1, <2>2
<1>4. ASSUME x + h <= a, a < x + 2 * h PROVE (a \div h) % 2 # 0
  <2>0. PICK i \in Nat : i = j + 1
    OBVIOUS
  <2>1. i * h <= a /\ a <= i * h + h - 1
    BY <1>2, <1>4, <2>0
  <2>2. a \div h = i
    BY <2>1, DivUnique
  <2>3. i % 2 # 0
    BY <1>1, <2>0
  <2> QED
    BY <2>2, <2>3
<1> QED
  BY <1>3, <1>4

(* A record on the path of an address decides it. *)
LEMMA VisitDecides ==
    ASSUME NEW db, IsDatabase(db), NEW w \in Nat, NEW k \in 1..w, NEW n, NEW skipped,
           \A r \in skipped : r.type = "node", NEW a \in Nat, NEW at, OnPath(at, db, w, n, skipped, a),
           NEW deeper, NEW y, Aligned(y, k - 1, w), y <= a, a < y + Pow2[k - 1],
           NEW rec, rec = at[w - k + 1], rec \in Recs(db),
           \A j \in DOMAIN db.nodes : (rec.type = "node" /\ rec.node = j /\ rec \notin skipped) =>
               Decided(deeper[j][y], at[w], a, w)
    PROVE  Decided(visit_rec(rec, y, w - k + 1, deeper, skipped), at[w], a, w)
<1> DEFINE V == visit_rec(rec, y, w - k + 1, deeper, skipped)
<1>0. PICK d \in 1..w : d = w - k + 1 /\ w - d = k - 1 /\ d \in 0..w
  <2>1. w - k + 1 \in 1..w /\ w - (w - k + 1) = k - 1 /\ w - k + 1 \in 0..w
    OBVIOUS
  <2> QED
    BY <2>1
<1>1. CASE rec.type = "empty" \/ rec \in skipped
  <2>1. V = <<>>
    BY <1>1 DEF visit_rec
  <2>a. at[d] = rec /\ (at[d].type # "node" \/ at[d] \in skipped)
    BY <1>0, <1>1
  <2>b. at[w] = at[d]
    <3>1. w \in Nat /\ OnPath(at, db, w, n, skipped, a) /\ d \in 1..w
      OBVIOUS
    <3> QED
      BY ONLY <2>a, <3>1, PathStays
  <2>2. at[w] = rec
    BY <2>a, <2>b
  <2>3. rec.type # "data"
    BY <1>1
  <2> HIDE DEF V
  <2>4. 1..Len(V) = {}
    BY <2>1
  <2>5. Decided(V, at[w], a, w)
    BY <2>2, <2>3, <2>4 DEF Decided
  <2> QED
    BY <2>5 DEF V
<1>2. CASE ~(rec.type = "empty" \/ rec \in skipped) /\ rec.type = "node"
  <2>1. rec.node \in DOMAIN db.nodes
    BY <1>2, RecsFacts DEF IsRecord
  <2>2. V = deeper[rec.node][y]
    BY <1>2 DEF visit_rec
  <2> QED
    BY <1>2, <2>1, <2>2
<1>3. CASE ~(rec.type = "empty" \/ rec \in skipped) /\ rec.type # "node"
  <2>1. PICK e : e = [entry |-> rec, addr |-> y, len |-> d]
    OBVIOUS
  <2>2. V = <<e>>
    BY <1>0, <1>3, <2>1 DEF visit_rec
  <2>3. e.entry = rec /\ e.addr = y /\ e.len = d
    BY <2>1
  <2>4. Size(d, w) = Pow2[k - 1]
    BY <1>0 DEF Size
  <2>5. In(e, a, w)
    BY <2>3, <2>4 DEF In
  <2>6. at[w] = rec
    <3>1. w \in Nat /\ OnPath(at, db, w, n, skipped, a) /\ d \in 1..w /\ at[d] = rec
          /\ (at[d].type # "node" \/ at[d] \in skipped)
      BY <1>0, <1>3
    <3>2. at[w] = at[d]
      BY ONLY <3>1, PathStays
    <3> QED
      BY <3>1, <3>2
  <2>7. rec.type \in {"data", "bad"}
    BY <1>3, RecsFacts DEF IsRecord
  <2> HIDE DEF V
  <2>8. Len(V) = 1 /\ V[1] = e
    BY <2>2
  <2>9. 1 \in 1..Len(V)
    BY <2>8
  <2>10. Decided(V, at[w], a, w)
    BY <2>3, <2>5, <2>6, <2>7, <2>8, <2>9 DEF Decided
  <2> QED
    BY <2>10 DEF V
<1> QED
  BY <1>1, <1>2, <1>3

(* A block says nothing of addresses outside it. *)
LEMMA BlockMisses ==
    ASSUME NEW db, NEW w \in Nat, NEW lo \in Nat, NEW hi \in Nat, NEW L, Block(L, db, lo, hi, w),
           NEW a \in Nat, a < lo \/ hi <= a
    PROVE  \A i \in 1..Len(L) : ~In(L[i], a, w)
<1> SUFFICES ASSUME NEW i \in 1..Len(L), In(L[i], a, w) PROVE FALSE
  OBVIOUS
<1>1. L[i].addr \in Nat /\ L[i].len \in 0..w /\ lo <= L[i].addr /\ L[i].addr + Size(L[i].len, w) <= hi
  BY DEF Block, Fits
<1>2. Size(L[i].len, w) \in Nat
  BY <1>1, SizeFacts
<1>3. L[i].addr <= a /\ a < L[i].addr + Size(L[i].len, w)
  BY DEF In
<1> QED
  BY <1>1, <1>2, <1>3

(* The path goes on below node n. *)
Live(r, n, k, w, skipped) == r.type = "node" /\ r.node = n /\ (k = w \/ r \notin skipped)

(* The walk below a node on the path of an address decides it. *)
LEMMA WalkDecides ==
    ASSUME NEW db, IsDatabase(db), NEW w \in Nat, NEW skipped, \A r \in skipped : r.type = "node",
           NEW s \in DOMAIN db.nodes, NEW a \in Nat, NEW at, OnPath(at, db, w, s, skipped, a)
    PROVE  \A k \in 0..w : \A n \in DOMAIN db.nodes : \A x :
              (Aligned(x, k, w) /\ x <= a /\ a < x + Pow2[k] /\ Live(at[w - k], n, k, w, skipped)) =>
                  Decided(Walk(db, w, skipped)[k][n][x], at[w], a, w)
<1>1. PICK walk : walk = Walk(db, w, skipped)
  OBVIOUS
<1>2. /\ \A n \in DOMAIN db.nodes, x \in Addresses(w) : walk[0][n][x] = Deepest(w, x)
      /\ \A left \in 1..w, n \in DOMAIN db.nodes, x \in Addresses(w) :
            walk[left][n][x] = Below(db, w, skipped, walk[left - 1], left, n, x)
  BY <1>1, WalkEquations
<1>b. \A k \in 0..w : \A n \in DOMAIN db.nodes : \A x : Aligned(x, k, w) =>
               Block(walk[k][n][x], db, x, x + Pow2[k], w)
  BY <1>1, WalkBlocks
<1> DEFINE P == {k \in 0..w : \A n \in DOMAIN db.nodes : \A x :
              (Aligned(x, k, w) /\ x <= a /\ a < x + Pow2[k] /\ Live(at[w - k], n, k, w, skipped)) =>
                  Decided(walk[k][n][x], at[w], a, w)}
<1>3. 0 \in P
  <2> SUFFICES ASSUME NEW n \in DOMAIN db.nodes, NEW x, Aligned(x, 0, w), x <= a, a < x + Pow2[0]
               PROVE  Decided(walk[0][n][x], at[w], a, w)
    OBVIOUS
  <2>1. Pow2[0] = 1 /\ Pow2[w] \in Nat
    BY Pow2Facts
  <2>2. x \in Nat /\ x \in Addresses(w) /\ x + 1 <= Pow2[w]
    BY <2>1 DEF Aligned, Addresses
  <2>3. PICK e : e = [entry |-> Bad, addr |-> x, len |-> w]
    OBVIOUS
  <2>4. walk[0][n][x] = <<e>>
    BY <1>2, <2>2, <2>3 DEF Deepest
  <2>5. e.entry.type = "bad" /\ e.addr = x /\ e.len = w
    BY <2>3 DEF Bad
  <2>6. Size(w, w) = 1
    <3>1. w - w = 0
      OBVIOUS
    <3> QED
      BY <2>1, <3>1 DEF Size
  <2>7. In(e, a, w)
    BY <2>1, <2>5, <2>6 DEF In
  <2>8. PICK V : V = walk[0][n][x]
    OBVIOUS
  <2>9. Len(V) = 1 /\ V[1] = e
    BY <2>4, <2>8
  <2>10. 1 \in 1..Len(V)
    BY <2>9
  <2> QED
    BY <2>5, <2>7, <2>8, <2>9, <2>10 DEF Decided
<1>4. ASSUME NEW k \in 1..w, k - 1 \in P PROVE k \in P
  <2> SUFFICES ASSUME NEW n \in DOMAIN db.nodes, NEW x, Aligned(x, k, w), x <= a, a < x + Pow2[k],
                      Live(at[w - k], n, k, w, skipped)
               PROVE  Decided(walk[k][n][x], at[w], a, w)
    OBVIOUS
  <2>1. PICK h \in Nat \ {0}, m \in Nat :
           /\ h = Pow2[k - 1] /\ Pow2[k] = 2 * h /\ x = m * (2 * h) /\ x \in Addresses(w)
           /\ Aligned(x, k - 1, w) /\ Aligned(x + h, k - 1, w)
           /\ (x + h) % Pow2[w] = x + h /\ x + h \in Addresses(w)
    BY AlignedHalves
  <2>2. PICK deeper : deeper = walk[k - 1]
    OBVIOUS
  <2>4. PICK l, r : l = db.nodes[n].left /\ r = db.nodes[n].right
    OBVIOUS
  <2>5. l \in Recs(db) /\ r \in Recs(db)
    BY <2>4, RecsFacts
  <2>6. PICK y : y = x + h
    OBVIOUS
  <2>7. PICK X, Y : /\ X = visit_rec(l, x, w - k + 1, deeper, skipped)
                    /\ Y = visit_rec(r, y, w - k + 1, deeper, skipped)
    OBVIOUS
  <2>8. k - 1 \in 0..w /\ k \in 0..w
    OBVIOUS
  <2>9. \A j \in DOMAIN db.nodes : \A z : Aligned(z, k - 1, w) =>
             Block(deeper[j][z], db, z, z + Pow2[k - 1], w)
    BY <1>b, <2>2, <2>8
  <2>10. Block(X, db, x, x + h, w)
    BY <2>1, <2>5, <2>7, <2>9, VisitBlock
  <2>11. Block(Y, db, y, y + h, w)
    BY <2>1, <2>5, <2>6, <2>7, <2>9, VisitBlock
  <2>12. walk[k][n][x] = X \o Y
    <3>1. walk[k][n][x] = Below(db, w, skipped, deeper, k, n, x)
      BY <1>2, <2>1, <2>2
    <3>2. Below(db, w, skipped, deeper, k, n, x) = X \o Y
      BY <2>1, <2>4, <2>6, <2>7 DEF Below
    <3> QED
      BY <3>1, <3>2
  <2>13. PICK d \in 1..w : d = w - k + 1 /\ d - 1 = w - k /\ w - d = k - 1 /\ d = w - (k - 1)
    <3>1. w - k + 1 \in 1..w /\ (w - k + 1) - 1 = w - k /\ w - (w - k + 1) = k - 1
          /\ w - k + 1 = w - (k - 1)
      OBVIOUS
    <3> QED
      BY <3>1
  <2>14. PICK c : c = at[d - 1] /\ c.type = "node" /\ c.node = n /\ (k = w \/ c \notin skipped)
    BY <2>13 DEF Live
  <2>15. ~Stops(c, d, skipped)
    <3>1. k = w => ~(d > 1)
      BY <2>13
    <3> QED
      BY <2>14, <3>1 DEF Stops
  <2>16. at[d] = IF (a \div h) % 2 = 0 THEN l ELSE r
    <3>1. at[d] = Turn(db, w, a, c, d)
      BY <2>14, <2>15 DEF OnPath
    <3> QED
      BY <2>1, <2>4, <2>13, <2>14, <3>1 DEF Turn
  <2>17. x \in Nat /\ y \in Nat /\ x + h \in Nat /\ y + h \in Nat /\ y + h = x + 2 * h
    BY <2>1, <2>6 DEF Aligned
  <2>18. /\ x <= a /\ a < x + h => (a \div h) % 2 = 0
         /\ x + h <= a /\ a < x + 2 * h => (a \div h) % 2 # 0
    BY <2>1, <2>17, BitTellsHalf
  <2>19. X \in Seq(LeafOf(db)) /\ Y \in Seq(LeafOf(db))
    BY <2>10, <2>11 DEF Block
  <2>20. ASSUME NEW z, Aligned(z, k - 1, w), z <= a, a < z + h, NEW rec, rec = at[d], rec \in Recs(db)
         PROVE  Decided(visit_rec(rec, z, w - k + 1, deeper, skipped), at[w], a, w)
    <3>1. ASSUME NEW j \in DOMAIN db.nodes, rec.type = "node", rec.node = j, rec \notin skipped
          PROVE  Decided(deeper[j][z], at[w], a, w)
      <4>1. Live(at[w - (k - 1)], j, k - 1, w, skipped)
        BY <2>13, <2>20, <3>1 DEF Live
      <4> QED
        BY <1>4, <2>1, <2>2, <2>20, <4>1
    <3>2. rec = at[w - k + 1]
      BY <2>13, <2>20
    <3>3. a < z + Pow2[k - 1]
      BY <2>1, <2>20
    <3> QED
      BY <2>20, <3>1, <3>2, <3>3, VisitDecides
  <2>21. CASE a < x + h
    <3>1. at[d] = l
      BY <2>16, <2>18, <2>21
    <3>2. Decided(X, at[w], a, w)
      BY <2>1, <2>5, <2>7, <2>20, <2>21, <3>1
    <3>3. \A i \in 1..Len(Y) : ~In(Y[i], a, w)
      <4>1. a < y
        BY <2>6, <2>21
      <4> QED
        BY <2>11, <2>17, <4>1, BlockMisses
    <3> QED
      BY <2>12, <2>19, <3>2, <3>3, DecidedConcat
  <2>22. CASE ~(a < x + h)
    <3>0. x + h <= a /\ a < x + 2 * h
      BY <2>1, <2>17, <2>22
    <3>1. at[d] = r
      BY <2>16, <2>18, <3>0
    <3>2. Decided(Y, at[w], a, w)
      <4>1. y <= a /\ a < y + h /\ Aligned(y, k - 1, w)
        BY <2>1, <2>6, <2>17, <3>0
      <4> QED
        BY <2>5, <2>7, <2>20, <3>1, <4>1
    <3>3. \A i \in 1..Len(X) : ~In(X[i], a, w)
      BY <2>10, <2>17, <3>0, BlockMisses
    <3> QED
      BY <2>12, <2>19, <3>2, <3>3, DecidedConcat
  <2> QED
    BY <2>21, <2>22
<1> HIDE DEF P
<1>5. \A k \in 0..w : k \in P
  BY <1>3, <1>4, UpTo
<1> QED
  BY <1>1, <1>5 DEF P

NoBad(L) == \A leaf \in ToSet(L) : leaf.entry.type # "bad"

(* No leaf of a sequence without malformed data is malformed. *)
LEMMA NoneBad ==
    ASSUME NEW S, NEW L \in Seq(S), NoBad(L)
    PROVE  \A i \in 1..Len(L) : L[i].entry.type # "bad"
<1>1. \A i \in 1..Len(L) : L[i] \in ToSet(L)
  BY DEF ToSet
<1> QED
  BY <1>1 DEF NoBad

(* The walk from a node and the lookups from it *)
LEMMA WalkAnswers ==
    ASSUME NEW db, IsDatabase(db), NEW w \in Nat, NEW skipped, \A r \in skipped : r.type = "node",
           NEW s \in DOMAIN db.nodes, NEW found, NEW L, L = walk_search_tree(db, w, s, skipped),
           NoBad(L),
           \A a \in Addresses(w) : found[a] = MMDB_lookup(db, w, s, skipped, a)
    PROVE  Block(L, db, 0, Pow2[w], w) /\ Answers(found, L, w, Len(L))
<1>1. L = Walk(db, w, skipped)[w][s][0]
  BY DEF walk_search_tree
<1>2. PICK t \in Nat \ {0} : t = Pow2[w]
  BY Pow2Facts
<1>3. Aligned(0, w, w)
  <2>1. 0 = 0 * t /\ 0 + t <= t
    OBVIOUS
  <2> QED
    BY <1>2, <2>1 DEF Aligned
<1>4. w \in 0..w /\ w - w = 0 /\ 0 + t = t
  OBVIOUS
<1>5. Block(L, db, 0, t, w)
  <2>1. Block(L, db, 0, 0 + t, w)
    BY <1>1, <1>2, <1>3, <1>4, WalkBlocks
  <2> QED
    BY <1>4, <2>1
<1>6. ASSUME NEW a \in Addresses(w)
      PROVE  \/ \E j \in 1..Len(L) : In(L[j], a, w) /\ found[a] = CountryOf(L, j)
             \/ (\A j \in 1..Len(L) : ~In(L[j], a, w)) /\ found[a] = {}
  <2>1. a \in Nat /\ 0 <= a /\ a < 0 + t
    BY <1>2 DEF Addresses
  <2>2. PICK at : at = Path(db, w, s, skipped, a)
    OBVIOUS
  <2>3. OnPath(at, db, w, s, skipped, a)
    BY <2>2, PathEquations
  <2>4. Live(at[w - w], s, w, w, skipped)
    <3>1. at[0] = Child(s)
      BY <2>3 DEF OnPath
    <3>2. Child(s).type = "node" /\ Child(s).node = s
      BY DEF Child
    <3> QED
      BY <1>4, <3>1, <3>2 DEF Live
  <2>5. Decided(L, at[w], a, w)
    BY <1>1, <1>2, <1>3, <1>4, <2>1, <2>3, <2>4, WalkDecides
  <2>6. found[a] = Located(at[w])
    BY <2>2 DEF MMDB_lookup
  <2>7. \A i \in 1..Len(L) : L[i].entry.type # "bad"
    BY <1>5, NoneBad DEF Block
  <2> QED
    BY <2>5, <2>6, <2>7 DEF Decided, Located, CountryOf
<1> QED
  BY <1>2, <1>5, <1>6 DEF Answers

(* Ordered leaves that answer for the database make exact buckets. *)
LEMMA LeavesExact ==
    ASSUME NEW db, IsDatabase(db), NEW w \in Nat, NEW L, Block(L, db, 0, Pow2[w], w),
           NoBad(L), NEW found, Answers(found, L, w, Len(L)), NEW n, n = Len(L),
           NEW keys, \A c \in Country : keys[c] = Keys(Buckets(L, w)[n], c)
    PROVE  Exact(keys, w, found)
<1>1. n \in Nat /\ InOrder(L, w) /\ \A j \in 1..n : Fits(L[j].len, L[j].addr, w)
  BY DEF Block
<1> DEFINE C == Country \cup UNION {CountryOf(L, i) : i \in 1..n}
<1>2. ASSUME NEW j \in 1..n PROVE Optional(CountryOf(L, j)) /\ CountryOf(L, j) \subseteq C
  <2>1. PICK r : r = L[j].entry
    OBVIOUS
  <2>2. L[j] \in LeafOf(db) /\ r.type = "data"
    <3>1. \A i \in 1..n : L[i].entry.type # "bad"
      BY NoneBad DEF Block
    <3> QED
      BY <2>1, <3>1 DEF Block
  <2>3. r \in Recs(db)
    BY <2>1, <2>2 DEF LeafOf
  <2>4. Optional(r.country) /\ Optional(r.registered)
    BY <2>2, <2>3, RecsFacts DEF IsRecord
  <2>5. Optional(CountryOf(L, j))
    BY <2>1, <2>4 DEF CountryOf, read_country
  <2> QED
    BY <2>5
<1> HIDE DEF C
<1>3. \A j \in 1..n : /\ Fits(L[j].len, L[j].addr, w)
                      /\ Optional(CountryOf(L, j)) /\ CountryOf(L, j) \subseteq C
  BY <1>1, <1>2
<1>4. PICK B : B = Buckets(L, w)[n]
  OBVIOUS
<1>5. Filled(B, L, w, C, n)
  BY <1>1, <1>3, <1>4, BucketsFill
<1>6. Country \subseteq C
  BY DEF C
<1>7. \A c \in Country : keys[c] = Keys(B, c)
  BY <1>4
<1>8. Answers(found, L, w, n)
  OBVIOUS
<1> QED
  BY <1>1, <1>5, <1>6, <1>7, <1>8, FilledExact

(* The record from which the IPv4 tree starts *)
LEMMA StartFacts ==
    ASSUME NEW db, IsDatabase(db)
    PROVE  LET r == ipv4_start_node(db) IN
           IsRecord(r, DOMAIN db.nodes) /\ (r.type = "node" \/ r \in Recs(db))
<1> DEFINE S == Recs(db) \cup {Child(0)}
           St(r) == IF r.type = "node" THEN db.nodes[r.node].left ELSE r
           F == [d \in 1..V4Depth |-> [r \in S |-> St(r)]]
           G(g) == [d \in 0..V4Depth |-> IF d = 0 THEN Child(0) ELSE St(g[d - 1])]
           z == ZeroBits(db)
<1>0. V4Depth \in Nat
  BY GeoIpAssumption
<1>a. IsRecord(Child(0), DOMAIN db.nodes) /\ Child(0).type = "node"
  BY RecsFacts DEF IsRecord, Child
<1>1. Child(0) \in S
  OBVIOUS
<1>2. ASSUME NEW r \in S PROVE St(r) \in S
  <2>1. r.type = "node" => r.node \in DOMAIN db.nodes
    BY <1>a, RecsFacts DEF IsRecord
  <2> QED
    BY <2>1, RecsFacts
<1>b. ASSUME NEW r \in S PROVE (r.type = "node" \/ r \in Recs(db)) /\ IsRecord(r, DOMAIN db.nodes)
  BY <1>a, RecsFacts
<1> HIDE DEF St, S
<1>3. \E g : g = G(g)
  <2>1. F \in [1..V4Depth -> [S -> S]]
    BY <1>2
  <2>2. PICK g : Looped(S, Child(0), V4Depth, F, g)
    <3> HIDE DEF F
    <3> QED
      BY <1>0, <1>1, <2>1, LoopExists, Zenon
  <2>3. g \in [0..V4Depth -> S] /\ g[0] = Child(0) /\ \A i \in 1..V4Depth : g[i] = F[i][g[i - 1]]
    BY <2>2, Zenon DEF Looped
  <2>4. ASSUME NEW i \in 1..V4Depth PROVE g[i] = St(g[i - 1])
    <3>1. g[i - 1] \in S
      BY <1>0, <2>3
    <3> QED
      BY <2>3, <3>1
  <2> HIDE DEF F
  <2>5. \A i \in 0..V4Depth : g[i] = IF i = 0 THEN Child(0) ELSE St(g[i - 1])
    BY <1>0, <2>3, <2>4
  <2>6. g = [i \in 0..V4Depth |-> g[i]]
    BY <2>3
  <2>7. g = G(g)
    BY <2>5, <2>6
  <2> HIDE DEF G
  <2> QED
    BY <2>7
<1>4. z = G(z)
  <2>1. z = CHOOSE g : g = G(g)
    BY DEF ZeroBits, St
  <2> HIDE DEF G, z
  <2> QED
    BY <1>3, <2>1
<1> HIDE DEF z
<1>5. z[0] = Child(0) /\ \A i \in 1..V4Depth : z[i] = St(z[i - 1])
  <2>1. \A i \in 0..V4Depth : z[i] = G(z)[i]
    BY <1>4
  <2>2. \A i \in 0..V4Depth : z[i] = IF i = 0 THEN Child(0) ELSE St(z[i - 1])
    BY <2>1
  <2> QED
    BY <1>0, <2>2
<1>6. \A i \in 0..V4Depth : z[i] \in S
  <2> DEFINE P == {i \in 0..V4Depth : z[i] \in S}
  <2>1. 0 \in P
    BY <1>0, <1>1, <1>5
  <2>2. ASSUME NEW i \in 1..V4Depth, i - 1 \in P PROVE i \in P
    BY <1>0, <1>2, <1>5, <2>2
  <2> HIDE DEF P
  <2>3. \A i \in 0..V4Depth : i \in P
    BY <1>0, <2>1, <2>2, UpTo
  <2> QED
    BY <2>3 DEF P
<1>7. ipv4_start_node(db) = z[V4Depth] /\ V4Depth \in 0..V4Depth
  BY <1>0 DEF ipv4_start_node, z
<1>8. PICK r \in S : r = ipv4_start_node(db)
  BY <1>6, <1>7
<1> QED
  BY <1>b, <1>8

(* An import of nothing answers for a database that says nothing. *)
LEMMA NoLeaves ==
    ASSUME NEW db, NEW w \in Nat, NEW found, \A a \in Addresses(w) : found[a] = {}, NEW L, L = <<>>
    PROVE  Block(L, db, 0, Pow2[w], w) /\ Answers(found, L, w, Len(L))
<1>1. L \in Seq(LeafOf(db)) /\ Len(L) = 0 /\ 1..Len(L) = {}
  OBVIOUS
<1> QED
  BY <1>1 DEF Block, InOrder, Answers

(* The IPv4 import answers for the database, from whichever start. *)
LEMMA ImportV4 ==
    ASSUME NEW db, IsDatabase(db), NEW L, L = import_ipv4_tree(db), NoBad(L), NEW found,
           \A a \in Addresses(W4) : found[a] = Country4(db, a)
    PROVE  Block(L, db, 0, Pow2[W4], W4) /\ Answers(found, L, W4, Len(L))
<1>0. W4 \in Nat /\ 0 \in DOMAIN db.nodes
  BY GeoIpAssumption, RecsFacts
<1>1. PICK r : /\ r = ipv4_start_node(db) /\ IsRecord(r, DOMAIN db.nodes)
               /\ r.type = "node" \/ r \in Recs(db)
  BY StartFacts
<1>2. CASE db.version = 4
  <2>1. L = walk_search_tree(db, W4, 0, {})
    BY <1>2 DEF import_ipv4_tree
  <2>2. \A a \in Addresses(W4) : found[a] = MMDB_lookup(db, W4, 0, {}, a)
    BY <1>2 DEF Country4
  <2> QED
    BY <1>0, <2>1, <2>2, WalkAnswers
<1>3. CASE db.version # 4 /\ r.type = "node"
  <2>0. r.node \in DOMAIN db.nodes
    BY <1>1, <1>3 DEF IsRecord
  <2>1. L = walk_search_tree(db, W4, r.node, {})
    BY <1>1, <1>3 DEF import_ipv4_tree
  <2>2. \A a \in Addresses(W4) : found[a] = MMDB_lookup(db, W4, r.node, {}, a)
    BY <1>1, <1>3 DEF Country4
  <2>3. PICK s \in DOMAIN db.nodes : s = r.node
    BY <2>0
  <2> QED
    BY <1>0, <2>1, <2>2, <2>3, WalkAnswers
<1>4. CASE db.version # 4 /\ r.type = "empty"
  <2>1. L = <<>>
    BY <1>1, <1>4 DEF import_ipv4_tree
  <2>2. \A a \in Addresses(W4) : found[a] = {}
    BY <1>1, <1>4 DEF Country4, Located
  <2> QED
    BY <1>0, <2>1, <2>2, NoLeaves
<1>5. CASE db.version # 4 /\ r.type \notin {"node", "empty"}
  <2>1. PICK e : e = [entry |-> r, addr |-> 0, len |-> 0]
    OBVIOUS
  <2>2. L = <<e>>
    BY <1>1, <1>5, <2>1 DEF import_ipv4_tree
  <2>3. Len(L) = 1 /\ L[1] = e /\ e.entry = r /\ e.addr = 0 /\ e.len = 0
    BY <2>1, <2>2
  <2>4. e \in LeafOf(db) /\ r \in Recs(db)
    BY <1>1, <1>5, <2>1 DEF LeafOf
  <2>5. L \in Seq(LeafOf(db))
    BY <2>2, <2>4
  <2>6. r.type # "bad"
    <3>1. \A i \in 1..Len(L) : L[i].entry.type # "bad"
      BY <2>5, NoneBad
    <3> QED
      BY <2>3, <3>1
  <2>7. r.type = "data"
    BY <1>1, <1>5, <2>6 DEF IsRecord
  <2>8. PICK t \in Nat \ {0} : t = Pow2[W4]
    BY <1>0, Pow2Facts
  <2>9. Size(0, W4) = t
    <3>1. W4 - 0 = W4
      BY <1>0
    <3> QED
      BY <2>8, <3>1 DEF Size
  <2>10. Fits(0, 0, W4)
    <3>1. 0 = 0 * t /\ 0 + t <= t /\ 0 \in 0..W4
      BY <1>0
    <3> QED
      BY <2>8, <2>9, <3>1 DEF Fits
  <2>11. InOrder(L, W4)
    BY <2>3 DEF InOrder
  <2>12. \A i \in 1..Len(L) : L[i] = e
    BY <2>3
  <2>13. 0 <= 0 /\ 0 + t <= t
    OBVIOUS
  <2>14. Block(L, db, 0, Pow2[W4], W4)
    BY <2>3, <2>5, <2>7, <2>8, <2>9, <2>10, <2>11, <2>12, <2>13 DEF Block
  <2>15. ASSUME NEW a \in Addresses(W4)
         PROVE  In(L[1], a, W4) /\ found[a] = CountryOf(L, 1) /\ 1 \in 1..Len(L)
    <3>1. a \in Nat /\ 0 <= a /\ a < 0 + t
      BY <2>8 DEF Addresses
    <3>2. In(e, a, W4)
      BY <2>3, <2>9, <3>1 DEF In
    <3>3. found[a] = read_country(r)
      BY <1>1, <1>5, <2>7 DEF Country4, Located
    <3> QED
      BY <2>3, <3>2, <3>3 DEF CountryOf
  <2> QED
    BY <2>14, <2>15 DEF Answers
<1> QED
  BY <1>2, <1>3, <1>4, <1>5

(* The IPv6 import answers for it, aliases of IPv4 left out. *)
LEMMA ImportV6 ==
    ASSUME NEW db, IsDatabase(db), NEW L, L = import_ipv6_tree(db), NoBad(L), NEW found,
           \A a \in Addresses(W6) : found[a] = Country6(db, a)
    PROVE  Block(L, db, 0, Pow2[W6], W6) /\ Answers(found, L, W6, Len(L))
<1>0. W6 \in Nat /\ 0 \in DOMAIN db.nodes
  BY GeoIpAssumption, RecsFacts
<1>1. CASE db.version = 6
  <2>0. PICK skipped : skipped = ipv4_subtree(db)
    OBVIOUS
  <2>1. L = walk_search_tree(db, W6, 0, skipped)
    BY <1>1, <2>0 DEF import_ipv6_tree
  <2>2. \A a \in Addresses(W6) : found[a] = MMDB_lookup(db, W6, 0, skipped, a)
    BY <1>1, <2>0 DEF Country6
  <2>3. \A r \in skipped : r.type = "node"
    BY <2>0 DEF ipv4_subtree
  <2> QED
    BY <1>0, <2>1, <2>2, <2>3, WalkAnswers
<1>2. CASE db.version # 6
  <2>1. L = <<>>
    BY <1>2 DEF import_ipv6_tree
  <2>2. \A a \in Addresses(W6) : found[a] = {}
    BY <1>2 DEF Country6
  <2> QED
    BY <1>0, <2>1, <2>2, NoLeaves
<1> QED
  BY <1>1, <1>2

(* What an import that does not fail gives *)
LEMMA ImportExact ==
    ASSUME NEW db, IsDatabase(db), ~ImportFails(db)
    PROVE  ImportIsExact(import_maxmind_geodata(db), db)
<1>1. PICK L4, L6 : L4 = import_ipv4_tree(db) /\ L6 = import_ipv6_tree(db)
  OBVIOUS
<1>2. PICK f4, f6 : /\ f4 = [a \in Addresses(W4) |-> Country4(db, a)]
                    /\ f6 = [a \in Addresses(W6) |-> Country6(db, a)]
  OBVIOUS
<1>3. W4 \in Nat /\ W6 \in Nat
  BY GeoIpAssumption
<1>4. ~\E leaf \in ToSet(L4) \cup ToSet(L6) : leaf.entry.type = "bad"
  BY <1>1 DEF ImportFails
<1>5. NoBad(L4) /\ NoBad(L6)
  BY <1>4 DEF NoBad
<1>6. Block(L4, db, 0, Pow2[W4], W4) /\ Answers(f4, L4, W4, Len(L4))
  BY <1>1, <1>2, <1>5, ImportV4
<1>7. Block(L6, db, 0, Pow2[W6], W6) /\ Answers(f6, L6, W6, Len(L6))
  BY <1>1, <1>2, <1>5, ImportV6
<1>8. PICK B4, B6 : B4 = Buckets(L4, W4)[Len(L4)] /\ B6 = Buckets(L6, W6)[Len(L6)]
  OBVIOUS
<1>9. PICK countries : countries = import_maxmind_geodata(db)
  OBVIOUS
<1>10. countries = [c \in {p.country : p \in B4 \cup B6} |-> [ip4 |-> Keys(B4, c), ip6 |-> Keys(B6, c)]]
  BY <1>1, <1>8, <1>9 DEF import_maxmind_geodata, build_country_map, Keys
<1>11. PICK k4, k6 : /\ k4 = [c \in Country |-> IF c \in DOMAIN countries THEN countries[c].ip4 ELSE {}]
                     /\ k6 = [c \in Country |-> IF c \in DOMAIN countries THEN countries[c].ip6 ELSE {}]
  OBVIOUS
<1>12. ASSUME NEW c \in Country PROVE k4[c] = Keys(B4, c) /\ k6[c] = Keys(B6, c)
  <2>1. CASE c \in DOMAIN countries
    BY <1>10, <1>11, <2>1
  <2>2. CASE c \notin DOMAIN countries
    <3>1. \A p \in B4 \cup B6 : p.country # c
      BY <1>10, <2>2
    <3>2. Keys(B4, c) = {} /\ Keys(B6, c) = {}
      BY <3>1 DEF Keys
    <3> QED
      BY <1>11, <2>2, <3>2
  <2> QED
    BY <2>1, <2>2
<1>13. Exact(k4, W4, f4)
  <2>1. /\ IsDatabase(db) /\ W4 \in Nat /\ Block(L4, db, 0, Pow2[W4], W4) /\ NoBad(L4)
        /\ Answers(f4, L4, W4, Len(L4))
    BY <1>3, <1>5, <1>6
  <2>2. PICK n : n = Len(L4)
    OBVIOUS
  <2>3. \A c \in Country : k4[c] = Keys(Buckets(L4, W4)[n], c)
    BY <1>8, <1>12, <2>2
  <2> QED
    BY ONLY <2>1, <2>2, <2>3, LeavesExact
<1>14. Exact(k6, W6, f6)
  <2>1. /\ IsDatabase(db) /\ W6 \in Nat /\ Block(L6, db, 0, Pow2[W6], W6) /\ NoBad(L6)
        /\ Answers(f6, L6, W6, Len(L6))
    BY <1>3, <1>5, <1>7
  <2>2. PICK n : n = Len(L6)
    OBVIOUS
  <2>3. \A c \in Country : k6[c] = Keys(Buckets(L6, W6)[n], c)
    BY <1>8, <1>12, <2>2
  <2> QED
    BY ONLY <2>1, <2>2, <2>3, LeavesExact
<1> QED
  BY <1>2, <1>9, <1>11, <1>13, <1>14 DEF ImportIsExact

(* What the manager holds was read whole from the file it names. *)
GeoFollows ==
    /\ loaded \in Database /\ file \in Database /\ ~ImportFails(loaded)
    /\ geodb = import_maxmind_geodata(loaded)

(* A manager that starts has read a database whole. *)
LEMMA GeoInit == ManagerInit => GeoFollows
  BY DEF ManagerInit, ManagerStart, GeoFollows

(* A reload replaces it whole or not at all; nothing else touches it. *)
LEMMA GeoNext == GeoFollows /\ [ManagerNext]_managerVars => GeoFollows'
<1> SUFFICES ASSUME GeoFollows, [ManagerNext]_managerVars PROVE GeoFollows'
  OBVIOUS
<1>1. ASSUME NEW text \in Texts, NEW patch \in BOOLEAN, UpdateXfwConfig(text, patch) PROVE GeoFollows'
  <2>1. UNCHANGED <<geodb, loaded, file>>
    BY <1>1 DEF UpdateXfwConfig
  <2> QED
    BY <2>1 DEF GeoFollows
<1>2. CASE Reload
  <2>1. ~ImportFails(file) /\ geodb' = import_maxmind_geodata(file) /\ loaded' = file /\ file' = file
    BY <1>2 DEF Reload
  <2> QED
    BY <2>1 DEF GeoFollows
<1>3. CASE ReplaceDatabase
  <2>1. file' \in Database /\ UNCHANGED <<geodb, loaded>>
    BY <1>3 DEF ReplaceDatabase
  <2> QED
    BY <2>1 DEF GeoFollows
<1>4. CASE UNCHANGED managerVars
  BY <1>4 DEF managerVars, GeoFollows
<1> QED
  BY <1>1, <1>2, <1>3, <1>4 DEF ManagerNext

(* The networks of each country are exactly the addresses the database in  *)
(* use gives it (Country2IpMap::reload): for every address width, depth of *)
(* the IPv4 subtree and search tree, with shared nodes, aliases and        *)
(* cycles, an import that does not throw leaves prefixes that cover what   *)
(* libmaxminddb's own lookup answers, each address once, none joinable.    *)
THEOREM ImportsAreExact == ManagerSpec => []GeoExact
<1>1. GeoFollows => GeoExact
  <2> SUFFICES ASSUME GeoFollows PROVE GeoExact
    OBVIOUS
  <2>1. PICK db : db = loaded /\ IsDatabase(db) /\ ~ImportFails(db) /\ geodb = import_maxmind_geodata(db)
    BY ManagerConfigAssumption DEF GeoFollows
  <2>2. ImportIsExact(import_maxmind_geodata(db), db)
    BY <2>1, ImportExact
  <2> QED
    BY <2>1, <2>2 DEF GeoExact
<1> QED
  BY <1>1, GeoInit, GeoNext, PTL DEF ManagerSpec

(* A rule the user wrote overrides a country's (set_src_rules): whatever   *)
(* sequence of updates, patches, reloads and failed updates came before,   *)
(* an address whose longest matching network the user wrote gets the       *)
(* action of the rule the user wrote it in.                                *)
THEOREM UserRulesOverride == ManagerSpec => []UserOverridesGeo
  BY StartFollows, NextFollows, UserWins, PTL DEF ManagerSpec
=============================================================================
