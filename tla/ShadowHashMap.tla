---------------------------- MODULE ShadowHashMap ----------------------------
(***************************************************************************)
(* BpfShadowHashMap (lib/bpf/shadow_hash_map.hh): the manager's incremental *)
(* writer of one BPF hash map.  replace(new_state) diffs new_state against *)
(* a userspace snapshot and sends the difference to the kernel in batches, *)
(* deletes first.  A batch may fail half way; the failure is not repaired  *)
(* but remembered, and the next replace() rebuilds the map from scratch.   *)
(*                                                                         *)
(* The kernel map itself is external: a batch may fail at any time, after  *)
(* any part of it was applied, and must fail if it would take the map over *)
(* its max_entries.                                                        *)
(***************************************************************************)
EXTENDS Naturals, FiniteSets

CONSTANTS Key, Value, Absent,
          BatchSize,   \* BpfShadowHashMap::BatchSize
          MaxEntries   \* max_entries of the BPF map

ASSUME ShadowAssumption == /\ IsFiniteSet(Key)
                           /\ Absent \notin Value
                           /\ BatchSize \in Nat \ {0}
                           /\ MaxEntries \in Nat

VARIABLES
    kernel,          \* the BPF map
    snapshot,        \* snapshot_
    resync_required, \* resync_required_
    pc,              \* the phase of the replace() call in progress
    new_state,       \* its argument
    todo,            \* keys the phase still has to send
    before,          \* history: the kernel map when replace() was called
    result           \* what the last replace() returned

vars == <<kernel, snapshot, resync_required, pc, new_state, todo, before, result>>

Contents == [Key -> Value \cup {Absent}]
Dom(m)   == {k \in Key : m[k] # Absent}
Empty    == [k \in Key |-> Absent]

(* The callers check the size of a rule set before they call replace(). *)
Requests == {n \in Contents : Cardinality(Dom(n)) <= MaxEntries}

Init == /\ kernel = Empty
        /\ snapshot = Empty
        /\ resync_required = FALSE
        /\ pc = "idle"
        /\ new_state = Empty
        /\ todo = {}
        /\ before = Empty
        /\ result = "none"

-----------------------------------------------------------------------------
(* build_diff *)

DeleteKeys(old, new) == {k \in Dom(old) : new[k] = Absent}

UpsertKeys(old, new) == {k \in Dom(new) : new[k] # old[k]}

(* bpf_map_update_batch and bpf_map_delete_batch, applied to the keys in s *)
Erased(m, s)    == [k \in Key |-> IF k \in s THEN Absent ELSE m[k]]
Stored(m, n, s) == [k \in Key |-> IF k \in s THEN n[k] ELSE m[k]]

(* The next min(BatchSize, keys.size() - i) keys, in hash-table order. *)
Batches(s) == LET size == IF Cardinality(s) < BatchSize THEN Cardinality(s)
                                                       ELSE BatchSize
              IN  {b \in SUBSET s : Cardinality(b) = size}

-----------------------------------------------------------------------------
(* replace(): with no failure to repair, start with the deletes of the     *)
(* diff; otherwise full_resync() starts by clearing the kernel map.        *)
ReplaceUpsertFirst(n) ==
    /\ pc = "idle"
    /\ new_state' = n
    /\ before' = kernel
    /\ pc' = IF resync_required THEN "clear" ELSE "upsert"
    /\ todo' = IF resync_required THEN {} ELSE UpsertKeys(snapshot, n)
    /\ UNCHANGED <<kernel, snapshot, resync_required, result>>

Replace(n) ==
    /\ pc = "idle"
    /\ new_state' = n
    /\ before' = kernel
    /\ pc' = IF resync_required THEN "clear" ELSE "delete"
    /\ todo' = IF resync_required THEN {} ELSE DeleteKeys(snapshot, n)
    /\ UNCHANGED <<kernel, snapshot, resync_required, result>>

(* return false: the repair is left to the next call *)
GiveUpForgets ==
    /\ UNCHANGED resync_required
    /\ pc' = "idle"
    /\ todo' = {}
    /\ result' = "failed"

GiveUpReportsSuccess ==
    /\ resync_required' = TRUE
    /\ pc' = "idle"
    /\ todo' = {}
    /\ result' = "ok"

GiveUp ==
    /\ resync_required' = TRUE
    /\ pc' = "idle"
    /\ todo' = {}
    /\ result' = "failed"

(* apply_delete *)
DeleteBatch == \E b \in Batches(todo) :
    /\ pc = "delete"
    /\ todo # {}
    /\ kernel' = Erased(kernel, b)
    /\ todo' = todo \ b
    /\ UNCHANGED <<snapshot, resync_required, pc, new_state, before, result>>

DeleteBatchFails == \E b \in Batches(todo) : \E part \in SUBSET b :
    /\ pc = "delete"
    /\ todo # {}
    /\ kernel' = Erased(kernel, part)
    /\ GiveUp
    /\ UNCHANGED <<snapshot, new_state, before>>

DeletesDone ==
    /\ pc = "delete"
    /\ todo = {}
    /\ pc' = "upsert"
    /\ todo' = UpsertKeys(snapshot, new_state)
    /\ UNCHANGED <<kernel, snapshot, resync_required, new_state, before, result>>

(* full_resync: BpfHashMap::clear drains the map batch by batch *)
ClearBatch == \E b \in Batches(Dom(kernel)) :
    /\ pc = "clear"
    /\ b # {}
    /\ kernel' = Erased(kernel, b)
    /\ UNCHANGED <<snapshot, resync_required, pc, new_state, todo, before, result>>

ClearFails ==
    /\ pc = "clear"
    /\ pc' = "idle"
    /\ result' = "failed"
    /\ UNCHANGED <<kernel, snapshot, resync_required, new_state, todo, before>>

ClearDone ==
    /\ pc = "clear"
    /\ Dom(kernel) = {}
    /\ pc' = "upsert"
    /\ todo' = Dom(new_state)
    /\ UNCHANGED <<kernel, snapshot, resync_required, new_state, before, result>>

(* apply_upsert, shared by the diff and by full_resync *)
UpsertBatch == \E b \in Batches(todo) :
    /\ pc = "upsert"
    /\ todo # {}
    /\ Cardinality(Dom(kernel) \cup b) <= MaxEntries
    /\ kernel' = Stored(kernel, new_state, b)
    /\ todo' = todo \ b
    /\ UNCHANGED <<snapshot, resync_required, pc, new_state, before, result>>

UpsertBatchFails == \E b \in Batches(todo) : \E part \in SUBSET b :
    /\ pc = "upsert"
    /\ todo # {}
    /\ Cardinality(Dom(kernel) \cup part) <= MaxEntries
    /\ kernel' = Stored(kernel, new_state, part)
    /\ GiveUp
    /\ UNCHANGED <<snapshot, new_state, before>>

(* Everything was sent: new_state becomes the snapshot, return true. *)
Installed ==
    /\ pc = "upsert"
    /\ todo = {}
    /\ snapshot' = new_state
    /\ resync_required' = FALSE
    /\ pc' = "idle"
    /\ result' = "ok"
    /\ UNCHANGED <<kernel, new_state, todo, before>>

Next == \/ \E n \in Requests : Replace(n)
        \/ DeleteBatch \/ DeleteBatchFails \/ DeletesDone
        \/ ClearBatch  \/ ClearFails       \/ ClearDone
        \/ UpsertBatch \/ UpsertBatchFails \/ Installed

Spec == Init /\ [][Next]_vars

-----------------------------------------------------------------------------
(* Properties *)

(* The shape of the state: the snapshot and the kernel map stay total over *)
(* the keys through every diff, failure and rebuild of replace().          *)
TypeOK == /\ kernel \in Contents
          /\ snapshot \in Contents
          /\ resync_required \in BOOLEAN
          /\ pc \in {"idle", "delete", "clear", "upsert"}
          /\ new_state \in Contents
          /\ todo \in SUBSET Key
          /\ before \in Contents
          /\ result \in {"none", "ok", "failed"}

(* "snapshot_ is authoritative only after successful synchronization"      *)
(* (shadow_hash_map.hh:21): whenever replace() would trust the snapshot to *)
(* compute a diff, the kernel map holds exactly the snapshot.              *)
SnapshotAuthoritative ==
    (pc = "idle" /\ ~resync_required) => kernel = snapshot

(* "ensures we do not temporarily exceed map capacity" (:105-108): every   *)
(* key the upsert phase still has to send finds room in the kernel map, so *)
(* replacing one legal rule set by another never fails for lack of space,  *)
(* whatever failures came before.                                          *)
CapacityRespected ==
    pc = "upsert" => Cardinality(Dom(kernel) \cup todo) <= MaxEntries

(* A caller sees replace() as the atomic operation of AtomicMap: during a  *)
(* call the map counts as what it held before, at its return as what the   *)
(* kernel holds then.                                                      *)
Atomic == INSTANCE AtomicMap WITH
    contents <- IF pc = "idle" THEN kernel ELSE before,
    request  <- new_state,
    result   <- IF pc = "idle" THEN result ELSE "pending"

ImplementsAtomicMap == Atomic!Spec
=============================================================================
