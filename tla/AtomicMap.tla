------------------------------ MODULE AtomicMap ------------------------------
(***************************************************************************)
(* What a caller of BpfShadowHashMap::replace() (lib/bpf/shadow_hash_map.hh)*)
(* is promised, stated with no batches, no diff and no snapshot: a replace *)
(* that returns true has installed exactly the contents it was asked for   *)
(* in one step; one that returns false leaves, for every key, the binding  *)
(* it had, the requested binding, or none - never one from anywhere else,  *)
(* such as an earlier request that failed.                                 *)
(***************************************************************************)
CONSTANTS Key,      \* keys of the BPF map
          Value,    \* values of the BPF map
          Absent    \* no binding

VARIABLES contents, \* what the kernel map holds between two calls
          request,  \* the argument of the last call
          result    \* what it returned; "pending" until then

vars == <<contents, request, result>>

Contents == [Key -> Value \cup {Absent}]

(* Every binding of m is one of a, one of b, or missing. *)
Mix(m, a, b) == \A k \in Key : m[k] \in {a[k], b[k], Absent}

Init == /\ contents = [k \in Key |-> Absent]
        /\ request = contents
        /\ result = "none"

Call(n) == /\ result # "pending"
           /\ request' = n
           /\ result' = "pending"
           /\ UNCHANGED contents

ReturnTrue == /\ result = "pending"
              /\ contents' = request
              /\ result' = "ok"
              /\ UNCHANGED request

ReturnFalse == /\ result = "pending"
               /\ contents' \in Contents
               /\ Mix(contents', contents, request)
               /\ result' = "failed"
               /\ UNCHANGED request

Next == (\E n \in Contents : Call(n)) \/ ReturnTrue \/ ReturnFalse

Spec == Init /\ [][Next]_vars
=============================================================================
