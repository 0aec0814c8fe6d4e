------------------------- MODULE ConcurrentRequests -------------------------
(***************************************************************************)
(* Two gRPC requests at once.  TMServer builds a synchronous grpc::Server  *)
(* (manager/server.cc), which runs handlers on a pool of threads;          *)
(* ManagerGrpcService::send updates the one Xfw object without a lock, so  *)
(* two set_*_rules calls of MapsManager share kernel state, snapshots and  *)
(* the index pool.  Every step of a call is taken as atomic: what goes     *)
(* wrong here goes wrong even if no single access is a data race.          *)
(***************************************************************************)
EXTENDS Integers, FiniteSets

CONSTANTS IcmpKey, DstKey, Default, Flag, DefaultGroup, Named, NoName,
          Bucket, NoBucket, MAX_ICMP_RULES, MAX_DST_RULES

VARIABLES amap, slots, kmap, snap, resync, free, used,
          pc1, grp1, cfg1, new1, todo1, allocated1, released1, err1,
          pc2, grp2, cfg2, new2, todo2, allocated2, released2, err2

call1 == <<pc1, grp1, cfg1, new1, todo1, allocated1, released1, err1>>
call2 == <<pc2, grp2, cfg2, new2, todo2, allocated2, released2, err2>>
vars  == <<amap, slots, kmap, snap, resync, free, used, call1, call2>>

(* The same code, each request with locals of its own *)
R1 == INSTANCE MapsManager WITH
        pc <- pc1, grp <- grp1, cfg <- cfg1, new <- new1, todo <- todo1,
        allocated <- allocated1, released <- released1, err <- err1
R2 == INSTANCE MapsManager WITH
        pc <- pc2, grp <- grp2, cfg <- cfg2, new <- new2, todo <- todo2,
        allocated <- allocated2, released <- released2, err <- err2

Init == R1!Init /\ R2!Init

Next == \/ R1!Call /\ UNCHANGED call2
        \/ R2!Call /\ UNCHANGED call1

Spec == Init /\ [][Next]_vars

(* "This class is not thread-safe.  It assumes transactions are applied    *)
(* sequentially" (index_pool.hh:33-34), for "the server is single-threaded *)
(* for now" (server.hh:24): a live rule's bucket is not in the pool and no *)
(* other live rule has it.                                                 *)
OneOwner == R1!OneOwner
=============================================================================
