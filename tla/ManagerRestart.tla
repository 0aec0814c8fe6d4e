--------------------------- MODULE ManagerRestart ---------------------------
(***************************************************************************)
(* MapsManager and `xfwctl --restart-mgr`: the manager is stopped and      *)
(* started while the BPF programs stay attached and their maps pinned.  A  *)
(* new process opens the pinned maps (map_base.hh) but BpfShadowHashMap    *)
(* starts with an empty snapshot and IndexPool with every index free.      *)
(***************************************************************************)
EXTENDS MapsManager

(* restart-mgr: stop_mgr waits for the process; its memory is all that is  *)
(* lost.  Only a restart between two requests is modelled.                 *)
Restart ==
    /\ pc = "idle"
    /\ snap' = [d \in Side |-> [k \in Key |-> NoRule]]
    /\ resync' = {}
    /\ free' = [b \in Bucket |-> 1]
    /\ UNCHANGED <<kernelVars, used, callVars>>

RestartSpec == Init /\ [][Next \/ Restart]_vars
=============================================================================
