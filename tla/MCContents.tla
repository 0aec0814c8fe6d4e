----------------------------- MODULE MCContents ------------------------------
(***************************************************************************)
(* What reaches the kernel's maps, for TLC, in four settings chosen at the *)
(* start: the writer of one map (ShadowHashMap), the contents of texts,    *)
(* messages and tries (ManagerConfig), the import of every small GeoIP     *)
(* database, and packets that look up a rule while the maps are switched   *)
(* (DatapathSwitch).  What a setting does not use stands still.            *)
(***************************************************************************)
EXTENDS ShadowHashMap, MCManagerConfig, DatapathSwitch

VARIABLE setting

MCInit ==
    /\ Init /\ SwitchInit
    /\ \/ setting \in {"writer", "datapath"} /\ ManagerStart(NoData) /\ pinned = {}
       \/ setting = "contents" /\ ManagerInit
       \/ setting = "database" /\ (\E db \in EveryDatabase : ManagerStart(db)) /\ pinned = {}
MCNext ==
    \/ setting = "writer" /\ Next /\ UNCHANGED <<managerVars, switchVars, setting>>
    \/ setting = "datapath" /\ SwitchNext /\ UNCHANGED <<vars, managerVars, setting>>
    \/ setting = "contents" /\ ManagerNext /\ UNCHANGED <<vars, switchVars, setting>>
    \/ setting = "database" /\ Reload /\ UNCHANGED <<vars, switchVars, setting>>
MCSpec == MCInit /\ [][MCNext]_<<vars, managerVars, switchVars, setting>>
=============================================================================
