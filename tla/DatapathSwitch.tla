--------------------------- MODULE DatapathSwitch ---------------------------
(***************************************************************************)
(* What a packet sees of an update.  xfw_dst_filter (bpf/dst.h) reads the  *)
(* selector amap_dst, looks its key up in that copy of the rule map and,   *)
(* when there is no rule, reads the default action; all three reads go     *)
(* through ctx->cfg, a pointer to the live XfwFilterCfg element.  Meanwhile *)
(* set_dst_rules (maps_manager.cc) rewrites the other copy key by key and  *)
(* publishes selector and defaults with one bpf_map_update_elem.  Whether  *)
(* the kernel's copy of the element is seen in one piece is external       *)
(* (AtomicUpload); nothing makes the manager wait for packets in flight.   *)
(***************************************************************************)
EXTENDS Integers

CONSTANTS Flow,
          CPU,
          ExplicitDefault,  \* the configured default action, or "none"
          AtomicUpload,     \* whether the element is copied in one piece
          Grace             \* whether updates are far apart: see StartUpdate

Action == {"allow", "block"}
RuleSet == [Flow -> Action \cup {"none"}]
NoRules == [k \in Flow |-> "none"]

ASSUME DatapathSwitchAssumption ==
    /\ ExplicitDefault \in Action \cup {"none"}
    /\ AtomicUpload \in BOOLEAN /\ Grace \in BOOLEAN

(* set_dst_rules: rules.empty() ? XFW_ACTION_ALLOW : XFW_ACTION_BLOCK, and *)
(* what a configuration means for a key                                    *)
DefaultOf(r) == IF ExplicitDefault # "none" THEN ExplicitDefault
                ELSE IF r = NoRules THEN "allow" ELSE "block"
VerdictOf(r, k) == IF r[k] # "none" THEN r[k] ELSE DefaultOf(r)

VARIABLES
    amap_dst, default,   \* the XfwFilterCfg element
    map,                 \* the two copies of the rule map
    mpc, target, fields, \* manager: phase, new rules, fields still to copy
    ppc, key, chosen,     \* packet on each CPU: phase, its key, selector read
    verdict,             \* its verdict
    seen                 \* history: the rule sets in force during its life

switchVars == <<amap_dst, default, map, mpc, target, fields, ppc, key, chosen, verdict, seen>>
packetVars  == <<ppc, key, chosen, verdict, seen>>
updateVars == <<mpc, target, fields>>
elementVars  == <<amap_dst, default, map>>

SwitchInit ==
        /\ amap_dst = 0
        /\ default = DefaultOf(NoRules)
        /\ map = [i \in 0..1 |-> NoRules]
        /\ mpc = "idle"
        /\ target = NoRules
        /\ fields = {}
        /\ ppc = [c \in CPU |-> "idle"]
        /\ key \in [CPU -> Flow]
        /\ chosen = [c \in CPU |-> 0]
        /\ verdict = [c \in CPU |-> "none"]
        /\ seen = [c \in CPU |-> {}]

InForce == map[amap_dst]
inactive == 1 - amap_dst

-----------------------------------------------------------------------------
(* Manager *)

(* A new request.  With Grace a packet that still holds the selector of    *)
(* the other copy has finished: programs run for microseconds, requests    *)
(* come from an operator.                                                  *)
StartUpdate(r) ==
    /\ mpc = "idle"
    /\ r # target
    /\ Grace => \A c \in CPU : ppc[c] = "lookup" => chosen[c] = amap_dst
    /\ mpc' = "write"
    /\ target' = r
    /\ UNCHANGED <<elementVars, fields, packetVars>>

(* replace() on the inactive copy, deletes before upserts *)
Missing(side) == {k \in Flow : map[side][k] # "none" /\ target[k] = "none"}

WriteKey(k) ==
    /\ mpc = "write"
    /\ map[inactive][k] # target[k]
    /\ Missing(inactive) # {} => k \in Missing(inactive)
    /\ map' = [map EXCEPT ![inactive][k] = target[k]]
    /\ UNCHANGED <<amap_dst, default, updateVars, packetVars>>

(* upload_config_changes begins: from now on either rule set is in force. *)
StartPublish ==
    /\ mpc = "write"
    /\ map[inactive] = target
    /\ mpc' = "publish"
    /\ fields' = {"amap_dst", "default"}
    /\ seen' = [c \in CPU |-> IF ppc[c] = "idle" THEN {} ELSE seen[c] \cup {target}]
    /\ UNCHANGED <<elementVars, target, ppc, key, chosen, verdict>>

CopyFields(F) ==
    /\ mpc = "publish"
    /\ F # {} /\ F \subseteq fields
    /\ AtomicUpload => F = fields
    /\ fields' = fields \ F
    /\ amap_dst' = IF "amap_dst" \in F THEN inactive ELSE amap_dst
    /\ default' = IF "default" \in F THEN DefaultOf(target) ELSE default
    /\ mpc' = IF fields' = {} THEN "idle" ELSE "publish"
    /\ UNCHANGED <<map, target, packetVars>>

-----------------------------------------------------------------------------
(* A packet *)

Receive(c, k) ==
    /\ ppc[c] = "idle"
    /\ ppc' = [ppc EXCEPT ![c] = "select"]
    /\ key' = [key EXCEPT ![c] = k]
    /\ verdict' = [verdict EXCEPT ![c] = "none"]
    /\ seen' = [seen EXCEPT ![c] = IF mpc = "publish" THEN {map[0], map[1]} ELSE {InForce}]
    /\ UNCHANGED <<elementVars, updateVars, chosen>>

SELECT_SHADOW_MAP_other(i) == 1 - i
SELECT_SHADOW_MAP(i) == i

Select(c) ==
    /\ ppc[c] = "select"
    /\ chosen' = [chosen EXCEPT ![c] = SELECT_SHADOW_MAP(amap_dst)]
    /\ ppc' = [ppc EXCEPT ![c] = "lookup"]
    /\ UNCHANGED <<elementVars, updateVars, key, verdict, seen>>

(* bpf_map_lookup_elem: a rule decides, no rule leaves it to the default *)
LookupRule(c) ==
    /\ ppc[c] = "lookup"
    /\ LET r == map[chosen[c]][key[c]] IN
         /\ verdict' = [verdict EXCEPT ![c] = r]
         /\ ppc' = [ppc EXCEPT ![c] = IF r = "none" THEN "default" ELSE "done"]
    /\ UNCHANGED <<elementVars, updateVars, key, chosen, seen>>

ReadDefault(c) ==
    /\ ppc[c] = "default"
    /\ verdict' = [verdict EXCEPT ![c] = default]
    /\ ppc' = [ppc EXCEPT ![c] = "done"]
    /\ UNCHANGED <<elementVars, updateVars, key, chosen, seen>>

Finish(c) ==
    /\ ppc[c] = "done"
    /\ ppc' = [ppc EXCEPT ![c] = "idle"]
    /\ verdict' = [verdict EXCEPT ![c] = "none"]
    /\ seen' = [seen EXCEPT ![c] = {}]
    /\ UNCHANGED <<elementVars, updateVars, key, chosen>>

SwitchNext ==
        \/ \E r \in RuleSet : StartUpdate(r)
        \/ \E k \in Flow : WriteKey(k)
        \/ StartPublish
        \/ \E F \in SUBSET {"amap_dst", "default"} : CopyFields(F)
        \/ \E c \in CPU, k \in Flow : Receive(c, k)
        \/ \E c \in CPU : Select(c) \/ LookupRule(c) \/ ReadDefault(c) \/ Finish(c)

SwitchSpec == SwitchInit /\ [][SwitchNext]_switchVars

-----------------------------------------------------------------------------
(* Properties *)

(* "consistent view during updates" (maps_manager.hh:47) and "the datapath *)
(* keeps reading the currently selected copy while userspace rewrites the  *)
(* other one" (shadow_map_tools.h:7-9): the verdict on a packet is that of *)
(* one configuration that was in force while it was processed, never a mix *)
(* of two or of a half written one.                                        *)
ConsistentView ==
    \A c \in CPU : ppc[c] = "done" => \E r \in seen[c] : verdict[c] = VerdictOf(r, key[c])
=============================================================================
