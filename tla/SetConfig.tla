------------------------------ MODULE SetConfig ------------------------------
(***************************************************************************)
(* A configuration request from XfwConfigUpdater (xfw_config_updater.cc)   *)
(* through Xfw::set_config (xfw.cc): the request is turned into a new      *)
(* XfwConfig, whose named rate limits live in the numbered slots of        *)
(* XfwConfig::Ratelimits (configuration.cc), and the subsystems are then   *)
(* updated one after the other.  Rules and the kernel refer to a rate      *)
(* limit by slot number only, so a slot must not change its meaning while  *)
(* anything refers to it.                                                  *)
(*                                                                         *)
(* Every subsystem update is one step that commits or throws: MapsManager  *)
(* shows that the datapath sees it so.  A subsystem has one rule here,     *)
(* with or without a rate limit.                                           *)
(***************************************************************************)
EXTENDS Naturals, Sequences, FiniteSets

CONSTANTS Name, Rate,
          Subsystem,     \* the updates of set_config that carry rules, in order
          MaxEntries,    \* Ratelimits::MaxEntries
          Kind,          \* requests considered: subset of {"full", "patch", "reload"}
          PatchDeletesUsed,  \* whether a PATCH may delete a limit that a rule it keeps
                             \* still names; the code does not refuse it
          MaxFailures    \* bound: updates that fail in a behaviour

NoName == "NoName"
NoSlot == MaxEntries   \* no rate limit
Sub  == {Subsystem[i] : i \in 1..Len(Subsystem)}
Slot == 0..(MaxEntries - 1)

ASSUME SetConfigAssumption ==
    /\ MaxEntries \in Nat \ {0} /\ MaxFailures \in Nat
    /\ NoName \notin Name
    /\ Subsystem \in Seq(Sub)
    /\ Kind \subseteq {"full", "patch", "reload"} /\ PatchDeletesUsed \in BOOLEAN

(* XfwConfig: the slots with their free_indices_ queue, and the slot each  *)
(* rule refers to.  meant is history: the name the request gave.           *)
Entry   == [name : Name \cup {NoName}, rate : Rate \cup {0},
            state : {"Active", "Inactive", "ReadyToUse"}]
Unused  == [name |-> NoName, rate |-> 0, state |-> "ReadyToUse"]
NoRules == [s \in Sub |-> NoSlot]
NoNames == [s \in Sub |-> NoName]
EmptyConfig == [entries |-> [i \in Slot |-> Unused],
                free    |-> [j \in 1..MaxEntries |-> j - 1],
                rules   |-> NoRules,
                meant   |-> NoNames]

VARIABLES
    present, config,   \* Xfw::config_ (std::optional)
    named_rates,       \* kernel: XfwFilterCfg::named_rates
    writtenFor,        \* history: the name each of them was last written for
    rules, meant,      \* kernel: the slot each live rule refers to; its name
    rules_active,      \* kernel: filtration is on
    pc, new, at,       \* the request in progress: its XfwConfig, next subsystem
    result,            \* the kind of the request in progress, or how the last one ended
    failures

kernelVars == <<named_rates, writtenFor, rules, meant, rules_active>>
vars == <<present, config, kernelVars, pc, new, at, result, failures>>

Init == /\ present = FALSE
        /\ config = EmptyConfig
        /\ named_rates = [i \in Slot |-> 0]
        /\ writtenFor = [i \in Slot |-> NoName]
        /\ rules = NoRules
        /\ meant = NoNames
        /\ rules_active = FALSE
        /\ pc = "idle"
        /\ new = EmptyConfig
        /\ at = 1
        /\ result = "none"
        /\ failures = 0

-----------------------------------------------------------------------------
(* Ratelimits: name_to_index_ holds the slots that are not ReadyToUse. *)
Find(c, n) == {i \in Slot : c.entries[i].state # "ReadyToUse" /\ c.entries[i].name = n}
ActiveIndexAnyState(c, n) == Find(c, n)
ActiveIndex(c, n) == {i \in Find(c, n) : c.entries[i].state = "Active"}

upsert(c, n, r) ==
    IF Find(c, n) # {}
    THEN LET i == CHOOSE x \in Find(c, n) : TRUE IN
         [c EXCEPT !.entries[i] = [name |-> n, rate |-> r, state |-> "Active"]]
    ELSE [c EXCEPT !.entries[Head(c.free)] = [name |-> n, rate |-> r, state |-> "Active"],
                   !.free = Tail(@)]

inactivate(c, n) ==
    [c EXCEPT !.entries = [i \in Slot |->
        IF i \in Find(c, n) THEN [@[i] EXCEPT !.state = "Inactive"] ELSE @[i]]]

inactivate_all(c) ==
    [c EXCEPT !.entries = [i \in Slot |->
        IF @[i].state = "Active" THEN [@[i] EXCEPT !.state = "Inactive"] ELSE @[i]]]

(* free_inactive appends the freed slots in ascending order. *)
Freed(c) == {i \in Slot : c.entries[i].state = "Inactive"}
Ascending(S) == CHOOSE q \in [1..Cardinality(S) -> S] :
                   \A j, k \in 1..Cardinality(S) : j < k => q[j] < q[k]

free_inactive(c) ==
    [c EXCEPT !.entries = [i \in Slot |->
                  IF i \in Freed(c) THEN [@[i] EXCEPT !.state = "ReadyToUse"] ELSE @[i]],
              !.free = @ \o Ascending(Freed(c))]

-----------------------------------------------------------------------------
(* The XfwConfigUpdater constructor: what the new configuration starts as. *)
StartFromEmpty(kind) == IF kind = "patch" THEN config ELSE EmptyConfig

StartFrom(kind) ==
    IF ~present \/ kind # "full" THEN config
    ELSE [inactivate_all(config) EXCEPT !.rules = NoRules, !.meant = NoNames]

Begin(kind) ==
    /\ pc = "idle"
    /\ kind = "reload" => present
    /\ new' = StartFrom(kind)
    /\ pc' = IF kind = "reload" THEN "set_ratelimits" ELSE "prepare_ratelimits"
    /\ at' = 1
    /\ result' = kind
    /\ UNCHANGED <<present, config, kernelVars, failures>>

(* prepare_ratelimits: an entry of the message is an upsert or a DELETE. *)
Upsert(n, r) ==
    /\ pc = "prepare_ratelimits"
    /\ Find(new, n) # {} \/ new.free # <<>>
    /\ new' = upsert(new, n, r)
    /\ UNCHANGED <<present, config, kernelVars, pc, at, result, failures>>

Delete(n) ==
    /\ pc = "prepare_ratelimits"
    /\ result = "patch" /\ ~PatchDeletesUsed => \A s \in Sub : new.rules[s] \notin Find(new, n)
    /\ Find(new, n) # {}
    /\ new' = inactivate(new, n)
    /\ UNCHANGED <<present, config, kernelVars, pc, at, result, failures>>

RatelimitsPrepared ==
    /\ pc = "prepare_ratelimits"
    /\ pc' = "prepare_rules"
    /\ UNCHANGED <<present, config, kernelVars, new, at, result, failures>>

(* prepare_net_rules and the like; get_active_index finds active names only *)
SetRule(s, n) ==
    /\ pc = "prepare_rules"
    /\ \E i \in ActiveIndex(new, n) :
         new' = [new EXCEPT !.rules[s] = i, !.meant[s] = n]
    /\ UNCHANGED <<present, config, kernelVars, pc, at, result, failures>>

ClearRule(s) ==
    /\ pc = "prepare_rules"
    /\ new' = [new EXCEPT !.rules[s] = NoSlot, !.meant[s] = NoName]
    /\ UNCHANGED <<present, config, kernelVars, pc, at, result, failures>>

RulesPrepared ==
    /\ pc = "prepare_rules"
    /\ pc' = "set_ratelimits"
    /\ UNCHANGED <<present, config, kernelVars, new, at, result, failures>>

(* A message the updater rejects, or a subsystem that cannot be updated: an *)
(* exception leaves what earlier subsystems have committed in the kernel.  *)
Abort ==
    /\ pc # "idle"
    /\ failures < MaxFailures
    /\ failures' = failures + 1
    /\ pc' = "idle"
    /\ new' = EmptyConfig
    /\ at' = 1
    /\ result' = "failed"
    /\ UNCHANGED <<present, config, kernelVars>>

(* set_ratelimits writes the slots of active limits only. *)
WrittenSlots(c) == {i \in Slot : c.entries[i].state = "Active"}

SetRatelimits ==
    /\ pc = "set_ratelimits"
    /\ named_rates' = [i \in Slot |-> IF i \in WrittenSlots(new)
                                       THEN new.entries[i].rate ELSE named_rates[i]]
    /\ writtenFor' = [i \in Slot |-> IF i \in WrittenSlots(new)
                                     THEN new.entries[i].name ELSE writtenFor[i]]
    /\ pc' = "subsystems"
    /\ UNCHANGED <<present, config, rules, meant, rules_active, new, at, result, failures>>

(* set_src_rules, set_icmp_rules, set_dst_rules, set_tcp_flag_rule ... *)
UpdateSubsystem ==
    /\ pc = "subsystems"
    /\ at <= Len(Subsystem)
    /\ rules' = [rules EXCEPT ![Subsystem[at]] = new.rules[Subsystem[at]]]
    /\ meant' = [meant EXCEPT ![Subsystem[at]] = new.meant[Subsystem[at]]]
    /\ at' = at + 1
    /\ UNCHANGED <<present, config, named_rates, writtenFor, rules_active, pc, new, result, failures>>

FinishKeepsOld ==
    /\ pc = "subsystems"
    /\ at > Len(Subsystem)
    /\ rules_active' = TRUE
    /\ present' = TRUE
    /\ config' = free_inactive(config)
    /\ pc' = "idle"
    /\ new' = EmptyConfig
    /\ at' = 1
    /\ result' = "ok"
    /\ UNCHANGED <<named_rates, writtenFor, rules, meant, failures>>

(* turn_filtration_on the first time, config_ = std::move(config), and     *)
(* free_inactive                                                           *)
Finish ==
    /\ pc = "subsystems"
    /\ at > Len(Subsystem)
    /\ rules_active' = TRUE
    /\ present' = TRUE
    /\ config' = free_inactive(new)
    /\ pc' = "idle"
    /\ new' = EmptyConfig
    /\ at' = 1
    /\ result' = "ok"
    /\ UNCHANGED <<named_rates, writtenFor, rules, meant, failures>>

Next == \/ \E kind \in Kind : Begin(kind)
        \/ \E n \in Name, r \in Rate : Upsert(n, r)
        \/ \E n \in Name : Delete(n)
        \/ RatelimitsPrepared
        \/ \E s \in Sub, n \in Name : SetRule(s, n)
        \/ \E s \in Sub : ClearRule(s)
        \/ RulesPrepared \/ Abort
        \/ SetRatelimits \/ UpdateSubsystem \/ Finish

Spec == Init /\ [][Next]_vars

-----------------------------------------------------------------------------
(* Properties *)

(* The shape of configuration and kernel state, and the bookkeeping of the *)
(* slots: free_indices_ lists each ReadyToUse slot once and no other.      *)
ConfigOK(c) ==
    /\ c.entries \in [Slot -> Entry]
    /\ \A j \in 1..Len(c.free) : c.entries[c.free[j]].state = "ReadyToUse"
    /\ \A i \in Slot : c.entries[i].state = "ReadyToUse" =>
          \E j \in 1..Len(c.free) : c.free[j] = i
    /\ \A j, k \in 1..Len(c.free) : c.free[j] = c.free[k] => j = k
    /\ c.rules \in [Sub -> Slot \cup {NoSlot}]
    /\ c.meant \in [Sub -> Name \cup {NoName}]
TypeOK ==
    /\ ConfigOK(config) /\ ConfigOK(new)
    /\ named_rates \in [Slot -> Rate \cup {0}]
    /\ rules \in [Sub -> Slot \cup {NoSlot}]
    /\ at \in 1..(Len(Subsystem) + 1)

(* "At this point all kernel updates completed successfully" (xfw.cc:195): *)
(* after an update that succeeds the kernel enforces the stored            *)
(* configuration, whatever earlier failures left behind.                   *)
KernelMatchesConfig ==
    result = "ok" =>
        /\ rules_active
        /\ rules = config.rules
        /\ \A i \in Slot : config.entries[i].state = "Active" =>
              named_rates[i] = config.entries[i].rate

(* "Cleanup must happen only AFTER all subsystems successfully switched to *)
(* the new ratelimit configuration.  Otherwise partially updated           *)
(* subsystems may still reference old ratelimit entries" (xfw.cc:203-205): *)
(* no rule of the stored configuration refers to a slot that is free for   *)
(* the next name.  With PatchDeletesUsed it does not hold: free_inactive   *)
(* frees the slot of a limit a PATCH deleted under a rule.                 *)
NoDanglingRule ==
    \A s \in Sub : config.rules[s] # NoSlot =>
        /\ config.entries[config.rules[s]].state = "Active"
        /\ config.entries[config.rules[s]].name = config.meant[s]

(* "Allowing early reuse would break consistency between rule sets and     *)
(* rate limit state" (maps_manager.hh:112-113): at every moment of an      *)
(* update, the rate a live rule is held to was written for the name its    *)
(* configuration gave.  Until an update fails, that is: afterwards config_ *)
(* does not know of the slots the subsystems already updated refer to, and *)
(* the next update may give them to other names.                           *)
EnforcesItsName ==
    (rules_active /\ failures = 0) =>
        \A s \in Sub : rules[s] # NoSlot => writtenFor[rules[s]] = meant[s]
=============================================================================
