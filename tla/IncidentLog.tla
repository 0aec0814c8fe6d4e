----------------------------- MODULE IncidentLog -----------------------------
(***************************************************************************)
(* The incident log of one CPU: register_incident (bpf/incident_log.h)     *)
(* counts dropped packets per source address in the CPU's active map;      *)
(* IncidentLogProcessor (logger/incident_log_plugin) swaps the active map  *)
(* for the inactive one on a timer, on an overflow notification or when    *)
(* stopped, and hands the entries of the retired map to the ClickHouse     *)
(* writer.                                                                 *)
(*                                                                         *)
(* External: the kernel returns from an update of the array of maps only   *)
(* when no program still uses the map that was replaced.  swap_ts and      *)
(* last_swap_ts_ are read from one monotonic clock and only ever compared, *)
(* so the model keeps the outcome of the comparison.                       *)
(***************************************************************************)
EXTENDS Naturals, FiniteSets, FiniteSetsExt

CONSTANTS Addr,
          MAX_INCIDENTS_PER_CPU,
          BatchSize,      \* batch_size_
          LateStamp,      \* whether the uninitialized last_swap_ts_ may be in the future
          MaxIncidents,   \* bound: incidents of a behaviour
          MaxFailures     \* bound: failed map operations of a behaviour

INCIDENT_FLUSH_THRESHOLD == (MAX_INCIDENTS_PER_CPU * 4) \div 5

ASSUME IncidentLogAssumption ==
    /\ IsFiniteSet(Addr) /\ Addr # {}
    /\ MAX_INCIDENTS_PER_CPU \in Nat \ {0} /\ BatchSize \in Nat \ {0}
    /\ LateStamp \subseteq BOOLEAN
    /\ MaxIncidents \in Nat /\ MaxFailures \in Nat

NoMap == 2
Side  == {0, 1}

VARIABLES
    map,          \* the CPU's two maps: packets per address, 0 for no entry
    slot,         \* the CPU's element of MAP_LOG_ACTIVE_FD
    drop_cnt,     \* IncidentPerCpuNotifyInfo
    notified,     \* swap_ts > last_swap_ts_
    deaf,         \* last_swap_ts_ still has its uninitialized, large value
    info,         \* IncidentPerCpuBpfOnlyInfo: last_used_map_hint, insert_cnt
    bpf,          \* register_incident in progress: pc, addr, incident_map
    upc, call,    \* processor: phase, and the call it is in
    active,       \* active_map_
    timer,        \* clock::now() >= next_swap_
    stop_called,
    exported,     \* packets handed to append_event
    registered,   \* history: packets register_incident was called for
    failures

bpfVars  == <<info, bpf, registered>>
userVars == <<upc, call, active, timer, stop_called, exported, deaf, failures>>
vars == <<map, slot, drop_cnt, notified, bpfVars, userVars>>

Idle == [pc |-> "idle", addr |-> CHOOSE a \in Addr : TRUE, im |-> NoMap]

Init == /\ map = [i \in Side |-> [a \in Addr |-> 0]]
        /\ slot = NoMap
        /\ drop_cnt = 0
        /\ notified = FALSE
        /\ deaf \in LateStamp
        /\ info = [hint |-> NoMap, cnt |-> 0]
        /\ bpf = Idle
        /\ upc = "new" /\ call = "none"
        /\ active = 0
        /\ timer = FALSE
        /\ stop_called = FALSE
        /\ exported = 0
        /\ registered = 0
        /\ failures = 0

Entries(i) == {a \in Addr : map[i][a] > 0}
Packets(i, S) == Cardinality(UNION {{a} \X (1..map[i][a]) : a \in S})

-----------------------------------------------------------------------------
(* register_incident *)

(* push_swap_event: userspace will see it unless last_swap_ts_ is later *)
Push == notified' = ~deaf

Register(a) ==
    /\ bpf.pc = "idle"
    /\ registered < MaxIncidents
    /\ registered' = registered + 1
    /\ IF slot = NoMap
       THEN drop_cnt' = drop_cnt + 1 /\ UNCHANGED bpf
       ELSE bpf' = [pc |-> "lookup", addr |-> a, im |-> slot] /\ UNCHANGED drop_cnt
    /\ UNCHANGED <<map, slot, notified, info, userVars>>

Lookup ==
    /\ bpf.pc = "lookup"
    /\ bpf' = [bpf EXCEPT !.pc = IF bpf.addr \in Entries(bpf.im) THEN "count" ELSE "insert"]
    /\ UNCHANGED <<map, slot, drop_cnt, notified, info, registered, userVars>>

(* The pointer still points somewhere if the entry was deleted meanwhile. *)
Count ==
    /\ bpf.pc = "count"
    /\ map' = IF bpf.addr \in Entries(bpf.im)
              THEN [map EXCEPT ![bpf.im][bpf.addr] = @ + 1] ELSE map
    /\ bpf' = Idle
    /\ UNCHANGED <<slot, drop_cnt, notified, info, registered, userVars>>

(* update_map_info *)
UpdateMapInfoKeeps(im) == [hint |-> im, cnt |-> info.cnt]
update_map_info(im) ==
    IF info.hint = im THEN [info EXCEPT !.cnt = @ + 1] ELSE [hint |-> im, cnt |-> 1]

Insert ==
    /\ bpf.pc = "insert"
    /\ Cardinality(Entries(bpf.im)) < MAX_INCIDENTS_PER_CPU
    /\ map' = [map EXCEPT ![bpf.im][bpf.addr] = 1]
    /\ info' = update_map_info(bpf.im)
    /\ IF info'.cnt >= INCIDENT_FLUSH_THRESHOLD THEN Push ELSE UNCHANGED notified
    /\ bpf' = Idle
    /\ UNCHANGED <<slot, drop_cnt, registered, userVars>>

(* -E2BIG or -ENOMEM: push_swap_event_and_update_drop_cnt *)
InsertFullUncounted ==
    /\ bpf.pc = "insert"
    /\ Cardinality(Entries(bpf.im)) = MAX_INCIDENTS_PER_CPU
    /\ Push
    /\ bpf' = Idle
    /\ UNCHANGED <<map, slot, drop_cnt, info, registered, userVars>>

InsertFull ==
    /\ bpf.pc = "insert"
    /\ Cardinality(Entries(bpf.im)) = MAX_INCIDENTS_PER_CPU
    /\ drop_cnt' = drop_cnt + 1
    /\ Push
    /\ bpf' = Idle
    /\ UNCHANGED <<map, slot, info, registered, userVars>>

Bpf == Lookup \/ Count \/ Insert \/ InsertFull

-----------------------------------------------------------------------------
(* IncidentLogProcessor *)

(* populate_percpu_maps, at the end of the constructor *)
Start ==
    /\ upc = "new"
    /\ slot' = active
    /\ upc' = "idle"
    /\ UNCHANGED <<map, drop_cnt, notified, bpfVars, call, active, timer,
                   stop_called, exported, deaf, failures>>

(* consume: a swap is due when stopped, on the timer or when notified. *)
WantsSwapNoTimer == stop_called \/ notified
WantsSwap == stop_called \/ timer \/ notified

Consume ==
    /\ upc = "idle"
    /\ WantsSwap
    /\ call' = IF stop_called THEN "stop" ELSE "consume"
    /\ upc' = "swap"
    /\ UNCHANGED <<map, slot, drop_cnt, notified, bpfVars, active, timer, stop_called,
                   exported, deaf, failures>>

(* The destructor drains once more. *)
Destroy ==
    /\ upc = "stopped"
    /\ call' = "destroy"
    /\ upc' = "swap"
    /\ UNCHANGED <<map, slot, drop_cnt, notified, bpfVars, active, timer, stop_called,
                   exported, deaf, failures>>

(* Where a call ends: the processor is polled again, stopped or gone. *)
After == IF call = "consume" THEN "idle" ELSE IF call = "stop" THEN "stopped" ELSE "gone"

(* swap_active_map *)

SwapActiveMap ==
    /\ upc = "swap"
    /\ slot' = 1 - active
    /\ active' = 1 - active
    /\ upc' = "wait"
    /\ UNCHANGED <<map, drop_cnt, notified, bpfVars, call, timer, stop_called, exported,
                   deaf, failures>>

SwapFails ==
    /\ upc = "swap"
    /\ failures < MaxFailures
    /\ failures' = failures + 1
    /\ upc' = After
    /\ UNCHANGED <<map, slot, drop_cnt, notified, bpfVars, call, active, timer,
                   stop_called, exported, deaf>>

(* External: the update returns once no program uses the old map. *)
Swapped ==
    /\ upc = "wait"
    /\ bpf.im # 1 - active
    /\ upc' = "drain"
    /\ UNCHANGED <<map, slot, drop_cnt, notified, bpfVars, call, active, timer,
                   stop_called, exported, deaf, failures>>

(* read_and_clear_inactive_map through drain_by_batch *)
inactive == 1 - active

DrainBatch ==
    /\ upc = "drain"
    /\ Entries(inactive) # {}
    /\ \E S \in SUBSET Entries(inactive) :
         /\ Cardinality(S) = Min({BatchSize, Cardinality(Entries(inactive))})
         /\ exported' = exported + Packets(inactive, S)
         /\ map' = [map EXCEPT ![inactive] = [a \in Addr |-> IF a \in S THEN 0 ELSE @[a]]]
    /\ UNCHANGED <<slot, drop_cnt, notified, bpfVars, upc, call, active, timer,
                   stop_called, deaf, failures>>

Drained == IF call = "destroy" THEN "gone" ELSE "stamp"

DrainDone ==
    /\ upc = "drain"
    /\ Entries(inactive) = {}
    /\ upc' = Drained
    /\ UNCHANGED <<map, slot, drop_cnt, notified, bpfVars, call, active, timer,
                   stop_called, exported, deaf, failures>>

DrainFails ==
    /\ upc = "drain"
    /\ failures < MaxFailures
    /\ failures' = failures + 1
    /\ upc' = Drained
    /\ UNCHANGED <<map, slot, drop_cnt, notified, bpfVars, call, active, timer,
                   stop_called, exported, deaf>>

(* The end of handle_swap_event: last_swap_ts_ and next_swap_ *)
Stamp ==
    /\ upc = "stamp"
    /\ notified' = FALSE
    /\ deaf' = FALSE
    /\ timer' = FALSE
    /\ upc' = After
    /\ UNCHANGED <<map, slot, drop_cnt, bpfVars, call, active, stop_called,
                   exported, failures>>

User == \/ Start \/ Consume \/ Destroy \/ SwapActiveMap \/ SwapFails \/ Swapped
        \/ DrainBatch \/ DrainDone \/ DrainFails \/ Stamp

TimerExpires ==
    /\ ~timer
    /\ timer' = TRUE
    /\ UNCHANGED <<map, slot, drop_cnt, notified, bpfVars, upc, call, active,
                   stop_called, exported, deaf, failures>>

RequestStop ==
    /\ ~stop_called
    /\ stop_called' = TRUE
    /\ UNCHANGED <<map, slot, drop_cnt, notified, bpfVars, upc, call, active,
                   timer, exported, deaf, failures>>

Next == \/ \E a \in Addr : Register(a)
        \/ Bpf \/ User \/ TimerExpires \/ RequestStop

(* A BPF program runs to its end, the logger's threads keep polling, time  *)
(* passes.  Nobody has to stop the logger.                                 *)
Spec == Init /\ [][Next]_vars /\ WF_vars(Bpf) /\ WF_vars(User) /\ WF_vars(TimerExpires)

-----------------------------------------------------------------------------
(* Properties *)

(* The shape of the state, with entries within max_entries. *)
TypeOK ==
    /\ \A i \in Side, a \in Addr : map[i][a] \in 0..MaxIncidents
    /\ \A i \in Side : Cardinality(Entries(i)) <= MAX_INCIDENTS_PER_CPU
    /\ slot \in Side \cup {NoMap}
    /\ drop_cnt \in 0..MaxIncidents
    /\ notified \in BOOLEAN /\ deaf \in BOOLEAN /\ timer \in BOOLEAN /\ stop_called \in BOOLEAN
    /\ info \in [hint : Side \cup {NoMap}, cnt : Nat]
    /\ bpf \in [pc : {"idle", "lookup", "count", "insert"}, addr : Addr, im : Side \cup {NoMap}]
    /\ upc \in {"new", "idle", "swap", "wait", "drain", "stamp", "stopped", "gone"}
    /\ active \in Side /\ slot \in {active, NoMap}

(* "Just register dropped event" (incident_log.h:155): every incident is   *)
(* in one of the maps, was handed to the writer, or is in drop_cnt; none   *)
(* vanishes and none is reported twice, whatever fails while maps are      *)
(* swapped under a running program.                                        *)
Accounted ==
    registered = Packets(0, Addr) + Packets(1, Addr) + exported + drop_cnt
                 + (IF bpf.pc = "idle" THEN 0 ELSE 1)

(* "used to estimate map usage and to trigger swap ... before the map      *)
(* becomes full" (incident_log.h:92-93), which "may slightly overestimate" *)
(* (incident_log_maps.h:122-123): the insertion counter never counts less  *)
(* than the active map holds, so a full map has always raised its event.   *)
(* Until a drain fails: the entries it leaves behind are not counted when  *)
(* the map becomes active again.                                           *)
NeverUnderestimates ==
    (failures = 0 /\ slot # NoMap /\ Entries(slot) # {}) =>
        info.hint = slot /\ info.cnt >= Cardinality(Entries(slot))

(* What register_incident recorded reaches the writer, as long as nobody   *)
(* stops the logger: maps are rotated "on a timer" (incident_log_maps.h:   *)
(* 36-37) even when an overflow event was missed.                          *)
EventuallyExported ==
    \A i \in Side, a \in Addr : (map[i][a] > 0) ~> (map[i][a] = 0 \/ stop_called)
=============================================================================
