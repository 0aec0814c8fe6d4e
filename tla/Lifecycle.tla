------------------------------ MODULE Lifecycle ------------------------------
(***************************************************************************)
(* The life cycle of an xFW installation: xfwctl runs a command as a list  *)
(* of steps, most of them calls of loader.c or bpftool; the manager and    *)
(* the logger are processes that open the pinned maps when they start and  *)
(* keep them open.  Any step may fail, a command may be killed between two *)
(* steps, and the configuration file may be edited between two commands.   *)
(*                                                                         *)
(* A map is known by its name; "cfg" stands for the maps that xdp.o owns   *)
(* and tc.o shares, "net" for those of tc.o, "dns" and "syncookies" for    *)
(* the maps of the load-time modes.  Every load that creates maps gives    *)
(* them a new generation, so that two maps of one name can be told apart.  *)
(* A program, a pin or a process is the generations it refers to.          *)
(***************************************************************************)
EXTENDS Naturals, Sequences

CONSTANTS
    Devs,          \* the network devices of the machine
    Configs,       \* configuration files: [devs, deployment, dns, pidfile]
    Commands,      \* the xfwctl actions that are issued
    MaxCommands,   \* bound on the number of commands
    MaxFaults      \* bound on failed steps, kills and crashes

VARIABLES
    cfg,           \* the configuration file
    pinned,        \* pinned maps
    progs,         \* pinned programs
    xdp, tcx,      \* the programs attached to each device
    mgr, logger,   \* the two processes
    todo,          \* the steps the running command has yet to take
    result,        \* what it would exit with
    cmd, born, count, faults,
    calm,          \* history: it began in a Settled state and nothing went wrong
    missed,        \* history: it was killed, or a step of its unload_bpf failed
    stale,         \* history: some map in use survived an unload
    loaded         \* history: the last load_bpf succeeded, and no unload since

kernel == <<pinned, progs, xdp, tcx>>
procs == <<mgr, logger>>
control == <<cfg, cmd, born, count>>
lifeVars == <<kernel, procs, control, todo, result, faults, calm, missed, stale, loaded>>

MapName == {"cfg", "net", "dns", "syncookies"}
Generation == 0..MaxCommands
Refs == [MapName -> Generation]
Nothing == [m \in MapName |-> 0]
NoDev == "none"

ASSUME LifecycleAssumption ==
    /\ NoDev \notin Devs
    /\ Configs \subseteq [devs: Seq(Devs), deployment: {"host", "gw", "scrubbing"},
                          dns: BOOLEAN, pidfile: {"default", "custom"}]
    /\ Commands \subseteq {"load", "unload", "reload", "start", "stop", "restart",
                           "start_mgr", "stop_mgr", "restart_mgr",
                           "start_logger", "stop_logger", "restart_logger"}
    /\ MaxCommands \in Nat /\ MaxFaults \in Nat

LifeTypeOK ==
    /\ cfg \in Configs
    /\ pinned \in Refs
    /\ progs \in [{"xdp", "tc"} -> Refs]
    /\ xdp \in [Devs -> Refs] /\ tcx \in [Devs -> Refs]
    /\ mgr \in [st: {"none", "daemon", "locked", "up"}, maps: Refs,
                pidfile: {"default", "custom"}]
    /\ logger \in Refs
    /\ result \in {"good", "refused", "failed", "killed"}
    /\ born \in Generation /\ count \in 0..MaxCommands /\ faults \in 0..MaxFaults
    /\ {calm, missed, stale, loaded} \subseteq BOOLEAN

(* -------------------------- the scripts of xfwctl ---------------------- *)

ConfiguredDevs == {cfg.devs[i] : i \in DOMAIN cfg.devs}

\* read_config: the load mode is the deployment mode, followed by ",dns"
LoadMode == <<cfg.deployment>> \o (IF cfg.dns THEN <<"dns">> ELSE <<>>)

\* parse_load_mode and the maps load_program then leaves out: one token of each
\* of two kinds, in either order; a host is also the default
HasToken(mode, t) == \E i \in DOMAIN mode : mode[i] = t
ModeMaps(mode) == {m \in {"dns", "syncookies"} :
    IF m = "dns" THEN HasToken(mode, "dns")
    ELSE ~HasToken(mode, "gw") /\ ~HasToken(mode, "scrubbing")}

Step(op) == <<[op |-> op, dev |-> NoDev]>>

\* "for dev in ${devs}; do first; second; done"
ForEachDev(first, second) ==
    [i \in 1..(2 * Len(cfg.devs)) |->
        [op |-> IF i % 2 = 1 THEN first ELSE second,
         dev |-> cfg.devs[(i + 1) \div 2]]]

UnloadBpf == ForEachDev("detach_xdp", "detach_tc")
    \o Step("unload_tc") \o Step("unload_xdp") \o Step("maps_clean")

LoadBpf == Step("load_check") \o Step("load_xdp") \o Step("load_tc")
    \o ForEachDev("attach_xdp", "attach_tc") \o Step("maps_check")

StopAllButLogger == Step("stop_mgr") \o UnloadBpf
StopAll == Step("stop_mgr") \o Step("stop_logger") \o UnloadBpf
StartAll == LoadBpf \o Step("start_logger") \o Step("start_mgr")

Script == [
    load           |-> LoadBpf,
    unload         |-> UnloadBpf,
    reload         |-> UnloadBpf \o LoadBpf,
    start          |-> StartAll,
    stop           |-> StopAll,
    restart        |-> StopAll \o StartAll,
    start_mgr      |-> Step("start_mgr"),
    stop_mgr       |-> Step("stop_mgr"),
    start_logger   |-> Step("start_logger"),
    stop_logger    |-> Step("stop_logger"),
    restart_mgr    |-> Step("stop_mgr") \o Step("start_mgr"),
    restart_logger |-> Step("stop_logger") \o Step("start_logger")]

(* ------------------------------ helpers -------------------------------- *)

NoCommand == todo = <<>>
At(op) == todo # <<>> /\ Head(todo).op = op
Dev == Head(todo).dev

Proceed == todo' = Tail(todo) /\ UNCHANGED <<result, faults, calm>>

\* A step that goes wrong although nothing in the installation forbids it.
Fault == faults < MaxFaults /\ faults' = faults + 1 /\ calm' = FALSE

\* error(): print the message and leave the script, after the clean-up
Exit(cleanup) == todo' = cleanup /\ result' = "failed"

\* Everything that keeps a map alive in the kernel.
Users == {pinned, progs["xdp"], progs["tc"], mgr.maps, logger}
         \cup {xdp[d] : d \in Devs} \cup {tcx[d] : d \in Devs}
LiveGenerations(m) == {u[m] : u \in Users} \ {0}

Restrict2(refs, names) == [m \in MapName |-> IF m \in names THEN refs[m] ELSE 0]

(* ------------------------------- load_bpf ------------------------------ *)

\* The pin of the program and the devices are looked at before anything is done.
LoadCheck ==
    /\ At("load_check")
    /\ LET free == /\ progs["xdp"] = Nothing
                   /\ \A d \in ConfiguredDevs : xdp[d] = Nothing /\ tcx[d] = Nothing
       IN  IF free THEN Proceed
           ELSE todo' = <<>> /\ result' = "refused" /\ UNCHANGED <<faults, calm>>
    /\ UNCHANGED <<kernel, procs, control, missed, stale, loaded>>

\* libbpf reuses a map pinned under the name of a map of the object, and
\* creates and pins the others.
AfterLoad(names) ==
    [m \in MapName |-> IF m \in names /\ pinned[m] = 0 THEN born ELSE pinned[m]]

\* load_program() of xdp.o.  The maps of disabled modes are not created; a pin
\* they left behind is not touched.
XdpMaps == {"cfg"} \cup ModeMaps(LoadMode)
LoadXdp ==
    /\ At("load_xdp")
    /\ \/ /\ pinned' = AfterLoad(XdpMaps)
          /\ progs' = [progs EXCEPT !["xdp"] = Restrict2(pinned', XdpMaps)]
          /\ stale' = (\E m \in MapName : pinned[m] # 0)
          /\ Proceed
       \/ \* loading fails, or pinning the program does, after its maps were pinned
          /\ Fault /\ Exit(UnloadBpf)
          /\ pinned' \in {pinned, AfterLoad(XdpMaps)}
          /\ UNCHANGED <<progs, stale>>
    /\ UNCHANGED <<xdp, tcx, procs, control, missed, loaded>>

\* load_program() of tc.o: the DNS mode must match, the shared maps must be
\* pinned, its own map is created or reused.
TcMaps == {"cfg", "net"} \cup (ModeMaps(LoadMode) \cap {"dns"})
TcDnsModeUnchecked == TRUE
TcDnsModeMatches == (pinned["dns"] # 0) <=> ("dns" \in TcMaps)
TcLoadable ==
    /\ progs["tc"] = Nothing
    /\ TcDnsModeMatches
    /\ \A m \in TcMaps \ {"net"} : pinned[m] # 0
LoadTc ==
    /\ At("load_tc")
    /\ \/ /\ TcLoadable
          /\ pinned' = AfterLoad({"net"})
          /\ progs' = [progs EXCEPT !["tc"] = Restrict2(pinned', TcMaps)]
          /\ Proceed
       \/ /\ ~TcLoadable
          /\ Exit(UnloadBpf) /\ UNCHANGED <<pinned, progs, faults, calm>>
       \/ /\ TcLoadable /\ Fault /\ Exit(UnloadBpf)
          /\ pinned' \in {pinned, AfterLoad({"net"})}
          /\ UNCHANGED progs
    /\ UNCHANGED <<xdp, tcx, procs, control, missed, stale, loaded>>

\* No device has an XDP program yet: LoadCheck has seen to that.
AttachNoCleanup == <<>>
CleanupOfAttach == UnloadBpf
AttachXdp ==
    /\ At("attach_xdp")
    /\ \/ xdp' = [xdp EXCEPT ![Dev] = progs["xdp"]] /\ Proceed
       \/ Fault /\ Exit(CleanupOfAttach) /\ UNCHANGED xdp
    /\ UNCHANGED <<pinned, progs, tcx, procs, control, missed, stale, loaded>>

\* The link is pinned, or closed again if that fails.
AttachTc ==
    /\ At("attach_tc")
    /\ \/ tcx' = [tcx EXCEPT ![Dev] = progs["tc"]] /\ Proceed
       \/ Fault /\ Exit(CleanupOfAttach) /\ UNCHANGED tcx
    /\ UNCHANGED <<pinned, progs, xdp, procs, control, missed, stale, loaded>>

\* bpf_maps_check: the kernel must hold xFW maps and no two of one name.
AnyMapsWillDo == \E m \in MapName : LiveGenerations(m) # {}
MapsOk ==
    /\ \E m \in MapName : LiveGenerations(m) # {}
    /\ \A m \in MapName, g, h \in Generation :
          {g, h} \subseteq LiveGenerations(m) => g = h
MapsCheck ==
    /\ At("maps_check")
    /\ \/ MapsOk /\ Proceed /\ loaded' = TRUE
       \/ ~MapsOk /\ Exit(UnloadBpf) /\ UNCHANGED <<faults, calm, loaded>>
    /\ UNCHANGED <<kernel, procs, control, missed, stale>>

(* ------------------------------ unload_bpf ----------------------------- *)

Missed == Fault /\ missed' = TRUE

\* Failures to detach are ignored ("|| true").
DetachXdp ==
    /\ At("detach_xdp")
    /\ todo' = Tail(todo) /\ UNCHANGED result
    /\ \/ xdp' = [xdp EXCEPT ![Dev] = Nothing] /\ UNCHANGED <<faults, calm, missed>>
       \/ Missed /\ xdp[Dev] # Nothing /\ UNCHANGED xdp
    /\ loaded' = FALSE
    /\ UNCHANGED <<pinned, progs, tcx, procs, control, stale>>

DetachTc ==
    /\ At("detach_tc")
    /\ todo' = Tail(todo) /\ UNCHANGED result
    /\ \/ tcx' = [tcx EXCEPT ![Dev] = Nothing] /\ UNCHANGED <<faults, calm, missed>>
       \/ Missed /\ tcx[Dev] # Nothing /\ UNCHANGED tcx
    /\ loaded' = FALSE
    /\ UNCHANGED <<pinned, progs, xdp, procs, control, stale>>

UnloadProgram(op, p) ==
    /\ At(op)
    /\ todo' = Tail(todo) /\ UNCHANGED result
    /\ \/ progs' = [progs EXCEPT ![p] = Nothing] /\ UNCHANGED <<faults, calm, missed>>
       \/ Missed /\ progs[p] # Nothing /\ UNCHANGED progs
    /\ loaded' = FALSE
    /\ UNCHANGED <<pinned, xdp, tcx, procs, control, stale>>

\* find -name "xfw_*" -delete: may leave any of the pins.
MapsClean ==
    /\ At("maps_clean")
    /\ todo' = Tail(todo) /\ UNCHANGED result
    /\ \/ pinned' = Nothing /\ UNCHANGED <<faults, calm, missed>>
       \/ /\ Missed
          /\ \E left \in SUBSET MapName : pinned' = Restrict2(pinned, left)
    /\ UNCHANGED <<progs, xdp, tcx, procs, control, stale, loaded>>

(* -------------------------- manager and logger ------------------------- *)

\* start_mgr: nothing to do if one runs.  The manager becomes a daemon before
\* it creates its PID file and opens the maps: xfwctl sees earlier errors only.
StartMgr ==
    /\ At("start_mgr")
    /\ \/ mgr.st # "none" /\ Proceed /\ UNCHANGED mgr
       \/ /\ mgr.st = "none" /\ Proceed
          /\ mgr' = [st |-> "daemon", maps |-> Nothing, pidfile |-> cfg.pidfile]
       \/ /\ mgr.st = "none" /\ Fault /\ UNCHANGED mgr
          /\ Exit(IF cmd \in {"start", "restart"}
                  THEN Step("stop_logger") \o UnloadBpf ELSE <<>>)
    /\ UNCHANGED <<kernel, logger, control, missed, stale, loaded>>

NoMgr == [st |-> "none", maps |-> Nothing, pidfile |-> "default"]

\* stop_mgr: pkill finds the manager by its locked PID file, and pidwait waits
\* for its end.  The configuration has not been read yet: only the default
\* file is looked at.
StopMgr ==
    /\ At("stop_mgr")
    /\ Proceed
    /\ mgr' = IF mgr.st \in {"locked", "up"} /\ mgr.pidfile = "default" THEN NoMgr ELSE mgr
    /\ UNCHANGED <<kernel, logger, control, missed, stale, loaded>>

MgrLocksPidfile ==
    /\ mgr.st = "daemon"
    /\ mgr' = [mgr EXCEPT !.st = "locked"]
    /\ UNCHANGED <<kernel, logger, control, todo, result, faults, calm, missed,
                   stale, loaded>>

\* The constructor of BpfMapsManager opens the maps one by one; a missing pin
\* is an exception, which ends the process.
MgrOpens(m) ==
    /\ mgr.st = "locked" /\ mgr.maps[m] = 0
    /\ m = "net" => mgr.maps["cfg"] # 0
    /\ mgr' = IF pinned[m] = 0 THEN NoMgr
              ELSE [mgr EXCEPT !.maps[m] = pinned[m],
                               !.st = IF m = "net" THEN "up" ELSE "locked"]
    /\ UNCHANGED <<kernel, logger, control, todo, result, faults, calm, missed,
                   stale, loaded>>

MgrDies ==
    /\ mgr.st # "none" /\ Fault
    /\ mgr' = NoMgr
    /\ UNCHANGED <<kernel, logger, control, todo, result, missed, stale, loaded>>

\* start_logger: a failure is a warning, also when the maps are not there.
StartLogger ==
    /\ At("start_logger")
    /\ todo' = Tail(todo) /\ UNCHANGED result
    /\ \/ /\ logger' = IF logger = Nothing THEN Restrict2(pinned, {"cfg"}) ELSE logger
          /\ UNCHANGED <<faults, calm>>
       \/ logger = Nothing /\ Fault /\ UNCHANGED logger
    /\ UNCHANGED <<kernel, mgr, control, missed, stale, loaded>>

\* stop_logger: a timeout is reported, and the script goes on.
StopLogger ==
    /\ At("stop_logger")
    /\ todo' = Tail(todo) /\ UNCHANGED result
    /\ \/ logger' = Nothing /\ UNCHANGED <<faults, calm>>
       \/ logger # Nothing /\ Fault /\ UNCHANGED logger
    /\ UNCHANGED <<kernel, mgr, control, missed, stale, loaded>>

(* ---------------------------- the operator ----------------------------- *)

\* Nothing is under way or out of xfwctl's sight: the manager is up under the
\* default PID file or not there, and xFW is on no device that is not configured.
Settled ==
    /\ mgr.st \in {"none", "up"} /\ mgr.pidfile = "default"
    /\ \A d \in Devs \ ConfiguredDevs : xdp[d] = Nothing /\ tcx[d] = Nothing

Issue(c) ==
    /\ NoCommand /\ count < MaxCommands
    /\ cmd' = c /\ count' = count + 1 /\ born' = born + 1
    /\ todo' = Script[c] /\ result' = "good"
    /\ calm' = Settled /\ missed' = FALSE
    /\ UNCHANGED <<cfg, kernel, procs, faults, stale, loaded>>

EditConfig(c) ==
    /\ NoCommand /\ count < MaxCommands /\ c # cfg
    /\ cfg' = c
    /\ calm' = FALSE /\ missed' = TRUE
    /\ UNCHANGED <<kernel, procs, cmd, born, count, todo, result, faults, stale, loaded>>

Kill ==
    /\ ~NoCommand /\ Fault
    /\ todo' = <<>> /\ result' = "killed"
    /\ missed' = TRUE
    /\ UNCHANGED <<kernel, procs, control, stale, loaded>>

LifeInit ==
    /\ cfg \in Configs
    /\ pinned = Nothing /\ progs = [p \in {"xdp", "tc"} |-> Nothing]
    /\ xdp = [d \in Devs |-> Nothing] /\ tcx = [d \in Devs |-> Nothing]
    /\ mgr = NoMgr /\ logger = Nothing
    /\ todo = <<>> /\ result = "good" /\ cmd = "none"
    /\ born = 0 /\ count = 0 /\ faults = 0
    /\ calm = TRUE /\ missed = FALSE /\ stale = FALSE /\ loaded = FALSE

LifeNext ==
    \/ \E c \in Commands : Issue(c)
    \/ \E c \in Configs : EditConfig(c)
    \/ Kill
    \/ LoadCheck \/ LoadXdp \/ LoadTc \/ AttachXdp \/ AttachTc \/ MapsCheck
    \/ DetachXdp \/ DetachTc \/ UnloadProgram("unload_tc", "tc")
    \/ UnloadProgram("unload_xdp", "xdp") \/ MapsClean
    \/ StartMgr \/ StopMgr \/ StartLogger \/ StopLogger
    \/ MgrLocksPidfile \/ (\E m \in {"cfg", "net"} : MgrOpens(m)) \/ MgrDies

LifeSpec == LifeInit /\ [][LifeNext]_lifeVars

(* ------------------------------ properties ----------------------------- *)

\* Once load_bpf has succeeded, and whatever failed or was killed before, all
\* that is attached, pinned or running shares one set of maps: no program filters
\* by maps that the manager cannot write (xfwctl:233, bpf_maps_check).
OneInstance ==
    loaded => \A m \in MapName, u, v \in Users : u[m] # 0 /\ v[m] # 0 => u[m] = v[m]

\* After a load that found the pin directory clean, the optional maps the manager
\* looks for (has_pinned_map, xfw.cc:34) are exactly those of the loaded programs;
\* for DNS mode this holds even if an earlier unload was cut short (loader.c:380).
PinsTellTheMode ==
    loaded /\ NoCommand => \A m \in {"dns", "syncookies"} :
        (m = "dns" \/ ~stale) => ((pinned[m] # 0) <=> (progs["xdp"][m] # 0))

\* A command that unloads xFW, be it the clean-up of a load that failed half way,
\* leaves it on no configured device and nothing pinned, unless one of the
\* clean-up steps itself fails (xfwctl:517, the error paths of load_bpf).
Unloaded ==
    /\ pinned = Nothing /\ \A p \in DOMAIN progs : progs[p] = Nothing
    /\ \A d \in ConfiguredDevs : xdp[d] = Nothing /\ tcx[d] = Nothing
UnloadIsComplete ==
    /\ NoCommand /\ ~missed /\ ~loaded /\ result # "refused"
    /\ cmd \in {"load", "unload", "reload", "start", "stop", "restart"}
    => Unloaded

\* --restart brings a settled installation back, whatever earlier commands left
\* half done: unless a step fails, it ends with the datapath loaded (xfwctl:838).
RestartRecovers ==
    NoCommand /\ cmd = "restart" /\ calm => result = "good" /\ loaded
=============================================================================
