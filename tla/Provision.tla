----------------------------- MODULE Provision ------------------------------
(***************************************************************************)
(* The launcher's local lifecycle: obs provision, obs provision            *)
(* --clean-rerun, the teardown-only run and obs uninstall, for both        *)
(* providers, with the processes, PID files, systemd unit, generated files *)
(* and trusted certificates they leave on the host.                        *)
(*                                                                         *)
(* A run walks through a plan, the sequence of steps of run (native) or    *)
(* run_inner (OpenShell); a step that fails ends the run, and an OpenShell *)
(* run that fails after it started something walks through CleanupPlan.    *)
(* Files carry the number of the run that wrote them, 0 when absent.  A    *)
(* process carries the run that spawned it and the configuration and PKI   *)
(* it loaded; it is lost once no PID file can name it any more, and termed *)
(* once it got SIGTERM or SIGINT.  Polling loops are abstracted to their   *)
(* two outcomes: the condition is observed, or the launcher gives up.      *)
(***************************************************************************)
EXTENDS Naturals, FiniteSets, Sequences

CONSTANTS Override,    \* values that OPENBOX_PROVIDER may have in an uninstall
          MaxPid,      \* process identifiers are 1..MaxPid and are reused
          MaxRuns,     \* bound on the number of runs of the launcher
          MaxFaults    \* bound on launchers killed, processes that fail and
                       \* unrelated processes that take a PID

ASSUME ProvisionAssumption ==
    /\ MaxPid \in Nat \ {0} /\ MaxRuns \in Nat \ {0}
    /\ MaxFaults \in Nat
    /\ Override \subseteq {"native", "openshell"}

VARIABLES
    launcher,   \* the run in progress, or the outcome of the last one
    waiting,    \* foreground launchers blocked in child.wait()
    proc,       \* processes by PID
    pidfile,    \* zot.pid, gateway.pid and sandbox-service.pid
    unit,       \* the systemd unit of this launcher: none, file or enabled
    files,      \* the generated files, by the run that wrote them
    anchors,    \* registry CAs in the trust store of the host
    driver,     \* a VM driver of this launcher's state directory: none, running,
                \* or missed by a search of the process list that failed
    discarded,  \* number of registry CAs deleted with the state, or replaced in
                \* their final day
    faults

vars == <<launcher, waiting, proc, pidfile, unit, files, anchors, driver, discarded,
          faults>>

Pid == 1..MaxPid

\* A PID file that does not exist, and one that was truncated but not written.
Absent == 0
Torn == MaxPid + 1

Run == 0..MaxRuns
Role == {"zot", "gateway", "service"}
File == {"profile", "pki", "config", "env", "gateway", "ca", "meta"}

\* The steps of native_provision::run, in the order it takes them.
NativePlan ==
    << "unit", "stop_service", "free_ports", "clean", "preflight", "profile",
       "pki", "config", "check", "start_service", "env", "smoke", "wait" >>

\* Mutant: the service is started before its configuration is rewritten.
OpenShellPlanStartsEarly ==
    << "verify", "stop_zot", "stop_service", "sweep", "stop_gateway",
       "free_ports", "stop_drivers", "clean", "preflight", "ca", "trust",
       "start_zot", "gateway_pki", "gateway", "start_gateway", "pki",
       "start_service", "config", "check", "env", "warm" >>

\* The steps of openshell_provision::run_inner.
OpenShellPlan ==
    << "verify", "stop_zot", "stop_service", "sweep", "stop_gateway",
       "free_ports", "stop_drivers", "clean", "preflight", "ca", "trust",
       "start_zot", "gateway_pki", "gateway", "start_gateway", "pki",
       "config", "start_service", "check", "env", "warm" >>

\* What openshell_provision::run does after run_inner failed.
CleanupPlan == << "stop_service", "stop_gateway", "stop_drivers", "signal_zot" >>

Plan(l) ==
    IF l.failing THEN CleanupPlan
    ELSE IF l.provider = "native" THEN NativePlan ELSE OpenShellPlan

NoProcess == [name |-> "none", port |-> "none", run |-> 0, config |-> 0,
              pki |-> 0, supervised |-> FALSE, termed |-> FALSE,
              lost |-> FALSE]

Alive(p) == proc[p] # NoProcess
Listening(r) == \E p \in Pid : proc[p].port = r
Free == {p \in Pid : ~Alive(p)}
IsNew(p) == p \in Free /\ \A q \in Free : p <= q

Idle == [on |-> FALSE, run |-> 0, provider |-> "native", mode |-> "provision",
         start |-> "detach", step |-> 1, sub |-> "enter", pid |-> 0,
         child |-> 0, zot |-> 0, started |-> {}, failing |-> FALSE, result |-> "none"]

At(step, sub) ==
    /\ launcher.on
    /\ launcher.sub = sub
    /\ Plan(launcher)[launcher.step] = step

Return(l, result) ==
    [Idle EXCEPT !.run = l.run, !.provider = l.provider, !.mode = l.mode,
                 !.start = l.start, !.result = result]

\* Mutant: a run takes one step more than its plan has.
AdvancePastEnd(l) ==
    IF l.step <= Len(Plan(l))
    THEN [l EXCEPT !.step = @ + 1, !.sub = "enter", !.pid = 0]
    ELSE Return(l, IF l.failing THEN "err" ELSE "ok")

\* The next step of the plan, or the end of the run.
Advance(l) ==
    IF l.step < Len(Plan(l))
    THEN [l EXCEPT !.step = @ + 1, !.sub = "enter", !.pid = 0]
    ELSE Return(l, IF l.failing THEN "err" ELSE "ok")

\* A step failed.  Errors of the cleanup after a failure are ignored.
FailOf(l) ==
    IF l.failing THEN Advance(l)
    ELSE IF l.provider = "openshell" /\ l.started # {}
    THEN [l EXCEPT !.failing = TRUE, !.step = 1, !.sub = "enter", !.pid = 0]
    ELSE Return(l, "err")

Proceed == launcher' = Advance(launcher)
Fails == launcher' = FailOf(launcher)
Within(sub) == launcher' = [launcher EXCEPT !.sub = sub]

-----------------------------------------------------------------------------
(***************************************************************************)
(* Starting a run.  obs provision takes its provider from a flag, native   *)
(* by default; obs uninstall reads the provider of service.json.           *)
(***************************************************************************)
Starts(provider, mode) ==
    IF mode \notin {"provision", "clean"} THEN {"detach"}
    ELSE IF provider = "native"
    THEN {"foreground", "detach", "systemd", "no_start"}
    ELSE {"detach", "no_start"}

\* OPENBOX_PROVIDER, or what service.json says: one that names no provider
\* counts as openshell, one that is not there as native.
SelectedProvider ==
    Override \cup {IF files.provider = "none" THEN "native" ELSE files.provider}

Begin ==
    /\ ~launcher.on
    /\ launcher.run < MaxRuns
    /\ \E provider \in {"native", "openshell"},
          mode \in {"provision", "clean", "teardown", "uninstall"} :
        /\ mode = "uninstall" => provider \in SelectedProvider
        /\ \E start \in Starts(provider, mode) :
            launcher' = [Idle EXCEPT !.on = TRUE, !.run = launcher.run + 1,
                            !.provider = provider, !.mode = mode, !.start = start]
    /\ UNCHANGED <<waiting, proc, pidfile, unit, files, anchors, driver,
                   discarded, faults>>

-----------------------------------------------------------------------------
(***************************************************************************)
(* Teardown.                                                               *)
(***************************************************************************)
Killed(p) == [proc EXCEPT ![p] = NoProcess]
Termed(p) == [proc EXCEPT ![p].termed = TRUE]

\* stop_service of the native provider first disables the unit.  The result
\* of systemctl is ignored and the unit file is removed either way.
StopUnit ==
    /\ At("unit", "enter")
    /\ LET supervised == {p \in Pid : proc[p].supervised} IN
        \/ /\ unit # "none"
           /\ proc' = [p \in Pid |->
                          IF p \in supervised THEN NoProcess ELSE proc[p]]
        \/ /\ unit # "none"
           /\ proc' = [p \in Pid |->
                          IF p \in supervised
                          THEN [proc[p] EXCEPT !.supervised = FALSE, !.lost = TRUE]
                          ELSE proc[p]]
        \/ unit = "none" /\ UNCHANGED proc
    /\ unit' = "none"
    /\ Proceed
    /\ UNCHANGED <<waiting, pidfile, files, anchors, driver, discarded, faults>>

\* The role whose process a stop or start step is about.
StopRole == [s \in {"stop_service", "stop_gateway"} |->
                IF s = "stop_service" THEN "service" ELSE "gateway"]
StartRole == [s \in {"start_service", "start_gateway", "start_zot"} |->
                CASE s = "start_service" -> "service"
                  [] s = "start_gateway" -> "gateway"
                  [] s = "start_zot" -> "zot"]

\* Mutant: an uninstall does not look for the gateway.
SkipsGateway(r) ==
    \/ launcher.failing /\ r \notin launcher.started
    \/ launcher.mode = "uninstall" /\ r = "gateway"

\* A stop the plan skips: after a failure only what this run started is stopped.
SkipsStop(r) == launcher.failing /\ r \notin launcher.started

\* Nothing to stop: no PID file, or a file naming a process that is gone.
StopNothing(s) ==
    LET r == StopRole[s] IN
    /\ At(s, "enter")
    /\ \/ SkipsStop(r) /\ UNCHANGED pidfile
       \/ /\ ~SkipsStop(r)
          /\ \/ pidfile[r] = Absent
             \/ pidfile[r] \in Pid /\ ~Alive(pidfile[r])
          /\ pidfile' = [pidfile EXCEPT ![r] = Absent]
    /\ Proceed
    /\ UNCHANGED <<waiting, proc, unit, files, anchors, driver, discarded,
                   faults>>

\* A malformed file, or a live process that is not the launcher's.
StopRefuses(s) ==
    LET r == StopRole[s] IN
    /\ At(s, "enter")
    /\ ~SkipsStop(r)
    /\ \/ pidfile[r] = Torn
       \/ pidfile[r] \in Pid /\ Alive(pidfile[r]) /\ proc[pidfile[r]].name # r
    /\ Fails
    /\ UNCHANGED <<waiting, proc, pidfile, unit, files, anchors, driver,
                   discarded, faults>>

\* SIGTERM to the validated process.
StopTerm(s) ==
    LET r == StopRole[s] IN
    /\ At(s, "enter")
    /\ ~SkipsStop(r)
    /\ pidfile[r] \in Pid /\ Alive(pidfile[r]) /\ proc[pidfile[r]].name = r
    /\ proc' = Termed(pidfile[r])
    /\ launcher' = [launcher EXCEPT !.sub = "term", !.pid = pidfile[r]]
    /\ UNCHANGED <<waiting, pidfile, unit, files, anchors, driver, discarded,
                   faults>>

\* Mutant: a process that ignores SIGTERM is given up on.
StopKillNothing(s) ==
    /\ At(s, "term")
    /\ Within("reap")
    /\ UNCHANGED <<waiting, proc, pidfile, unit, files, anchors, driver, discarded,
                   faults>>

\* The polls end: the process is gone, or it is killed.  OpenShell validates
\* the process again before SIGKILL; the native provider does not.
StopKill(s) ==
    LET r == StopRole[s]
        p == launcher.pid IN
    /\ At(s, "term")
    /\ \/ ~Alive(p) /\ UNCHANGED proc /\ Within("reap")
       \/ /\ Alive(p)
          /\ launcher.provider = "native" \/ proc[p].name = r
          /\ proc' = Killed(p)
          /\ Within("reap")
       \/ /\ Alive(p)
          /\ launcher.provider = "openshell" /\ proc[p].name # r
          /\ UNCHANGED proc
          /\ Fails
    /\ UNCHANGED <<waiting, pidfile, unit, files, anchors, driver, discarded,
                   faults>>

StopReap(s) ==
    /\ At(s, "reap")
    /\ pidfile' = [pidfile EXCEPT ![StopRole[s]] = Absent]
    /\ Proceed
    /\ UNCHANGED <<waiting, proc, unit, files, anchors, driver, discarded,
                   faults>>

\* stop_zot signals whatever process has the PID and does not wait for it.
StopZot ==
    /\ At("stop_zot", "enter")
    /\ proc' = IF pidfile["zot"] \in Pid /\ Alive(pidfile["zot"])
               THEN Termed(pidfile["zot"]) ELSE proc
    /\ pidfile' = [pidfile EXCEPT !["zot"] = Absent]
    /\ Proceed
    /\ UNCHANGED <<waiting, unit, files, anchors, driver, discarded, faults>>

\* sweep_matching_listeners kills services on the port no PID file names; it
\* does nothing on a host without lsof.
Sweep ==
    /\ At("sweep", "enter")
    /\ \/ UNCHANGED proc
       \/ proc' = [p \in Pid |->
                      IF proc[p].port = "service" /\ proc[p].name = "service"
                      THEN NoProcess ELSE proc[p]]
    /\ Proceed
    /\ UNCHANGED <<waiting, pidfile, unit, files, anchors, driver, discarded,
                   faults>>

Ports == IF launcher.provider = "native" THEN {"service"}
         ELSE {"service", "gateway"}

FreePorts ==
    /\ At("free_ports", "enter")
    /\ IF \E r \in Ports : Listening(r) THEN Fails ELSE Proceed
    /\ UNCHANGED <<waiting, proc, pidfile, unit, files, anchors, driver,
                   discarded, faults>>

DriversStopped ==
    IF ~launcher.failing /\ launcher.mode = "teardown"
    THEN launcher' = Return(launcher, "ok") ELSE Proceed

\* Mutant: a VM driver that does not stop is only warned about.
StopDriversBestEffort ==
    /\ At("stop_drivers", "enter")
    /\ driver' \in {"none", driver}
    /\ DriversStopped
    /\ UNCHANGED <<waiting, proc, pidfile, unit, files, anchors, discarded,
                   faults>>

\* stop_scoped_vm_drivers: SIGTERM, one second, and an error if one is left.
\* A driver that pgrep and ps do not show, because they are missing or fail, is
\* passed over.
StopDrivers ==
    /\ At("stop_drivers", "enter")
    /\ \/ driver' = "none" /\ DriversStopped
       \/ driver # "none" /\ driver' = "missed" /\ DriversStopped
       \/ driver # "none" /\ UNCHANGED driver /\ Fails
    /\ UNCHANGED <<waiting, proc, pidfile, unit, files, anchors, discarded,
                   faults>>

\* The registry this run started is signalled and its PID file removed.
SignalZot ==
    /\ At("signal_zot", "enter")
    /\ proc' = IF launcher.zot # 0 /\ Alive(launcher.zot)
               THEN Termed(launcher.zot) ELSE proc
    /\ pidfile' = IF launcher.zot = 0 THEN pidfile
                  ELSE [pidfile EXCEPT !["zot"] = Absent]
    /\ Proceed
    /\ UNCHANGED <<waiting, unit, files, anchors, driver, discarded, faults>>

\* Processes named by a PID file that is being removed under them.
Unnamed(pids) ==
    [p \in Pid |-> IF p \in pids /\ Alive(p)
                   THEN [proc[p] EXCEPT !.lost = TRUE] ELSE proc[p]]

StateFile == {"profile", "gateway", "ca"}
WithoutState == [f \in DOMAIN files |-> IF f \in StateFile THEN 0 ELSE files[f]]
NoFiles == [f \in File \cup {"provider"} |-> IF f = "provider" THEN "none" ELSE 0]
OnlyMeta == [NoFiles EXCEPT !.meta = files.meta]

\* The PID files go with the state.  Those of the roles that this provider has
\* stopped name nobody; the processes that the others name are lost.
Forgotten ==
    [p \in Pid |-> IF \E r \in Role \ Ports : pidfile[r] = p /\ proc[p].name = r
                   THEN [proc[p] EXCEPT !.lost = TRUE] ELSE proc[p]]

\* remove_tree of the state root, which also holds the PID files, and then of
\* the configuration root, both the same for the two providers; then OpenShell
\* removes the metadata, certificates and VM state of its gateway, which are
\* elsewhere, and the native provider its workspaces.  Each may fail.
Clean ==
    /\ At("clean", "enter")
    /\ \/ /\ launcher.mode \in {"clean", "uninstall"}
          /\ proc' = Forgotten
          /\ pidfile' = [r \in Role |-> Absent]
          /\ discarded' = IF files.ca = 0 THEN discarded ELSE discarded + 1
          /\ \/ /\ files' = IF launcher.provider = "native" THEN OnlyMeta ELSE NoFiles
                /\ IF launcher.mode = "uninstall"
                   THEN launcher' = Return(launcher, "ok") ELSE Proceed
             \/ files' \in {WithoutState, OnlyMeta} /\ Fails
       \/ /\ launcher.mode \in {"clean", "uninstall"}
          /\ Fails
          /\ UNCHANGED <<proc, pidfile, files, discarded>>
       \/ /\ launcher.mode = "teardown"
          /\ launcher' = Return(launcher, "ok")
          /\ UNCHANGED <<proc, pidfile, files, discarded>>
       \/ /\ launcher.mode = "provision"
          /\ Proceed
          /\ UNCHANGED <<proc, pidfile, files, discarded>>
    /\ UNCHANGED <<waiting, unit, anchors, driver, faults>>

-----------------------------------------------------------------------------
(***************************************************************************)
(* Provisioning.                                                           *)
(***************************************************************************)

\* A step that changes nothing the model keeps: it passes or fails.
Passes(s) ==
    /\ At(s, "enter")
    /\ Proceed \/ Fails
    /\ UNCHANGED <<waiting, proc, pidfile, unit, files, anchors, driver, discarded,
                   faults>>

Skips(s) ==
    /\ At(s, "enter")
    /\ Proceed
    /\ UNCHANGED <<waiting, proc, pidfile, unit, files, anchors, driver, discarded,
                   faults>>

Native == launcher.provider = "native"

\* verify_provision_assets, the pinned versions and prepare_dev_image, which an
\* uninstall and a teardown skip.
VerifyAssets ==
    IF launcher.mode \in {"uninstall", "teardown"} THEN Skips("verify") ELSE Passes("verify")

\* The service binary, the policy, sandbox-exec or bwrap, and openssl.
NativePreflight == Native /\ Passes("preflight")

\* /dev/kvm and glibc, or developer mode and the signature of the VM driver.
PlatformPreflight == ~Native /\ Passes("preflight")

\* --check-config: before a native service is started, after an OpenShell one is.
CheckConfig ==
    IF ~Native /\ launcher.start = "no_start" THEN Skips("check") ELSE Passes("check")

\* /bin/true in the sandbox runner, with the profile but without the service.
SmokeTest == IF launcher.start = "no_start" THEN Skips("smoke") ELSE Passes("smoke")

\* generate-certs and harden_gateway_ca; only the gateway started next uses them.
GatewayPki == Passes("gateway_pki")

\* A write that fails leaves the old file or, once it is truncated, an unusable
\* one, which matters for the two files that are read in a later run: a
\* truncated service.json names no provider and counts as openshell.
Writes(s) ==
    /\ At(s, "enter")
    /\ \/ /\ files' = [files EXCEPT ![s] = launcher.run,
                          !.provider = IF s = "config" THEN launcher.provider ELSE @,
                          !.meta = IF s = "gateway" THEN launcher.run ELSE @]
          /\ Proceed
       \/ /\ \/ UNCHANGED files
             \/ /\ s \in {"pki", "config"}
                /\ files' = [files EXCEPT ![s] = 0,
                      !.provider = IF s = "config" THEN "openshell" ELSE @]
          /\ Fails
    /\ UNCHANGED <<waiting, proc, pidfile, unit, anchors, driver, discarded, faults>>

\* --compile-native-policy, and the comparison of the profile with its digest.
CompileProfile == Writes("profile")

\* The PKI of the service and of its caller: self-signed for the native provider,
\* signed by the gateway's CA for OpenShell.
CreatePki == Native /\ Writes("pki")
GenerateServicePki == ~Native /\ Writes("pki")

\* service.json, with the fingerprint of the caller's certificate.
WriteNativeConfig == Native /\ Writes("config")
WriteServiceConfig == ~Native /\ Writes("config")

\* agent.env.
WriteNativeEnv == Native /\ Writes("env")
WriteAgentEnv == ~Native /\ Writes("env")

\* gateway.toml, metadata.json and active_gateway.
WriteGatewayFiles == Writes("gateway")

\* start_registry: without the layout and zot there is no registry.  A usable
\* CA is kept; a missing one is minted, and one in its final day is replaced.
RegistryCA ==
    /\ At("ca", "enter")
    /\ \/ /\ launcher' = [launcher EXCEPT !.step = @ + 3]
          /\ UNCHANGED <<files, discarded>>
       \/ /\ files' = [files EXCEPT !.ca = IF @ = 0 THEN launcher.run ELSE @]
          /\ Proceed
          /\ UNCHANGED discarded
       \/ /\ files.ca # 0
          /\ files' = [files EXCEPT !.ca = launcher.run]
          /\ Proceed
          /\ discarded' = discarded + 1
       \/ UNCHANGED <<files, discarded>> /\ Fails
    /\ UNCHANGED <<waiting, proc, pidfile, unit, anchors, driver, faults>>

\* trust_registry_ca: macOS adds the CA to a keychain or fails; on Linux, where
\* it takes the place of an earlier one, a warning says when it could not.
TrustCA ==
    /\ At("trust", "enter")
    /\ \/ anchors' \in {anchors \cup {files.ca}, anchors} /\ Proceed
       \/ UNCHANGED anchors /\ Fails
    /\ UNCHANGED <<waiting, proc, pidfile, unit, files, driver, discarded, faults>>

NewProcess(r) == [NoProcess EXCEPT !.name = r, !.port = "starting",
                                   !.run = launcher.run]

\* NO_START skips the gateway and the service, not the registry.
StartSkipped(s) ==
    /\ At(s, "enter")
    /\ s # "start_zot" /\ launcher.start = "no_start"
    /\ Proceed
    /\ UNCHANGED <<waiting, proc, pidfile, unit, files, anchors, driver, discarded,
                   faults>>

\* Mutant: started is not set until the process is ready.
RecordedWhenReady(s) == launcher

\* started.gateway and started.service are set before the spawn, zot_pid only
\* when start_registry has succeeded.
Recorded(s) ==
    IF s = "start_zot" \/ launcher.provider = "native" THEN launcher
    ELSE [launcher EXCEPT !.started = @ \cup {StartRole[s]}]

Spawns(s) ==
    /\ At(s, "enter")
    /\ \/ \E p \in Pid :
            /\ IsNew(p)
            /\ proc' = [proc EXCEPT ![p] = NewProcess(StartRole[s])]
            /\ launcher' = [Recorded(s) EXCEPT !.sub = "spawned", !.pid = p,
                               !.child = IF s = "start_service" THEN p ELSE @]
       \/ launcher' = FailOf(Recorded(s)) /\ UNCHANGED proc
    /\ UNCHANGED <<waiting, pidfile, unit, files, anchors, driver, discarded, faults>>

SpawnRegistry == Spawns("start_zot")
SpawnGateway == launcher.start # "no_start" /\ Spawns("start_gateway")
SpawnService == ~Native /\ launcher.start # "no_start" /\ Spawns("start_service")

\* In the foreground or, with --detach, in a process group of its own.
SpawnNativeService ==
    Native /\ launcher.start \in {"foreground", "detach"} /\ Spawns("start_service")

\* The PID file is truncated, then written.  When that fails OpenShell signals
\* the child; the native provider leaves it.
AbandonChild ==
    /\ Fails
    /\ proc' = IF ~Alive(launcher.pid) THEN proc
               ELSE [proc EXCEPT ![launcher.pid].lost = TRUE,
                        ![launcher.pid].termed = @ \/ launcher.provider = "openshell"]

StartOpen(s) ==
    /\ At(s, "spawned")
    /\ \/ /\ pidfile' = [pidfile EXCEPT ![StartRole[s]] = Torn]
          /\ Within("open")
          /\ UNCHANGED proc
       \/ AbandonChild /\ UNCHANGED pidfile
    /\ UNCHANGED <<waiting, unit, files, anchors, driver, discarded, faults>>

StartWrite(s) ==
    /\ At(s, "open")
    /\ \/ /\ pidfile' = [pidfile EXCEPT ![StartRole[s]] = launcher.pid]
          /\ Within("poll")
          /\ UNCHANGED proc
       \/ AbandonChild /\ UNCHANGED pidfile
    /\ UNCHANGED <<waiting, unit, files, anchors, driver, discarded, faults>>

\* Readiness is that somebody listens on the port.
StartReady(s) ==
    /\ At(s, "poll")
    /\ Listening(StartRole[s])
    /\ launcher' = Advance(IF s = "start_zot"
                           THEN [launcher EXCEPT !.started = @ \cup {"zot"},
                                                 !.zot = launcher.pid]
                           ELSE launcher)
    /\ UNCHANGED <<waiting, proc, pidfile, unit, files, anchors, driver, discarded,
                   faults>>

\* The polls are used up, or the registry has no digest for the image: zot is
\* signalled.  It is left running when curl cannot be run to ask for the digest.
StartGivesUp(s) ==
    /\ At(s, "poll")
    /\ \/ proc' = IF s = "start_zot" /\ Alive(launcher.pid)
                  THEN Termed(launcher.pid) ELSE proc
       \/ s = "start_zot" /\ UNCHANGED proc
    /\ Fails
    /\ UNCHANGED <<waiting, pidfile, unit, files, anchors, driver, discarded,
                   faults>>

\* start_service_systemd: the unit is written, loaded and enabled; no PID file.
StartUnit ==
    /\ At("start_service", "enter")
    /\ launcher.start = "systemd"
    /\ \/ /\ unit' \in {unit, "file"}
          /\ UNCHANGED proc
          /\ Fails
       \/ \E p \in Pid :
            /\ IsNew(p)
            /\ proc' = [proc EXCEPT ![p] =
                           [NewProcess("service") EXCEPT !.supervised = TRUE]]
            /\ unit' = "enabled"
            /\ launcher' = [launcher EXCEPT !.sub = "poll", !.pid = p]
    /\ UNCHANGED <<waiting, pidfile, files, anchors, driver, discarded, faults>>

\* warm_cache boots a sandbox, whose VM driver may outlive the delete.
Warm ==
    /\ At("warm", "enter")
    /\ \/ launcher.start = "no_start" /\ Proceed /\ UNCHANGED driver
       \/ /\ launcher.start # "no_start"
          /\ driver' \in {driver, "running"}
          /\ Proceed \/ Fails
    /\ UNCHANGED <<waiting, proc, pidfile, unit, files, anchors, discarded, faults>>

\* A foreground run stays in child.wait() while other runs may begin.
Wait ==
    /\ At("wait", "enter")
    /\ waiting' = waiting \cup
           (IF launcher.start = "foreground"
            THEN {[pid |-> launcher.child, run |-> launcher.run]} ELSE {})
    /\ Proceed
    /\ UNCHANGED <<proc, pidfile, unit, files, anchors, driver, discarded, faults>>

Gone(w) == proc[w.pid].run # w.run

\* The child is gone: the PID file is removed, whatever it names by now.
WaitReturns ==
    /\ \E w \in waiting :
        /\ Gone(w)
        /\ waiting' = waiting \ {w}
    /\ proc' = Unnamed({pidfile["service"]})
    /\ pidfile' = [pidfile EXCEPT !["service"] = Absent]
    /\ UNCHANGED <<launcher, unit, files, anchors, driver, discarded, faults>>

-----------------------------------------------------------------------------
(***************************************************************************)
(* The host: processes, systemd, the operator.                             *)
(***************************************************************************)

\* A started process loads its configuration and binds its port, or exits
\* because either is not there.
Boot(p) ==
    LET r == proc[p].name
        usable == /\ ~Listening(r)
                  /\ r = "service" => files.config # 0 /\ files.pki # 0
                  /\ r = "gateway" => files.gateway # 0
    IN
    /\ proc[p].port = "starting"
    /\ proc' = [proc EXCEPT ![p] =
                   IF ~usable THEN NoProcess
                   ELSE IF r = "service"
                   THEN [@ EXCEPT !.port = r, !.config = files.config, !.pki = files.pki]
                   ELSE [@ EXCEPT !.port = r]]
    /\ UNCHANGED <<launcher, waiting, pidfile, unit, files, anchors, driver,
                   discarded, faults>>

\* A process that was signalled ends, and any other may fail.
Exit(p) ==
    /\ Alive(p)
    /\ \/ proc[p].termed /\ UNCHANGED faults
       \/ ~proc[p].termed /\ faults < MaxFaults /\ faults' = faults + 1
    /\ proc' = Killed(p)
    /\ UNCHANGED <<launcher, waiting, pidfile, unit, files, anchors, driver,
                   discarded>>

\* An unrelated process takes a free PID, and perhaps one of the ports.
Other ==
    /\ faults < MaxFaults
    /\ faults' = faults + 1
    /\ \E p \in Free, r \in {"service", "gateway", "none"} :
        /\ r = "none" \/ ~Listening(r)
        /\ proc' = [proc EXCEPT ![p] = [NoProcess EXCEPT !.name = "other", !.port = r]]
    /\ UNCHANGED <<launcher, waiting, pidfile, unit, files, anchors, driver,
                   discarded>>

\* Restart=on-failure of the unit, in no run of the launcher.
Supervise ==
    /\ unit = "enabled"
    /\ ~\E p \in Pid : proc[p].supervised
    /\ \E p \in Pid :
        /\ IsNew(p)
        /\ proc' = [proc EXCEPT ![p] =
                       [NewProcess("service") EXCEPT !.supervised = TRUE, !.run = 0]]
    /\ UNCHANGED <<launcher, waiting, pidfile, unit, files, anchors, driver,
                   discarded, faults>>

\* A child whose PID file is not written yet when its launcher dies.
Orphan == IF launcher.sub \in {"spawned", "open"} THEN {launcher.pid} ELSE {}

\* SIGKILL of a launcher reaches nobody else.
Kill ==
    /\ launcher.on
    /\ faults < MaxFaults
    /\ faults' = faults + 1
    /\ launcher' = Return(launcher, "killed")
    /\ proc' = Unnamed(Orphan)
    /\ UNCHANGED <<waiting, pidfile, unit, files, anchors, driver, discarded>>

\* Ctrl-C reaches the process group of the launcher: every child of the run
\* but a detached native service and a supervised one.
Interrupt ==
    /\ launcher.on
    /\ faults < MaxFaults
    /\ faults' = faults + 1
    /\ launcher' = Return(launcher, "killed")
    /\ LET detached == launcher.provider = "native" /\ launcher.start = "detach"
       IN proc' = [p \in Pid |->
                      IF /\ proc[p].name \in Role
                         /\ proc[p].run = launcher.run
                         /\ ~proc[p].supervised
                      THEN [proc[p] EXCEPT !.lost = @ \/ p \in Orphan,
                                           !.termed = @ \/ ~detached]
                      ELSE proc[p]]
    /\ UNCHANGED <<waiting, pidfile, unit, files, anchors, driver, discarded>>

\* The terminal of a foreground launcher closes: it dies with its child.
Hangup ==
    /\ faults < MaxFaults
    /\ faults' = faults + 1
    /\ \E w \in waiting :
        /\ waiting' = waiting \ {w}
        /\ proc' = IF Gone(w) THEN proc ELSE Killed(w.pid)
    /\ UNCHANGED <<launcher, pidfile, unit, files, anchors, driver, discarded>>

-----------------------------------------------------------------------------
Init ==
    /\ launcher = Idle
    /\ waiting = {}
    /\ proc = [p \in Pid |-> NoProcess]
    /\ pidfile = [r \in Role |-> Absent]
    /\ unit = "none"
    /\ files = NoFiles
    /\ anchors = {}
    /\ driver = "none"
    /\ discarded = 0
    /\ faults = 0

Stop(s) == StopNothing(s) \/ StopRefuses(s) \/ StopTerm(s) \/ StopKill(s) \/ StopReap(s)

Start(s) ==
    \/ StartSkipped(s) \/ StartOpen(s) \/ StartWrite(s)
    \/ StartReady(s) \/ StartGivesUp(s)

\* One step of the run in progress.
Step ==
    \/ StopUnit \/ StopZot \/ Sweep \/ FreePorts \/ StopDrivers \/ SignalZot
    \/ Clean \/ RegistryCA \/ TrustCA \/ StartUnit \/ Warm \/ Wait
    \/ \E s \in DOMAIN StopRole : Stop(s)
    \/ \E s \in DOMAIN StartRole : Start(s)
    \/ SpawnRegistry \/ SpawnGateway \/ SpawnService \/ SpawnNativeService
    \/ VerifyAssets \/ NativePreflight \/ PlatformPreflight \/ CheckConfig
    \/ SmokeTest \/ GatewayPki \/ CompileProfile \/ CreatePki \/ GenerateServicePki
    \/ WriteNativeConfig \/ WriteServiceConfig \/ WriteNativeEnv \/ WriteAgentEnv
    \/ WriteGatewayFiles

Host ==
    \/ WaitReturns \/ Other \/ Supervise \/ Kill \/ Interrupt \/ Hangup
    \/ \E p \in Pid : Boot(p) \/ Exit(p)

Next == Begin \/ Step \/ Host

Spec == Init /\ [][Next]_vars

-----------------------------------------------------------------------------
(***************************************************************************)
(* Properties.                                                             *)
(***************************************************************************)
Process == [name : Role \cup {"none", "other"},
            port : Role \cup {"none", "starting"},
            run : Run, config : Run, pki : Run,
            supervised : BOOLEAN, termed : BOOLEAN, lost : BOOLEAN]

\* The types of the state, and that no two processes listen on one port.
TypeOK ==
    /\ launcher.run \in Run
    /\ launcher.on => launcher.step \in DOMAIN Plan(launcher)
    /\ launcher.pid \in 0..MaxPid /\ launcher.child \in 0..MaxPid
    /\ launcher.zot \in 0..MaxPid
    /\ launcher.started \subseteq Role
    /\ waiting \subseteq [pid : Pid, run : Run]
    /\ proc \in [Pid -> Process]
    /\ pidfile \in [Role -> {Absent, Torn} \cup Pid]
    /\ unit \in {"none", "file", "enabled"}
    /\ \A f \in File : files[f] \in Run
    /\ files.provider \in {"none", "native", "openshell"}
    /\ anchors \subseteq Run
    /\ driver \in {"none", "running", "missed"}
    /\ discarded \in Nat /\ faults \in 0..MaxFaults
    /\ \A r \in Role : Cardinality({p \in Pid : proc[p].port = r}) <= 1

Ended(result) == ~launcher.on /\ launcher.result = result

Ours(p) == proc[p].name \in {"gateway", "service"}

\* Every service and gateway the launcher started is named by its PID file
\* until it is gone, so that the next teardown finds it; the exceptions are a
\* child whose file is being written, one the code has lost (a failed or
\* interrupted write, a foreground launcher removing a newer file, a native
\* clean under an OpenShell gateway) and one systemd supervises.
Accounted ==
    \A p \in Pid :
        Ours(p) /\ ~proc[p].supervised /\ ~proc[p].lost =>
            \/ pidfile[proc[p].name] = p
            \/ launcher.on /\ launcher.pid = p /\ launcher.sub \in {"spawned", "open"}

\* When a run succeeds no service of an earlier run is left running, unless
\* the launcher had lost it, or systemd supervises it and the run was for
\* OpenShell, whose teardown does not look at the unit.
NoOldServiceSurvives ==
    Ended("ok") =>
        \A p \in Pid :
            proc[p].name = "service" /\ ~proc[p].lost =>
                \/ proc[p].run = launcher.run
                \/ proc[p].supervised /\ (\/ launcher.provider = "openshell"
                                         \/ launcher.start = "systemd")

\* After a successful provision the profile, PKI, service.json and agent.env
\* are of one run, and the service this run started uses them: the caller's
\* certificate in agent.env is the one the service authorizes.
SuccessIsConsistent ==
    Ended("ok") /\ launcher.mode \in {"provision", "clean"} =>
        /\ \A f \in {"pki", "config", "env"} : files[f] = launcher.run
        /\ launcher.provider = "native" => files.profile = launcher.run
        /\ files.provider = launcher.provider
        /\ \A p \in Pid :
            proc[p].port = "service" /\ proc[p].name = "service"
                /\ proc[p].run = launcher.run =>
                    proc[p].config = launcher.run /\ proc[p].pki = launcher.run

\* What success means: the service of this run, with the files of this run, and no
\* earlier one beside it.
SuccessIsSound == NoOldServiceSurvives /\ SuccessIsConsistent

\* A failed OpenShell provision leaves none of the processes it started
\* running unsignalled, except a registry that zot.pid still names, for the next
\* teardown, and a service whose PID file a foreground launcher of an earlier
\* native run removed meanwhile.
FailedRunStopsItsOwn ==
    Ended("err") /\ launcher.provider = "openshell" =>
        \A p \in Pid : proc[p].name \in Role /\ proc[p].run = launcher.run
                          => \/ proc[p].termed
                             \/ proc[p].name = "zot" /\ pidfile["zot"] = p
                             \/ proc[p].name = "service" /\ proc[p].lost

\* After a successful uninstall no service, and for OpenShell no gateway, runs
\* that a PID file named when the state was removed; a native uninstall also
\* leaves no unit and nothing that systemd would start again.
UninstallIsClean ==
    Ended("ok") /\ launcher.mode = "uninstall" =>
        /\ \A p \in Pid : proc[p].name \in Ports => proc[p].lost \/ proc[p].supervised
        /\ launcher.provider = "native" =>
            unit = "none" /\ \A p \in Pid : ~proc[p].supervised

\* State is deleted only when its users are stopped: no service, and for an
\* OpenShell run no gateway, that the launcher still knows, and no VM driver
\* that pgrep and ps showed.
StateOutlivesItsUsers ==
    [][At("clean", "enter") /\ launcher' # launcher /\ <<pidfile, files>>' # <<pidfile, files>> =>
        /\ \A p \in Pid :
            proc[p].name \in Ports => proc[p].lost \/ proc[p].supervised
        /\ launcher.provider = "openshell" => driver # "running"]_vars

\* Trusted registry roots do not pile up: each but one was paid for by a removal
\* of the state that held it, or by its last day.
RootsDoNotPileUp == Cardinality(anchors) <= 1 + discarded

\* What runs leave on the host can be found again: processes by their PID files, and
\* no more trusted roots than CAs were deleted or expired.
HostIsAccounted == Accounted /\ RootsDoNotPileUp

\* "obs uninstall - stop everything the launcher started and wipe its state":
\* after it no gateway the launcher started runs.
UninstallStopsTheGateway ==
    Ended("ok") /\ launcher.mode = "uninstall" =>
        ~\E p \in Pid : proc[p].name = "gateway" /\ ~proc[p].termed

=============================================================================
