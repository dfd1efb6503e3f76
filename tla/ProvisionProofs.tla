-------------------------- MODULE ProvisionProofs --------------------------
(***************************************************************************)
(* The safety of the launcher's local lifecycle, for any number of PIDs,   *)
(* runs and faults.                                                        *)
(*                                                                         *)
(* The invariant Inv has one part for each thing a run relies on: the      *)
(* record of the run and the host's state fit together (LauncherFits,      *)
(* HostFits, Supervised), every process can be found (Accounted, Handled), *)
(* processes of earlier runs are gone once their stop is over (OldGone),   *)
(* those of this run are the ones it has recorded (OwnKnown, OwnStarted,   *)
(* OwnStopped), and files, roots and drivers are where the run has got to  *)
(* (Written, Cleaned, Drivers).  The actions are first summarised: Moves   *)
(* says how the record of the run changes, Cases adds what happens to the  *)
(* processes and their PID files.  Each part is then shown to be preserved *)
(* by every case, not by every action; the parts about files, the unit and *)
(* the drivers look at the few actions that write them (Writers, Doers).   *)
(***************************************************************************)
EXTENDS Provision, FiniteSetTheorems, TLAPS

-----------------------------------------------------------------------------
(***************************************************************************)
(* Where a run is in its plan.                                             *)
(***************************************************************************)
\* What a run is asked for, how it starts its processes, where it is in a step, and how it ended.
Modes == {"provision", "clean", "teardown", "uninstall"}
StartModes == {"foreground", "detach", "systemd", "no_start"}
Subs == {"enter", "term", "reap", "spawned", "open", "poll"}
Results == {"none", "ok", "err", "killed"}
\* The record of a run.
LauncherType ==
    [on : BOOLEAN, run : Run, provider : {"native", "openshell"}, mode : Modes,
     start : StartModes, step : Nat, sub : Subs, pid : 0..MaxPid,
     child : 0..MaxPid, zot : 0..MaxPid, started : SUBSET Role,
     failing : BOOLEAN, result : Results]

\* The run is in progress and nothing has failed, or is cleaning up after a failure.
Going == launcher.on /\ ~launcher.failing
GoingNative == Going /\ launcher.provider = "native"
GoingOpenShell == Going /\ launcher.provider = "openshell"
Failing == launcher.on /\ launcher.failing

\* The places of the steps in the two plans.
StopAt(r) == IF launcher.provider = "native" THEN 2 ELSE IF r = "service" THEN 3 ELSE 5
StartAt(r) == IF launcher.provider = "native" THEN 10
              ELSE CASE r = "zot" -> 12 [] r = "gateway" -> 15 [] r = "service" -> 18
CleanAt == IF launcher.provider = "native" THEN 4 ELSE 8
LastOf(l) == IF l.failing THEN 4 ELSE IF l.provider = "native" THEN 13 ELSE 21
LastStep == LastOf(launcher)

\* The roles a run starts, and those it stops.
Launched == IF launcher.provider = "native" THEN {"service"} ELSE Role
Stopped == IF launcher.provider = "native" THEN {"service"} ELSE {"service", "gateway"}

\* The run has not spawned its process for role r yet.
Earlier(r) ==
    /\ Going
    /\ launcher.step < StartAt(r) \/ (launcher.step = StartAt(r) /\ launcher.sub = "enter")
\* The run has spawned it and looks after it.
Minding(r) == Going /\ launcher.step = StartAt(r) /\ launcher.sub \in {"spawned", "open", "poll"}
\* The run stops the process that the PID file named.
Stopping(r) ==
    /\ launcher.on
    /\ launcher.step = IF launcher.failing THEN (IF r = "service" THEN 1 ELSE 2) ELSE StopAt(r)
    /\ launcher.sub \in {"term", "reap"}
\* The run has stopped role r of earlier runs.
AfterStop(r) == Going /\ launcher.step > StopAt(r)

\* A process of role r that the launcher must account for, and one that this run started.
Known(p, r) == proc[p].name = r /\ ~proc[p].lost /\ ~proc[p].supervised
Own(p, r) == proc[p].name = r /\ proc[p].run = launcher.run

\* The record of the run: where it is in its plan, and what it may hold there.
LauncherFits ==
    /\ launcher \in LauncherType
    /\ launcher.on => launcher.step \in 1..LastStep /\ launcher.run # 0 /\ launcher.result = "none"
    /\ Failing => launcher.provider = "openshell"
    /\ launcher.result # "none" => launcher.run # 0
    /\ launcher.on => \/ launcher.sub = "enter"
                      \/ \E r \in Stopped : Stopping(r) /\ launcher.pid \in Pid
                      \/ \E r \in Launched : Minding(r) /\ launcher.pid \in Pid
    /\ launcher.on /\ launcher.provider = "native" => launcher.started = {}
    /\ launcher.on /\ launcher.zot # 0 => "zot" \in launcher.started
    /\ GoingOpenShell =>
        /\ "zot" \in launcher.started => launcher.step > 12
        /\ "gateway" \in launcher.started => launcher.step >= 15
        /\ "service" \in launcher.started => launcher.step >= 18
    /\ launcher.on /\ launcher.mode \in {"uninstall", "teardown"} => Going /\ launcher.step <= CleanAt
    /\ launcher.provider = "openshell" => launcher.start \in {"detach", "no_start"}
    /\ GoingNative /\ launcher.start = "foreground" /\ ~Earlier("service") => launcher.child \in Pid

\* The types of the host's state; a port has one listener.
HostFits ==
    /\ waiting \subseteq [pid : Pid, run : Run]
    /\ proc \in [Pid -> Process]
    /\ pidfile \in [Role -> {Absent, Torn} \cup Pid]
    /\ unit \in {"none", "file", "enabled"}
    /\ DOMAIN files = File \cup {"provider"}
    /\ \A f \in File : files[f] \in Run
    /\ files.provider \in {"none", "native", "openshell"}
    /\ anchors \subseteq Run
    /\ driver \in {"none", "running", "missed"}
    /\ faults \in 0..MaxFaults
    /\ \A p, q \in Pid : proc[p].port \in Role /\ proc[q].port = proc[p].port => p = q
    /\ \A p \in Pid : proc[p].port = "starting" => proc[p].name \in Role

\* Every trusted root but the CA in use is one that was deleted or replaced.
Cleaned ==
    /\ discarded \in Nat
    /\ 0 \notin anchors
    /\ GoingOpenShell /\ launcher.step = 11 => files.ca # 0
    /\ Cardinality(anchors \ {files.ca}) <= discarded

\* Only an enabled unit supervises a service, and a native run removes the unit first.
Supervised ==
    /\ \A p \in Pid : proc[p].supervised => proc[p].name = "service" /\ unit = "enabled"
    /\ GoingNative /\ launcher.step > 1 => unit = "none" \/ (launcher.start = "systemd" /\ ~Earlier("service"))
    /\ Ended("ok") /\ launcher.provider = "native" /\ launcher.start # "systemd" => unit = "none"
    /\ launcher.on /\ launcher.provider = "openshell" =>
        \A p \in Pid : proc[p].supervised => proc[p].run # launcher.run

\* The PID file of the process that is being stopped, and of the one being started.
Handled ==
    /\ \A r \in Stopped : Stopping(r) =>
        /\ pidfile[r] \in {Absent, launcher.pid}
        /\ launcher.sub = "reap" => ~Known(launcher.pid, r)
    /\ \A r \in Launched :
        /\ Minding(r) /\ launcher.sub \in {"spawned", "open"}
        /\ proc[launcher.pid].name \in Role /\ ~proc[launcher.pid].supervised
        => Own(launcher.pid, r)
    /\ GoingOpenShell /\ Minding("zot") /\ launcher.sub = "poll" => pidfile["zot"] = launcher.pid

\* Processes of earlier runs are gone once their role was stopped.
OldGone ==
    /\ \A p \in Pid : proc[p].name \in Role => proc[p].run <= launcher.run
    /\ \A r \in Stopped : AfterStop(r) \/ (Ended("ok") /\ r = "service") =>
        \A p \in Pid : Known(p, r) => proc[p].run = launcher.run

\* Processes of this run: none before they are started, and one while it is minded.
OwnKnown ==
    \A r \in Launched :
        /\ Earlier(r) => \A p \in Pid : ~Own(p, r)
        /\ Minding(r) => \A p \in Pid : Own(p, r) => p = launcher.pid

\* What an OpenShell run has started is on record, or was signalled.
OwnStarted ==
    launcher.on /\ launcher.provider = "openshell" =>
        /\ \A r \in {"gateway", "service"} : r \notin launcher.started =>
            \A p \in Pid : ~Own(p, r)
        /\ \A p \in Pid : Own(p, "gateway") /\ proc[p].lost => proc[p].termed
        /\ \A p \in Pid : Own(p, "gateway") => pidfile["service"] # p
        /\ \A p \in Pid : Own(p, "zot") =>
            proc[p].termed \/ p = launcher.zot \/ Minding("zot")
        /\ AfterStop("service") /\ Earlier("service") => pidfile["service"] = Absent

\* The cleanup after a failure leaves no process of the run unsignalled, but for a registry
\* that zot.pid names.
Signalled(p) ==
    \/ proc[p].termed \/ (proc[p].name = "service" /\ proc[p].lost)
    \/ proc[p].name = "zot" /\ pidfile["zot"] = p
OwnStopped ==
    /\ Failing =>
        /\ launcher.step > 1 \/ Stopping("service") => \A p \in Pid : Own(p, "service") => Signalled(p)
        /\ launcher.step > 2 \/ Stopping("gateway") => \A p \in Pid : Own(p, "gateway") => Signalled(p)
    /\ FailedRunStopsItsOwn

\* The files that a provision leaves for the service and its caller, and where it writes them.
Needed == IF launcher.provider = "native" THEN {"profile", "pki", "config", "env"}
          ELSE {"pki", "config", "env"}
WriteAt(f) ==
    IF launcher.provider = "native"
    THEN CASE f = "profile" -> 6 [] f = "pki" -> 7 [] f = "config" -> 8 [] f = "env" -> 11
    ELSE CASE f = "pki" -> 16 [] f = "config" -> 17 [] f = "env" -> 20
IsWritten(f) ==
    files[f] = launcher.run /\ (f = "config" => files.provider = launcher.provider)
\* The service of this run uses the files of this run.
UsesOwn(p) ==
    Own(p, "service") /\ proc[p].port = "service" =>
        proc[p].config = launcher.run /\ proc[p].pki = launcher.run
\* The files of the run, and of a provision that succeeded.
Written ==
    /\ Going => \A f \in Needed : launcher.step > WriteAt(f) => IsWritten(f)
    /\ Going => \A p \in Pid : UsesOwn(p)
    /\ SuccessIsConsistent

\* No VM driver that was found runs between the teardown and the warm-up.
Drivers == GoingOpenShell /\ launcher.step \in 8..20 => driver # "running"

\* The inductive invariant.
Inv ==
    /\ LauncherFits /\ HostFits /\ Cleaned /\ Supervised /\ Accounted /\ Handled
    /\ OldGone /\ OwnKnown /\ OwnStarted /\ OwnStopped /\ Written /\ Drivers
    /\ UninstallIsClean

-----------------------------------------------------------------------------
\* The steps of a native run, by their place.
LEMMA NativeSteps ==
    /\ Len(NativePlan) = 13
    /\ NativePlan[1] = "unit"
    /\ NativePlan[2] = "stop_service"
    /\ NativePlan[3] = "free_ports"
    /\ NativePlan[4] = "clean"
    /\ NativePlan[5] = "preflight"
    /\ NativePlan[6] = "profile"
    /\ NativePlan[7] = "pki"
    /\ NativePlan[8] = "config"
    /\ NativePlan[9] = "check"
    /\ NativePlan[10] = "start_service"
    /\ NativePlan[11] = "env"
    /\ NativePlan[12] = "smoke"
    /\ NativePlan[13] = "wait"
BY DEF NativePlan

\* The steps of an OpenShell run, by their place.
LEMMA OpenShellSteps ==
    /\ Len(OpenShellPlan) = 21
    /\ OpenShellPlan[1] = "verify"
    /\ OpenShellPlan[2] = "stop_zot"
    /\ OpenShellPlan[3] = "stop_service"
    /\ OpenShellPlan[4] = "sweep"
    /\ OpenShellPlan[5] = "stop_gateway"
    /\ OpenShellPlan[6] = "free_ports"
    /\ OpenShellPlan[7] = "stop_drivers"
    /\ OpenShellPlan[8] = "clean"
    /\ OpenShellPlan[9] = "preflight"
    /\ OpenShellPlan[10] = "ca"
    /\ OpenShellPlan[11] = "trust"
    /\ OpenShellPlan[12] = "start_zot"
    /\ OpenShellPlan[13] = "gateway_pki"
    /\ OpenShellPlan[14] = "gateway"
    /\ OpenShellPlan[15] = "start_gateway"
    /\ OpenShellPlan[16] = "pki"
    /\ OpenShellPlan[17] = "config"
    /\ OpenShellPlan[18] = "start_service"
    /\ OpenShellPlan[19] = "check"
    /\ OpenShellPlan[20] = "env"
    /\ OpenShellPlan[21] = "warm"
BY DEF OpenShellPlan

\* The steps after a failure, by their place.
LEMMA CleanupSteps ==
    /\ Len(CleanupPlan) = 4
    /\ CleanupPlan[1] = "stop_service"
    /\ CleanupPlan[2] = "stop_gateway"
    /\ CleanupPlan[3] = "stop_drivers"
    /\ CleanupPlan[4] = "signal_zot"
BY DEF CleanupPlan

\* Where a native run is when it takes a step.
LEMMA NativePlace ==
    ASSUME LauncherFits, NEW s, NEW sub, At(s, sub), GoingNative
    PROVE  /\ launcher.step \in 1..13
           /\ (launcher.step = 1 <=> s = "unit") /\ (launcher.step = 2 <=> s = "stop_service")
           /\ (launcher.step = 3 <=> s = "free_ports") /\ (launcher.step = 4 <=> s = "clean")
           /\ (launcher.step = 5 <=> s = "preflight") /\ (launcher.step = 6 <=> s = "profile")
           /\ (launcher.step = 7 <=> s = "pki") /\ (launcher.step = 8 <=> s = "config")
           /\ (launcher.step = 9 <=> s = "check") /\ (launcher.step = 10 <=> s = "start_service")
           /\ (launcher.step = 11 <=> s = "env") /\ (launcher.step = 12 <=> s = "smoke")
           /\ (launcher.step = 13 <=> s = "wait")
<1>1. launcher.step \in 1..13
  BY DEF LauncherFits, LastStep, LastOf, GoingNative, GoingOpenShell, Going, Failing
<1>2. NativePlan[launcher.step] = s
  BY DEF At, Plan, GoingNative, GoingOpenShell, Going, Failing
<1> QED
  BY <1>1, <1>2, NativeSteps

\* Where an OpenShell run is when it takes a step.
LEMMA OpenShellPlace ==
    ASSUME LauncherFits, NEW s, NEW sub, At(s, sub), GoingOpenShell
    PROVE  /\ launcher.step \in 1..21
           /\ (launcher.step = 1 <=> s = "verify") /\ (launcher.step = 2 <=> s = "stop_zot")
           /\ (launcher.step = 3 <=> s = "stop_service") /\ (launcher.step = 4 <=> s = "sweep")
           /\ (launcher.step = 5 <=> s = "stop_gateway") /\ (launcher.step = 6 <=> s = "free_ports")
           /\ (launcher.step = 7 <=> s = "stop_drivers") /\ (launcher.step = 8 <=> s = "clean")
           /\ (launcher.step = 9 <=> s = "preflight") /\ (launcher.step = 10 <=> s = "ca")
           /\ (launcher.step = 11 <=> s = "trust") /\ (launcher.step = 12 <=> s = "start_zot")
           /\ (launcher.step = 13 <=> s = "gateway_pki") /\ (launcher.step = 14 <=> s = "gateway")
           /\ (launcher.step = 15 <=> s = "start_gateway") /\ (launcher.step = 16 <=> s = "pki")
           /\ (launcher.step = 17 <=> s = "config") /\ (launcher.step = 18 <=> s = "start_service")
           /\ (launcher.step = 19 <=> s = "check") /\ (launcher.step = 20 <=> s = "env")
           /\ (launcher.step = 21 <=> s = "warm")
<1>1. launcher.step \in 1..21
  BY DEF LauncherFits, LastStep, LastOf, GoingNative, GoingOpenShell, Going, Failing
<1>2. OpenShellPlan[launcher.step] = s
  BY DEF At, Plan, GoingNative, GoingOpenShell, Going, Failing
<1> QED
  BY <1>1, <1>2, OpenShellSteps

\* Where a run that failed is when it takes a step.
LEMMA CleanupPlace ==
    ASSUME LauncherFits, NEW s, NEW sub, At(s, sub), Failing
    PROVE  /\ launcher.step \in 1..4
           /\ (launcher.step = 1 <=> s = "stop_service") /\ (launcher.step = 2 <=> s = "stop_gateway")
           /\ (launcher.step = 3 <=> s = "stop_drivers") /\ (launcher.step = 4 <=> s = "signal_zot")
<1>1. launcher.step \in 1..4
  BY DEF LauncherFits, LastStep, LastOf, GoingNative, GoingOpenShell, Going, Failing
<1>2. CleanupPlan[launcher.step] = s
  BY DEF At, Plan, GoingNative, GoingOpenShell, Going, Failing
<1> QED
  BY <1>1, <1>2, CleanupSteps

-----------------------------------------------------------------------------
(***************************************************************************)
(* How the record of the run changes.                                      *)
(***************************************************************************)
\* How the record m follows from l: the next step, the cleanup, the end.
SameRun(l, m) ==
    /\ m.run = l.run /\ m.provider = l.provider /\ m.mode = l.mode /\ m.start = l.start
SameGoods(l, m) == m.child = l.child /\ m.zot = l.zot /\ m.started = l.started
GoesOn(l, m, k) ==
    /\ SameRun(l, m) /\ SameGoods(l, m) /\ m.on /\ (m.failing <=> l.failing)
    /\ m.step = l.step + k /\ m.sub = "enter" /\ m.result = l.result
TurnsBack(l, m) ==
    /\ SameRun(l, m) /\ SameGoods(l, m) /\ m.on /\ m.failing
    /\ m.step = 1 /\ m.sub = "enter" /\ m.result = l.result
Ends(l, m, result) ==
    /\ SameRun(l, m) /\ ~m.on /\ ~m.failing /\ m.sub = "enter" /\ m.result = result

\* A launcher that has not run yet.
LEMMA IdleType == Idle \in LauncherType
BY ProvisionAssumption DEF Idle, LauncherType, Run, Modes, StartModes, Subs, Results

\* A run that ends forgets all but its number, provider, mode and outcome.
LEMMA ReturnEnds ==
    ASSUME NEW l \in LauncherType, NEW result \in Results
    PROVE  Return(l, result) \in LauncherType /\ Ends(l, Return(l, result), result)
BY IdleType DEF Return, LauncherType, Ends, SameRun, Idle

\* The next step, or the end of the plan.
LEMMA AdvanceMoves ==
    ASSUME NEW l \in LauncherType, l.on, l.step \in 1..LastOf(l),
           l.failing => l.provider = "openshell"
    PROVE  /\ Advance(l) \in LauncherType
           /\ \/ l.step < LastOf(l) /\ GoesOn(l, Advance(l), 1)
              \/ l.step = LastOf(l) /\ l.failing /\ Ends(l, Advance(l), "err")
              \/ l.step = LastOf(l) /\ ~l.failing /\ Ends(l, Advance(l), "ok")
<1>1. Len(Plan(l)) = LastOf(l) /\ LastOf(l) \in Nat
  BY NativeSteps, OpenShellSteps, CleanupSteps DEF Plan, LastOf, LauncherType
<1>2. CASE l.step < LastOf(l)
  <2>1. Advance(l) = [l EXCEPT !.step = l.step + 1, !.sub = "enter", !.pid = 0]
    BY <1>1, <1>2 DEF Advance
  <2>2. Advance(l) \in LauncherType
    <3>1. l.step + 1 \in Nat /\ "enter" \in Subs /\ 0 \in 0..MaxPid
      BY ProvisionAssumption DEF LauncherType, Subs
    <3> QED
      BY <2>1, <3>1 DEF LauncherType
  <2>3. GoesOn(l, Advance(l), 1)
    BY <2>1 DEF LauncherType, GoesOn, SameRun, SameGoods
  <2> QED
    BY <1>2, <2>2, <2>3
<1>3. CASE l.step = LastOf(l) /\ l.failing
  BY <1>1, <1>3, ReturnEnds DEF Advance, Results
<1>4. CASE l.step = LastOf(l) /\ ~l.failing
  BY <1>1, <1>4, ReturnEnds DEF Advance, Results
<1> QED
  BY <1>1, <1>2, <1>3, <1>4

\* A step that fails: the cleanup of an OpenShell run, or the end.
LEMMA FailMoves ==
    ASSUME NEW l \in LauncherType, l.on, l.step \in 1..LastOf(l),
           l.failing => l.provider = "openshell"
    PROVE  /\ FailOf(l) \in LauncherType
           /\ \/ l.failing /\ l.step < LastOf(l) /\ GoesOn(l, FailOf(l), 1)
              \/ l.failing /\ l.step = LastOf(l) /\ Ends(l, FailOf(l), "err")
              \/ /\ ~l.failing /\ l.provider = "openshell" /\ l.started # {}
                 /\ TurnsBack(l, FailOf(l))
              \/ /\ ~l.failing /\ (l.provider = "native" \/ l.started = {})
                 /\ Ends(l, FailOf(l), "err")
<1>1. CASE l.failing
  BY <1>1, AdvanceMoves DEF FailOf
<1>2. CASE ~l.failing /\ l.provider = "openshell" /\ l.started # {}
  <2>1. FailOf(l) = [l EXCEPT !.failing = TRUE, !.step = 1, !.sub = "enter", !.pid = 0]
    BY <1>2 DEF FailOf
  <2>2. FailOf(l) \in LauncherType
    <3>1. 1 \in Nat /\ "enter" \in Subs /\ 0 \in 0..MaxPid
      BY ProvisionAssumption DEF Subs
    <3> QED
      BY <2>1, <3>1 DEF LauncherType
  <2>3. TurnsBack(l, FailOf(l))
    BY <2>1 DEF LauncherType, TurnsBack, SameRun, SameGoods
  <2> QED
    BY <1>2, <2>2, <2>3
<1>3. CASE ~l.failing /\ (l.provider = "native" \/ l.started = {})
  BY <1>3, ReturnEnds DEF FailOf, Results
<1> QED
  BY <1>1, <1>2, <1>3 DEF LauncherType

-----------------------------------------------------------------------------
(***************************************************************************)
(* The moves of a run: what each action does to the record of the run.     *)
(***************************************************************************)
\* On from a step that stops and starts no service and no gateway.
PassOn ==
    /\ Going /\ launcher.sub = "enter"
    /\ \A r \in Stopped : launcher.step # StopAt(r)
    /\ \A r \in Launched : launcher.step # StartAt(r)
    /\ launcher.mode \in {"uninstall", "teardown"} => launcher.step < CleanAt
    /\ \/ launcher.step < LastStep /\ GoesOn(launcher, launcher', 1)
       \/ /\ launcher.provider = "openshell" /\ launcher.step = 10
          /\ GoesOn(launcher, launcher', 3)
       \/ launcher.step = LastStep /\ Ends(launcher, launcher', "ok")

\* A teardown or an uninstall has done its part.
EarlyOk ==
    /\ Going /\ launcher.mode \in {"uninstall", "teardown"}
    /\ \A r \in Stopped : launcher.step > StopAt(r)
    /\ Ends(launcher, launcher', "ok")

\* A step fails, after the processes new were recorded as started.
FailOver(new) ==
    /\ Going
    /\ \/ /\ launcher.provider = "openshell" /\ launcher.started \cup new # {}
          /\ SameRun(launcher, launcher')
          /\ launcher'.on /\ launcher'.failing /\ launcher'.step = 1
          /\ launcher'.sub = "enter" /\ launcher'.result = launcher.result
          /\ launcher'.child = launcher.child /\ launcher'.zot = launcher.zot
          /\ launcher'.started = launcher.started \cup new
       \/ /\ launcher.provider = "native" \/ launcher.started \cup new = {}
          /\ Ends(launcher, launcher', "err")

\* On in the cleanup after a failure.
CleanOn ==
    /\ Failing
    /\ \/ launcher.step < 4 /\ GoesOn(launcher, launcher', 1)
       \/ launcher.step = 4 /\ Ends(launcher, launcher', "err")

\* Where role r is stopped, before or after a failure.
AtStop(r) ==
    /\ launcher.on /\ r \in Stopped
    /\ launcher.step = IF launcher.failing THEN (IF r = "service" THEN 1 ELSE 2) ELSE StopAt(r)
\* Where role r is started.
AtStart(r) == Going /\ r \in Launched /\ launcher.step = StartAt(r)

\* On from a stop.
StopOn(r) == Going /\ AtStop(r) /\ GoesOn(launcher, launcher', 1)

\* On from a start that is done or skipped.
StartOn(r) ==
    /\ AtStart(r)
    /\ \/ launcher.sub = "poll"
       \/ launcher.sub = "enter" /\ launcher.start = "no_start" /\ r # "zot"
    /\ SameRun(launcher, launcher') /\ launcher'.on /\ ~launcher'.failing
    /\ launcher'.step = launcher.step + 1 /\ launcher'.sub = "enter"
    /\ launcher'.result = launcher.result /\ launcher'.child = launcher.child
    /\ IF r = "zot"
       THEN launcher'.started = launcher.started \cup {"zot"} /\ launcher'.zot = launcher.pid
       ELSE launcher'.started = launcher.started /\ launcher'.zot = launcher.zot

\* Within a step.
Stays ==
    /\ SameRun(launcher, launcher') /\ launcher'.on /\ (launcher'.failing <=> launcher.failing)
    /\ launcher'.step = launcher.step /\ launcher'.result = launcher.result
    /\ launcher'.zot = launcher.zot
\* ... to the signal, the reaping, the spawn, and the writing of the PID file.
Terms(r) ==
    /\ AtStop(r) /\ launcher.sub = "enter"
    /\ Stays /\ launcher'.sub = "term" /\ launcher'.pid \in Pid
    /\ launcher'.child = launcher.child /\ launcher'.started = launcher.started
Reaps(r) ==
    /\ AtStop(r) /\ launcher.sub = "term"
    /\ Stays /\ launcher'.sub = "reap" /\ launcher'.pid = launcher.pid
    /\ launcher'.child = launcher.child /\ launcher'.started = launcher.started
Begets(r) ==
    /\ AtStart(r) /\ launcher.sub = "enter"
    /\ Stays /\ launcher'.sub \in {"spawned", "poll"} /\ launcher'.pid \in Pid
    /\ launcher'.sub = "poll" => launcher.start = "systemd"
    /\ IF r = "service" /\ launcher'.sub = "spawned"
       THEN launcher'.child = launcher'.pid ELSE launcher'.child = launcher.child
    /\ IF launcher.provider = "openshell" /\ r # "zot"
       THEN launcher'.started = launcher.started \cup {r}
       ELSE launcher'.started = launcher.started
Notes(r) ==
    /\ AtStart(r)
    /\ \/ launcher.sub = "spawned" /\ launcher'.sub = "open"
       \/ launcher.sub = "open" /\ launcher'.sub = "poll"
    /\ Stays /\ launcher'.pid = launcher.pid
    /\ launcher'.child = launcher.child /\ launcher'.started = launcher.started

\* A run begins, or is killed.
Begins ==
    /\ ~launcher.on /\ launcher'.on /\ ~launcher'.failing
    /\ launcher'.run = launcher.run + 1 /\ launcher'.step = 1 /\ launcher'.sub = "enter"
    /\ launcher'.started = {} /\ launcher'.zot = 0 /\ launcher'.result = "none"
    /\ launcher'.provider = "openshell" => launcher'.start \in {"detach", "no_start"}

Dies == launcher.on /\ Ends(launcher, launcher', "killed")

\* Every way in which the record of the run changes.
Moves ==
    /\ launcher' \in LauncherType
    /\ \/ PassOn \/ EarlyOk \/ CleanOn \/ Begins \/ Dies
       \/ FailOver({}) \/ \E r \in {"gateway", "service"} : AtStart(r) /\ FailOver({r})
       \/ \E r \in Role : StopOn(r) \/ StartOn(r) \/ Terms(r) \/ Reaps(r) \/ Begets(r) \/ Notes(r)
       \/ launcher' = launcher

\* Every move keeps the record of the run in shape.
LEMMA LauncherStep == LauncherFits /\ Moves => LauncherFits'
<1> SUFFICES ASSUME LauncherFits, Moves PROVE LauncherFits'
  OBVIOUS
<1>0. launcher \in LauncherType /\ launcher' \in LauncherType
  BY DEF LauncherFits, Moves
<1> USE DEF Going, Failing, GoingNative, GoingOpenShell, LastStep, LastOf, CleanAt, StopAt,
        StartAt, Stopped, Launched, Role, SameRun
<1>1. ASSUME PassOn PROVE LauncherFits'
  BY <1>0, <1>1 DEF PassOn, GoesOn, Ends, SameGoods, LauncherFits, LauncherType, Earlier
<1>2. ASSUME EarlyOk PROVE LauncherFits'
  BY <1>0, <1>2 DEF EarlyOk, Ends, LauncherFits, LauncherType, Earlier
<1>3. ASSUME CleanOn PROVE LauncherFits'
  BY <1>0, <1>3 DEF CleanOn, GoesOn, Ends, SameGoods, LauncherFits, LauncherType, Earlier
<1>4. ASSUME Begins PROVE LauncherFits'
  BY <1>0, <1>4 DEF Begins, LauncherFits, LauncherType, Earlier, Run
<1>5. ASSUME Dies PROVE LauncherFits'
  BY <1>0, <1>5 DEF Dies, Ends, LauncherFits, LauncherType, Earlier
<1>6. ASSUME FailOver({}) PROVE LauncherFits'
  BY <1>0, <1>6 DEF FailOver, Ends, LauncherFits, LauncherType, Earlier
<1>14. ASSUME NEW r \in {"gateway", "service"}, AtStart(r), FailOver({r}) PROVE LauncherFits'
  BY <1>0, <1>14 DEF FailOver, AtStart, Ends, LauncherFits, LauncherType, Earlier
<1>7. ASSUME NEW r \in Role, StopOn(r) PROVE LauncherFits'
  BY <1>0, <1>7 DEF StopOn, AtStop, GoesOn, SameGoods, LauncherFits, LauncherType, Earlier
<1>8. ASSUME NEW r \in Role, StartOn(r) PROVE LauncherFits'
  BY <1>0, <1>8 DEF StartOn, AtStart, LauncherFits, LauncherType, Earlier, Minding, Stopping, Pid
<1>9. ASSUME NEW r \in Role, Terms(r) PROVE LauncherFits'
  BY <1>0, <1>9 DEF Terms, AtStop, Stays, LauncherFits, LauncherType, Earlier, Stopping
<1>10. ASSUME NEW r \in Role, Reaps(r) PROVE LauncherFits'
  BY <1>0, <1>10 DEF Reaps, AtStop, Stays, LauncherFits, LauncherType, Earlier, Stopping, Minding
<1>11. ASSUME NEW r \in Role, Begets(r) PROVE LauncherFits'
  BY <1>0, <1>11 DEF Begets, AtStart, Stays, LauncherFits, LauncherType, Earlier, Minding
<1>12. ASSUME NEW r \in Role, Notes(r) PROVE LauncherFits'
  BY <1>0, <1>12 DEF Notes, AtStart, Stays, LauncherFits, LauncherType, Earlier, Minding, Stopping
<1>13. ASSUME launcher' = launcher PROVE LauncherFits'
  BY <1>13 DEF LauncherFits, Earlier, Minding, Stopping
<1> QED
  BY <1>1, <1>2, <1>3, <1>4, <1>5, <1>6, <1>7, <1>8, <1>9, <1>10, <1>11, <1>12, <1>13,
     <1>14
     DEF Moves

-----------------------------------------------------------------------------
(***************************************************************************)
(* The table of processes.                                                 *)
(***************************************************************************)
\* Process b is process a but for the signals it got and whether it is lost.
Alike(a, b) ==
    /\ b.name = a.name /\ b.port = a.port /\ b.run = a.run /\ b.config = a.config
    /\ b.pki = a.pki /\ (b.supervised <=> a.supervised)

\* An empty place of the table.
LEMMA NoProcessFields ==
    /\ NoProcess \in Process /\ NoProcess.name = "none" /\ NoProcess.port = "none"
    /\ NoProcess.run = 0 /\ ~NoProcess.supervised /\ ~NoProcess.termed /\ ~NoProcess.lost
BY ProvisionAssumption DEF NoProcess, Process, Run

\* A process of a role is not an empty place.
LEMMA NamedAlive == ASSUME NEW p, proc[p].name \in Role PROVE Alive(p)
BY NoProcessFields DEF Alive, Role

\* SIGKILL.
LEMMA KilledTable ==
    ASSUME HostFits, NEW p \in Pid, proc' = Killed(p)
    PROVE  /\ proc' \in [Pid -> Process] /\ proc'[p] = NoProcess
           /\ \A q \in Pid : q # p => proc'[q] = proc[q]
BY NoProcessFields DEF HostFits, Killed

\* SIGTERM or SIGINT.
LEMMA TermedTable ==
    ASSUME HostFits, NEW p \in Pid, proc' = Termed(p)
    PROVE  /\ proc' \in [Pid -> Process]
           /\ Alike(proc[p], proc'[p]) /\ (proc'[p].lost <=> proc[p].lost) /\ proc'[p].termed
           /\ \A q \in Pid : q # p => proc'[q] = proc[q]
<1>1. proc[p] \in Process /\ TRUE \in BOOLEAN
  BY DEF HostFits
<1>2. [proc[p] EXCEPT !.termed = TRUE] \in Process
  BY <1>1 DEF Process
<1>3. proc' = [proc EXCEPT ![p] = [proc[p] EXCEPT !.termed = TRUE]]
  BY DEF Termed
<1>4. proc' \in [Pid -> Process] /\ proc'[p] = [proc[p] EXCEPT !.termed = TRUE]
  BY <1>2, <1>3 DEF HostFits
<1>5. \A q \in Pid : q # p => proc'[q] = proc[q]
  BY <1>3 DEF HostFits
<1>6. Alike(proc[p], proc'[p]) /\ (proc'[p].lost <=> proc[p].lost) /\ proc'[p].termed
  BY <1>1, <1>4 DEF Alike, Process
<1> QED
  BY <1>4, <1>5, <1>6

\* A PID file is removed or not written: the process it names is lost.
LEMMA UnnamedTable ==
    ASSUME HostFits, NEW S, proc' = Unnamed(S)
    PROVE  /\ proc' \in [Pid -> Process]
           /\ \A q \in Pid : /\ Alike(proc[q], proc'[q])
                             /\ proc'[q].termed <=> proc[q].termed
                             /\ proc'[q].lost <=> proc[q].lost \/ (q \in S /\ Alive(q))
<1>1. ASSUME NEW q \in Pid
      PROVE  /\ proc'[q] \in Process /\ Alike(proc[q], proc'[q])
             /\ proc'[q].termed <=> proc[q].termed
             /\ proc'[q].lost <=> proc[q].lost \/ (q \in S /\ Alive(q))
  <2>1. proc[q] \in Process /\ TRUE \in BOOLEAN
    BY DEF HostFits
  <2>2. CASE q \in S /\ Alive(q)
    <3>1. proc'[q] = [proc[q] EXCEPT !.lost = TRUE]
      BY <2>2 DEF Unnamed
    <3> QED
      BY <2>1, <2>2, <3>1 DEF Alike, Process
  <2>3. CASE ~(q \in S /\ Alive(q))
    <3>1. proc'[q] = proc[q]
      BY <2>3 DEF Unnamed
    <3> QED
      BY <2>1, <2>3, <3>1 DEF Alike
  <2> QED
    BY <2>2, <2>3
<1>2. proc' \in [Pid -> Process]
  BY <1>1 DEF Unnamed
<1> QED
  BY <1>1, <1>2

\* The PID files go with the state: what they name is lost, if nobody has stopped it.
LEMMA ForgottenTable ==
    ASSUME HostFits, proc' = Forgotten
    PROVE  /\ proc' \in [Pid -> Process]
           /\ \A q \in Pid : /\ Alike(proc[q], proc'[q])
                             /\ proc'[q].termed <=> proc[q].termed
                             /\ proc'[q].lost <=>
                                 \/ proc[q].lost
                                 \/ \E r \in Role \ Ports : pidfile[r] = q /\ proc[q].name = r
<1> DEFINE Hit(q) == \E r \in Role \ Ports : pidfile[r] = q /\ proc[q].name = r
<1>1. ASSUME NEW q \in Pid
      PROVE  /\ proc'[q] \in Process /\ Alike(proc[q], proc'[q])
             /\ proc'[q].termed <=> proc[q].termed
             /\ proc'[q].lost <=> proc[q].lost \/ Hit(q)
  <2>1. proc[q] \in Process /\ TRUE \in BOOLEAN
    BY DEF HostFits
  <2>2. proc'[q] = IF Hit(q) THEN [proc[q] EXCEPT !.lost = TRUE] ELSE proc[q]
    BY DEF Forgotten
  <2> HIDE DEF Hit
  <2>3. CASE Hit(q)
    BY <2>1, <2>2, <2>3 DEF Alike, Process
  <2>4. CASE ~Hit(q)
    BY <2>1, <2>2, <2>4 DEF Alike
  <2> QED
    BY <2>3, <2>4
<1>2. proc' \in [Pid -> Process]
  BY <1>1 DEF Forgotten
<1> QED
  BY <1>1, <1>2

\* What a run starts.
LEMMA NewProcessFields ==
    ASSUME LauncherFits, NEW r \in Role
    PROVE  /\ NewProcess(r) \in Process /\ NewProcess(r).name = r
           /\ NewProcess(r).port = "starting" /\ NewProcess(r).run = launcher.run
           /\ ~NewProcess(r).supervised /\ ~NewProcess(r).termed /\ ~NewProcess(r).lost
<1>1. launcher.run \in Run
  BY DEF LauncherFits, LauncherType
<1> QED
  BY <1>1, NoProcessFields DEF NewProcess, Process

\* What systemd starts, for a run or on its own.
LEMMA SupervisedFields ==
    ASSUME LauncherFits, NEW n \in {launcher.run, 0}
    PROVE  LET s == [NewProcess("service") EXCEPT !.supervised = TRUE, !.run = n]
           IN  /\ s \in Process /\ s.name = "service" /\ s.port = "starting" /\ s.run = n
               /\ s.supervised /\ ~s.termed /\ ~s.lost
<1>1. "service" \in Role /\ n \in Run /\ TRUE \in BOOLEAN
  BY ProvisionAssumption DEF LauncherFits, LauncherType, Role, Run
<1>2. NewProcess("service") \in Process
  BY <1>1, NewProcessFields
<1> QED
  BY <1>1, <1>2, NewProcessFields DEF Process

-----------------------------------------------------------------------------
(***************************************************************************)
(* Which move each action is.                                              *)
(***************************************************************************)
\* The steps that stop and start processes.
StopSteps == {"stop_service", "stop_gateway"}
StartSteps == {"start_zot", "start_gateway", "start_service"}

\* A run in progress goes through its plan, or through the cleanup.
LEMMA GoingOrFailing ==
    ASSUME LauncherFits, launcher.on
    PROVE  /\ \/ GoingNative /\ launcher.provider = "native" /\ ~launcher.failing
              \/ GoingOpenShell /\ launcher.provider = "openshell" /\ ~launcher.failing
              \/ Failing /\ launcher.provider = "openshell" /\ launcher.failing
           /\ Going <=> ~launcher.failing
           /\ launcher \in LauncherType /\ launcher.step \in 1..LastStep
BY DEF LauncherFits, LauncherType, GoingNative, GoingOpenShell, Going, Failing

\* The launcher goes on.
LEMMA ProceedIs ==
    ASSUME LauncherFits, launcher.on, Proceed
    PROVE  /\ launcher' \in LauncherType
           /\ Failing => CleanOn
           /\ Going => \/ launcher.step < LastStep /\ GoesOn(launcher, launcher', 1)
                       \/ launcher.step = LastStep /\ Ends(launcher, launcher', "ok")
BY GoingOrFailing, AdvanceMoves DEF Proceed, LastStep, LastOf, CleanOn, Failing, Going

\* A step fails.
LEMMA FailsIs ==
    ASSUME LauncherFits, launcher.on, Fails
    PROVE  /\ launcher' \in LauncherType
           /\ Failing => CleanOn
           /\ Going => FailOver({})
<1>1. launcher' = FailOf(launcher) /\ launcher \in LauncherType
  BY GoingOrFailing DEF Fails
<1>2. CASE Failing
  BY <1>1, <1>2, GoingOrFailing, FailMoves DEF LastStep, LastOf, CleanOn, Failing, Going
<1>3. CASE Going
  BY <1>1, <1>3, GoingOrFailing, FailMoves
     DEF LastStep, FailOver, Failing, Going, TurnsBack, SameGoods
<1> QED
  BY <1>2, <1>3, GoingOrFailing

\* Most steps neither stop nor start a service or gateway.
LEMMA PassPlace ==
    ASSUME LauncherFits, NEW s, At(s, "enter"), s \notin StopSteps \cup StartSteps
    PROVE  /\ launcher.on /\ launcher.sub = "enter"
           /\ Going =>
               /\ \A r \in Stopped : launcher.step # StopAt(r)
               /\ \A r \in Launched : launcher.step # StartAt(r)
               /\ s = "clean" <=> launcher.step = CleanAt
           /\ Failing => (s = "stop_drivers" /\ launcher.step = 3) \/ (s = "signal_zot" /\ launcher.step = 4)
<1>1. launcher.on /\ launcher.sub = "enter"
  BY DEF At
<1> USE DEF StopSteps, StartSteps, Stopped, Launched, Role, StopAt, StartAt, CleanAt
<1>2. CASE GoingNative
  BY <1>1, <1>2, NativePlace DEF GoingNative, Going, Failing
<1>3. CASE GoingOpenShell
  BY <1>1, <1>3, OpenShellPlace DEF GoingOpenShell, Going, Failing
<1>4. CASE Failing
  BY <1>1, <1>4, CleanupPlace DEF Going, Failing
<1> QED
  BY <1>1, <1>2, <1>3, <1>4, GoingOrFailing

\* ... and a run goes on from them.
LEMMA PassIs ==
    ASSUME LauncherFits, NEW s, At(s, "enter"), s \notin StopSteps \cup StartSteps, Proceed,
           s = "clean" => launcher.mode \notin {"uninstall", "teardown"}
    PROVE  /\ launcher' \in LauncherType
           /\ Going => PassOn
           /\ Failing => CleanOn
<1>1. CASE Going
  <2>1. launcher.mode \in {"uninstall", "teardown"} => launcher.step < CleanAt
    <3>1. launcher.step \in Nat /\ CleanAt \in Nat
      BY DEF LauncherFits, LauncherType, CleanAt
    <3> QED
      BY <1>1, <3>1, PassPlace DEF LauncherFits, Going
  <2> QED
    BY <1>1, <2>1, PassPlace, ProceedIs DEF PassOn, Going, Failing
<1>2. CASE Failing
  BY <1>2, PassPlace, ProceedIs DEF Going, Failing
<1> QED
  BY <1>1, <1>2, PassPlace, GoingOrFailing

\* Where a role is stopped.
LEMMA StopPlace ==
    ASSUME LauncherFits, NEW s \in StopSteps, NEW sub, At(s, sub)
    PROVE  StopRole[s] \in {"gateway", "service"} /\ AtStop(StopRole[s]) /\ launcher.sub = sub
<1>1. launcher.on /\ launcher.sub = sub
  BY DEF At
<1> USE DEF StopSteps, StopRole, Stopped, StopAt, AtStop
<1>2. CASE GoingNative
  BY <1>1, <1>2, NativePlace DEF GoingNative, Going
<1>3. CASE GoingOpenShell
  BY <1>1, <1>3, OpenShellPlace DEF GoingOpenShell, Going
<1>4. CASE Failing
  BY <1>1, <1>4, CleanupPlace, GoingOrFailing DEF Failing
<1> QED
  BY <1>1, <1>2, <1>3, <1>4, GoingOrFailing

\* Where a role is started.
LEMMA StartPlace ==
    ASSUME LauncherFits, NEW s \in StartSteps, NEW sub, At(s, sub)
    PROVE  /\ StartRole[s] \in Role /\ AtStart(StartRole[s]) /\ launcher.sub = sub
           /\ StartRole[s] = "zot" <=> s = "start_zot"
           /\ StartRole[s] = "gateway" <=> s = "start_gateway"
           /\ StartRole[s] = "service" <=> s = "start_service"
<1>1. launcher.on /\ launcher.sub = sub
  BY DEF At
<1>2. /\ StartRole["start_zot"] = "zot" /\ StartRole["start_gateway"] = "gateway"
      /\ StartRole["start_service"] = "service"
  BY DEF StartRole
<1> USE DEF StartSteps, Launched, StartAt, AtStart, Role
<1>3. CASE GoingNative
  BY <1>1, <1>2, <1>3, NativePlace DEF GoingNative, Going
<1>4. CASE GoingOpenShell
  BY <1>1, <1>2, <1>4, OpenShellPlace DEF GoingOpenShell, Going
<1>5. CASE Failing
  BY <1>1, <1>5, CleanupPlace
<1> QED
  BY <1>1, <1>3, <1>4, <1>5, GoingOrFailing

-----------------------------------------------------------------------------
(***************************************************************************)
(* The cases of a step: the move of the run, with what happens to the      *)
(* processes and to the PID files of service and gateway.                  *)
(***************************************************************************)
\* No process appears, and none changes but that it is gone, signalled or lost.
Fades ==
    \A p \in Pid :
        \/ proc'[p].name \notin Role /\ ~proc'[p].supervised
        \/ /\ proc'[p].name = proc[p].name /\ proc'[p].run = proc[p].run
           /\ proc[p].lost => proc'[p].lost
           /\ proc[p].termed => proc'[p].termed
           /\ proc'[p].supervised => proc[p].supervised
           /\ proc[p].supervised /\ ~proc'[p].supervised => proc'[p].lost
\* No process is lost but one that systemd gave up.
NoneLost == \A p \in Pid : proc'[p].lost => proc[p].lost \/ proc[p].supervised
\* The PID files of service and gateway are left alone.
KeepsNames == \A r \in {"gateway", "service"} : pidfile'[r] = pidfile[r]
Calm == Fades /\ NoneLost /\ KeepsNames

\* On from a step that does nothing to services and gateways.
CasePass == (PassOn \/ (EarlyOk /\ launcher.mode = "teardown")) /\ Calm

\* The state root is removed, with the PID files.
CaseRemove ==
    /\ PassOn \/ EarlyOk \/ FailOver({})
    /\ Going /\ launcher.sub = "enter" /\ launcher.step = CleanAt
    /\ \A p \in Pid :
        /\ Alike(proc[p], proc'[p]) /\ (proc'[p].termed <=> proc[p].termed)
        /\ proc'[p].lost <=>
            proc[p].lost \/ \E r \in Role \ Ports : pidfile[r] = p /\ proc[p].name = r
    /\ \A r \in Role : pidfile'[r] = Absent

\* A step fails; a child that has no PID file is lost, one of OpenShell's is signalled.
CaseFail ==
    /\ \/ FailOver({})
       \/ \E r \in {"gateway", "service"} : AtStart(r) /\ launcher.sub = "enter" /\ FailOver({r})
    /\ Fades /\ UNCHANGED pidfile
    /\ \A p \in Pid : proc'[p].lost =>
        \/ proc[p].lost
        \/ p = launcher.pid /\ (launcher.provider = "openshell" => proc'[p].termed)
    /\ \A r \in Launched : Minding(r) =>
        /\ launcher.sub # "poll" => (proc'[launcher.pid].name \in Role => proc'[launcher.pid].lost)
        /\ r = "zot" /\ launcher.sub # "poll" =>
            (proc'[launcher.pid].name \in Role => proc'[launcher.pid].termed)

\* A stop is over: skipped, nothing to stop, given up, or done.
CaseStopped(r) ==
    /\ r \in {"gateway", "service"} /\ AtStop(r)
    /\ IF Going THEN StopOn(r) /\ pidfile'[r] = Absent ELSE CleanOn
    /\ UNCHANGED proc
    /\ \A q \in {"gateway", "service"} : q # r => pidfile'[q] = pidfile[q]
    /\ \/ Failing /\ r \notin launcher.started /\ pidfile'[r] = pidfile[r]
       \/ /\ launcher.sub = "enter" /\ pidfile'[r] \in {pidfile[r], Absent}
          /\ \A p \in Pid : pidfile[r] = p => proc[p].name # r
       \/ Failing /\ launcher.sub = "term" /\ pidfile'[r] = pidfile[r]
       \/ launcher.sub = "reap" /\ pidfile'[r] = Absent

\* The end of the cleanup: VM drivers, and the registry.
CaseCleanup ==
    /\ CleanOn /\ launcher.step \in {3, 4} /\ Calm
    /\ launcher.step = 4 => \A p \in Pid : p = launcher.zot /\ proc'[p].name \in Role => proc'[p].termed

\* SIGTERM to the process that the PID file names.
CaseTerm(r) ==
    /\ r \in {"gateway", "service"} /\ Terms(r) /\ Calm
    /\ pidfile[r] = launcher'.pid /\ proc'[launcher'.pid].termed

\* That process is gone, by itself or by SIGKILL.
CaseReap(r) ==
    /\ r \in {"gateway", "service"} /\ Reaps(r) /\ Calm
    /\ proc'[launcher.pid].name \notin Role

\* The process is ready, or is not to be started.
CaseStart(r) == r \in Role /\ StartOn(r) /\ UNCHANGED <<proc, pidfile>>

\* The run spawns its process, or enables the unit.
CaseSpawn(r) ==
    /\ r \in Role /\ Begets(r) /\ UNCHANGED pidfile
    /\ LET p == launcher'.pid
       IN  /\ proc[p].name \notin Role
           /\ proc'[p].name = r /\ proc'[p].run = launcher.run /\ proc'[p].port = "starting"
           /\ ~proc'[p].lost /\ ~proc'[p].termed
           /\ proc'[p].supervised <=> launcher'.sub = "poll"
           /\ launcher'.sub = "poll" =>
               r = "service" /\ launcher.provider = "native" /\ unit' = "enabled"
           /\ \A q \in Pid : q # p => proc'[q] = proc[q]

\* The PID file is truncated, then written.
CaseNote(r) ==
    /\ r \in Role /\ Notes(r) /\ UNCHANGED proc
    /\ pidfile'[r] = IF launcher.sub = "spawned" THEN Torn ELSE launcher.pid
    /\ \A q \in Role : q # r => pidfile'[q] = pidfile[q]

\* A run begins.
CaseBegin == Begins /\ UNCHANGED <<proc, pidfile>>

\* The launcher is killed; a child it had not written down is lost.
CaseDie ==
    /\ Dies /\ Fades /\ KeepsNames
    /\ launcher.sub \in {"spawned", "open"} /\ proc'[launcher.pid].name \in Role =>
        proc'[launcher.pid].supervised \/ proc'[launcher.pid].lost

\* A process boots, exits or is unrelated, or a terminal closes.
CaseHost ==
    /\ launcher' = launcher /\ Calm /\ UNCHANGED pidfile
    /\ \A p \in Pid : proc'[p].name \in Role => (proc'[p].supervised <=> proc[p].supervised)

\* A foreground launcher returns and removes the PID file of the service.
CaseWait ==
    /\ launcher' = launcher
    /\ \A p \in Pid :
        /\ Alike(proc[p], proc'[p]) /\ (proc'[p].termed <=> proc[p].termed)
        /\ proc'[p].lost <=> proc[p].lost \/ (Alive(p) /\ p = pidfile["service"])
    /\ pidfile'["service"] = Absent /\ \A r \in Role \ {"service"} : pidfile'[r] = pidfile[r]

\* systemd starts the service again.
CaseSupervise ==
    /\ UNCHANGED <<launcher, pidfile, unit>> /\ unit = "enabled"
    /\ \E p \in Pid :
        /\ proc[p].name \notin Role
        /\ proc'[p].name = "service" /\ proc'[p].run = 0 /\ proc'[p].supervised
        /\ proc'[p].port = "starting" /\ ~proc'[p].lost
        /\ \A q \in Pid : q # p => proc'[q] = proc[q]

\* What a step of the launcher or of the host may be.
Cases ==
    /\ launcher' \in LauncherType
    /\ \/ CasePass \/ CaseRemove \/ CaseFail \/ CaseCleanup \/ CaseBegin \/ CaseDie
       \/ CaseHost \/ CaseWait \/ CaseSupervise
       \/ \E r \in Role : \/ CaseStopped(r) \/ CaseTerm(r) \/ CaseReap(r)
                          \/ CaseStart(r) \/ CaseSpawn(r) \/ CaseNote(r)

\* Every case is a move of the run.
LEMMA CasesMove == Cases => Moves
BY DEF Cases, Moves, CasePass, CaseRemove, CaseFail, CaseStopped, CaseCleanup, CaseTerm,
       CaseReap, CaseStart, CaseSpawn, CaseNote, CaseBegin, CaseDie, CaseHost, CaseWait,
       CaseSupervise, Role, Going, Failing

\* Processes that do not change fade in the weakest sense.
LEMMA SameFades == UNCHANGED proc => Fades /\ NoneLost
BY DEF Fades, NoneLost

\* So do processes that are killed, signalled or lose their PID file.
LEMMA KilledFades ==
    ASSUME HostFits, NEW p \in Pid, proc' = Killed(p)
    PROVE  Fades /\ NoneLost /\ proc'[p].name \notin Role
BY KilledTable, NoProcessFields DEF Fades, NoneLost, Role

\* Signals.
LEMMA TermedFades ==
    ASSUME HostFits, NEW p \in Pid, proc' = Termed(p)
    PROVE  Fades /\ NoneLost /\ proc'[p].termed
BY TermedTable DEF Fades, NoneLost, Alike

\* Lost PID files.
LEMMA UnnamedFades ==
    ASSUME HostFits, NEW S, proc' = Unnamed(S)
    PROVE  Fades
BY UnnamedTable DEF Fades, Alike

\* A step that leaves processes and PID files alone.
LEMMA QuietStep ==
    ASSUME LauncherFits, NEW s, At(s, "enter"),
           s \notin StopSteps \cup StartSteps \cup {"clean", "signal_zot"},
           Proceed \/ Fails, UNCHANGED <<proc, pidfile>>
    PROVE  Cases
<1>1. Calm
  BY SameFades DEF Calm, KeepsNames
<1>2. launcher.on /\ launcher.sub = "enter"
  BY PassPlace
<1>3. CASE Going
  <2>1. CASE Proceed
    BY <1>1, <1>3, <2>1, PassIs DEF Cases, CasePass
  <2>2. CASE Fails
    <3>1. launcher' \in LauncherType /\ FailOver({})
      BY <1>2, <1>3, <2>2, FailsIs
    <3> QED
      BY <1>1, <1>2, <3>1 DEF Cases, CaseFail, Calm, Minding
  <2> QED
    BY <2>1, <2>2
<1>4. CASE Failing
  <2>1. launcher' \in LauncherType /\ CleanOn
    BY <1>2, <1>4, ProceedIs, FailsIs
  <2>2. launcher.step = 3
    BY <1>4, PassPlace
  <2> QED
    BY <1>1, <2>1, <2>2 DEF Cases, CaseCleanup
<1> QED
  BY <1>2, <1>3, <1>4, GoingOrFailing

\* The checks and writes of a provision.
LEMMA ProvisionSteps ==
    ASSUME LauncherFits,
           \/ VerifyAssets \/ NativePreflight \/ PlatformPreflight \/ CheckConfig \/ SmokeTest
           \/ GatewayPki \/ CompileProfile \/ CreatePki \/ GenerateServicePki
           \/ WriteNativeConfig \/ WriteServiceConfig \/ WriteNativeEnv \/ WriteAgentEnv
           \/ WriteGatewayFiles \/ TrustCA \/ Warm \/ Wait \/ FreePorts
    PROVE  Cases
<1>1. ASSUME NEW s \in {"verify", "preflight", "check", "smoke", "gateway_pki", "profile", "pki",
                        "config", "env", "gateway", "trust", "warm", "wait", "free_ports"},
             At(s, "enter"), Proceed \/ Fails, UNCHANGED <<proc, pidfile>>
      PROVE  Cases
  BY <1>1, QuietStep DEF StopSteps, StartSteps
<1>2. ASSUME NEW s \in {"verify", "preflight", "check", "smoke", "gateway_pki"},
             Passes(s) \/ Skips(s)
      PROVE  Cases
  BY <1>1, <1>2 DEF Passes, Skips
<1>3. ASSUME NEW s \in {"profile", "pki", "config", "env", "gateway"}, Writes(s)
      PROVE  Cases
  BY <1>1, <1>3 DEF Writes
<1>4. ASSUME TrustCA \/ Warm \/ Wait \/ FreePorts PROVE Cases
  BY <1>1, <1>4 DEF TrustCA, Warm, Wait, FreePorts
<1> QED
  BY <1>2, <1>3, <1>4
     DEF VerifyAssets, NativePreflight, PlatformPreflight, CheckConfig, SmokeTest,
         GatewayPki, CompileProfile, CreatePki, GenerateServicePki,
         WriteNativeConfig, WriteServiceConfig, WriteNativeEnv, WriteAgentEnv,
         WriteGatewayFiles

\* The registry is set up, or left out.
LEMMA RegistryStep == ASSUME LauncherFits, RegistryCA PROVE Cases
<1>1. At("ca", "enter") /\ UNCHANGED <<proc, pidfile>>
  BY DEF RegistryCA
<1>2. CASE Proceed \/ Fails
  BY <1>1, <1>2, QuietStep DEF StopSteps, StartSteps
<1>3. CASE launcher' = [launcher EXCEPT !.step = @ + 3]
  <2>1. launcher.on /\ launcher.sub = "enter"
    BY <1>1 DEF At
  <2>2. GoingOpenShell /\ Going /\ launcher.step = 10
    BY <1>1, <2>1, GoingOrFailing, NativePlace, OpenShellPlace, CleanupPlace
       DEF GoingNative, GoingOpenShell, Going
  <2>3. launcher \in LauncherType
    BY DEF LauncherFits
  <2>4. launcher' \in LauncherType /\ GoesOn(launcher, launcher', 3)
    BY <1>3, <2>1, <2>3 DEF LauncherType, GoesOn, SameRun, SameGoods
  <2>5. launcher.mode \notin {"uninstall", "teardown"}
    BY <2>2 DEF LauncherFits, CleanAt, GoingOpenShell, Going
  <2>6. PassOn
    BY <2>1, <2>2, <2>4, <2>5
       DEF PassOn, Stopped, Launched, StopAt, StartAt, GoingOpenShell, Role
  <2> QED
    BY <1>1, <2>4, <2>6, SameFades DEF Cases, CasePass, Calm, KeepsNames
<1> QED
  BY <1>2, <1>3 DEF RegistryCA

\* VM drivers are stopped, which may end a teardown.
LEMMA DriversStep == ASSUME LauncherFits, StopDrivers PROVE Cases
<1>1. At("stop_drivers", "enter") /\ UNCHANGED <<proc, pidfile>> /\ launcher.on
  BY DEF StopDrivers, At
<1>2. CASE Proceed \/ Fails
  BY <1>1, <1>2, QuietStep DEF StopSteps, StartSteps
<1>3. CASE ~launcher.failing /\ launcher.mode = "teardown" /\ launcher' = Return(launcher, "ok")
  <2>1. GoingOpenShell /\ Going /\ launcher.step = 7
    BY <1>1, <1>3, GoingOrFailing, NativePlace, OpenShellPlace DEF GoingOpenShell
  <2>2. launcher' \in LauncherType /\ Ends(launcher, launcher', "ok")
    BY <1>3, ReturnEnds DEF LauncherFits, Results
  <2>3. EarlyOk
    BY <1>3, <2>1, <2>2 DEF EarlyOk, Stopped, StopAt, GoingOpenShell
  <2> QED
    BY <1>1, <1>3, <2>2, <2>3, SameFades DEF Cases, CasePass, Calm, KeepsNames
<1> QED
  BY <1>2, <1>3 DEF StopDrivers, DriversStopped

\* A step that goes on, with processes that fade.
LEMMA CalmStep ==
    ASSUME LauncherFits, NEW s, At(s, "enter"),
           s \notin StopSteps \cup StartSteps \cup {"clean", "signal_zot"}, Proceed, Calm
    PROVE  Cases
<1>1. launcher.on
  BY PassPlace
<1>2. CASE Going
  BY <1>2, PassIs DEF Cases, CasePass
<1>3. CASE Failing
  <2>1. launcher' \in LauncherType /\ CleanOn /\ launcher.step = 3
    BY <1>1, <1>3, ProceedIs, PassPlace
  <2> QED
    BY <2>1 DEF Cases, CaseCleanup
<1> QED
  BY <1>1, <1>2, <1>3, GoingOrFailing

\* The unit is disabled: its service is gone, or runs on unsupervised.
LEMMA UnitStep == ASSUME LauncherFits, HostFits, StopUnit PROVE Cases
<1>1. At("unit", "enter") /\ Proceed /\ UNCHANGED pidfile
  BY DEF StopUnit
<1>2. Fades /\ NoneLost
  <2>1. ASSUME proc' = [p \in Pid |-> IF p \in {q \in Pid : proc[q].supervised}
                                      THEN NoProcess ELSE proc[p]]
        PROVE  Fades /\ NoneLost
    BY <2>1, NoProcessFields DEF Fades, NoneLost, Role
  <2>2. ASSUME proc' = [p \in Pid |->
                          IF p \in {q \in Pid : proc[q].supervised}
                          THEN [proc[p] EXCEPT !.supervised = FALSE, !.lost = TRUE]
                          ELSE proc[p]]
        PROVE  Fades /\ NoneLost
    <3>1. ASSUME NEW p \in Pid, proc[p].supervised
          PROVE  /\ proc'[p].name = proc[p].name /\ proc'[p].run = proc[p].run
                 /\ proc[p].termed => proc'[p].termed
                 /\ ~proc'[p].supervised /\ proc'[p].lost
      <4>1. proc'[p] = [proc[p] EXCEPT !.supervised = FALSE, !.lost = TRUE]
        BY <2>2, <3>1
      <4>2. proc[p] \in Process
        BY DEF HostFits
      <4> QED
        BY <4>1, <4>2 DEF Process
    <3>2. ASSUME NEW p \in Pid, ~proc[p].supervised PROVE proc'[p] = proc[p]
      BY <2>2, <3>2
    <3> QED
      BY <3>1, <3>2 DEF Fades, NoneLost
  <2> QED
    BY <2>1, <2>2, SameFades DEF StopUnit
<1> QED
  BY <1>1, <1>2, CalmStep DEF Calm, KeepsNames, StopSteps, StartSteps

\* Services that listen on the port are killed.
LEMMA SweepStep == ASSUME LauncherFits, Sweep PROVE Cases
<1>1. At("sweep", "enter") /\ Proceed /\ UNCHANGED pidfile
  BY DEF Sweep
<1>2. Fades /\ NoneLost
  <2>1. ASSUME proc' = [p \in Pid |-> IF proc[p].port = "service" /\ proc[p].name = "service"
                                      THEN NoProcess ELSE proc[p]]
        PROVE  Fades /\ NoneLost
    BY <2>1, NoProcessFields DEF Fades, NoneLost, Role
  <2> QED
    BY <2>1, SameFades DEF Sweep
<1> QED
  BY <1>1, <1>2, CalmStep DEF Calm, KeepsNames, StopSteps, StartSteps

\* Another PID file than those of service and gateway is removed.
LEMMA ZotFile ==
    ASSUME HostFits, pidfile' = [pidfile EXCEPT !["zot"] = Absent]
    PROVE  KeepsNames
BY DEF HostFits, KeepsNames, Role

\* The registry of an earlier run is signalled.
LEMMA StopZotStep == ASSUME LauncherFits, HostFits, StopZot PROVE Cases
<1>1. At("stop_zot", "enter") /\ Proceed
  BY DEF StopZot
<1>2. KeepsNames
  BY ZotFile DEF StopZot
<1>3. Fades /\ NoneLost
  BY TermedFades, SameFades DEF StopZot
<1> QED
  BY <1>1, <1>2, <1>3, CalmStep DEF Calm, StopSteps, StartSteps

\* The signal to the registry of this run is the last step of the cleanup.
LEMMA SignalZotMoves ==
    ASSUME LauncherFits, At("signal_zot", "enter"), Proceed
    PROVE  launcher' \in LauncherType /\ CleanOn /\ launcher.step = 4
<1>1. launcher.on
  BY DEF At
<1>2. Failing /\ launcher.step = 4
  BY <1>1, GoingOrFailing, NativePlace, OpenShellPlace, CleanupPlace
<1> QED
  BY <1>1, <1>2, ProceedIs

\* The registry of this run is signalled.
LEMMA SignalZotStep == ASSUME LauncherFits, HostFits, SignalZot PROVE Cases
<1>1. At("signal_zot", "enter") /\ Proceed /\ launcher.on
  BY DEF SignalZot, At
<1>2. KeepsNames
  BY ZotFile DEF SignalZot, KeepsNames
<1>3. launcher.zot \in 0..MaxPid
  BY DEF LauncherFits, LauncherType
<1>4. CASE launcher.zot # 0 /\ Alive(launcher.zot)
  <2>1. launcher.zot \in Pid /\ proc' = Termed(launcher.zot)
    BY <1>3, <1>4, ProvisionAssumption DEF SignalZot, Pid
  <2> QED
    BY <1>1, <1>2, <2>1, TermedFades, SignalZotMoves DEF Calm, Cases, CaseCleanup
<1>5. CASE ~(launcher.zot # 0 /\ Alive(launcher.zot))
  <2>1. UNCHANGED proc
    BY <1>5 DEF SignalZot
  <2>2. ASSUME NEW p \in Pid, p = launcher.zot PROVE proc'[p].name \notin Role
    <3>1. ~Alive(p)
      BY <1>5, <2>2 DEF Pid
    <3> QED
      BY <2>1, <3>1, NoProcessFields DEF Alive, Role
  <2> QED
    BY <1>1, <1>2, <2>1, <2>2, SameFades, SignalZotMoves DEF Calm, Cases, CaseCleanup
<1> QED
  BY <1>4, <1>5
\* The state is removed, or a teardown ends here, or there is nothing to remove.
LEMMA CleanStep == ASSUME LauncherFits, HostFits, Clean PROVE Cases
<1>1. At("clean", "enter") /\ launcher.on /\ launcher.sub = "enter"
  BY DEF Clean, At
<1>2. "clean" \notin StopSteps \cup StartSteps
  BY DEF StopSteps, StartSteps
<1>3. Going /\ launcher.step = CleanAt
  BY <1>1, <1>2, PassPlace, GoingOrFailing
<1>4. ASSUME launcher' = Return(launcher, "ok"), launcher.mode \in {"uninstall", "teardown"}
      PROVE  launcher' \in LauncherType /\ EarlyOk
  <2>1. launcher' \in LauncherType /\ Ends(launcher, launcher', "ok")
    BY <1>4, ReturnEnds DEF LauncherFits, Results
  <2>2. \A r \in Stopped : launcher.step > StopAt(r)
    BY <1>3 DEF Stopped, StopAt, CleanAt
  <2> QED
    BY <1>3, <1>4, <2>1, <2>2 DEF EarlyOk
<1>5. ASSUME Proceed, launcher.mode \notin {"uninstall", "teardown"}
      PROVE  launcher' \in LauncherType /\ PassOn
  BY <1>1, <1>2, <1>3, <1>5, PassIs
<1>6. CASE proc' = Forgotten /\ pidfile' = [r \in Role |-> Absent]
           /\ launcher.mode \in {"clean", "uninstall"}
  <2>1. launcher' \in LauncherType /\ (PassOn \/ EarlyOk \/ FailOver({}))
    BY <1>1, <1>3, <1>4, <1>5, <1>6, FailsIs DEF Clean
  <2>2. \A p \in Pid :
          /\ Alike(proc[p], proc'[p]) /\ (proc'[p].termed <=> proc[p].termed)
          /\ proc'[p].lost <=>
              proc[p].lost \/ \E r \in Role \ Ports : pidfile[r] = p /\ proc[p].name = r
    BY <1>6, ForgottenTable
  <2> QED
    BY <1>1, <1>3, <1>6, <2>1, <2>2 DEF Cases, CaseRemove
<1>7. CASE UNCHANGED <<proc, pidfile>> /\ Fails
  <2>1. launcher' \in LauncherType /\ FailOver({})
    BY <1>1, <1>3, <1>7, FailsIs
  <2> QED
    BY <1>1, <1>7, <2>1, SameFades DEF Cases, CaseFail, Minding
<1>8. CASE launcher.mode \in {"teardown", "provision"} /\ UNCHANGED <<proc, pidfile>>
  <2>1. launcher' \in LauncherType /\ (PassOn \/ (EarlyOk /\ launcher.mode = "teardown"))
    BY <1>4, <1>5, <1>8 DEF Clean
  <2> QED
    BY <1>8, <2>1, SameFades DEF Cases, CasePass, Calm, KeepsNames
<1> QED
  BY <1>6, <1>7, <1>8 DEF Clean

\* A stop that finds nothing.
LEMMA StopNothingStep ==
    ASSUME LauncherFits, HostFits, NEW s \in StopSteps, StopNothing(s)
    PROVE  Cases
<1> DEFINE r == StopRole[s]
<1>1. /\ r \in {"gateway", "service"} /\ AtStop(r) /\ launcher.sub = "enter" /\ launcher.on
      /\ At(s, "enter") /\ Proceed /\ UNCHANGED proc
  BY StopPlace DEF StopNothing, At
<1> HIDE DEF r
<1>2. launcher' \in LauncherType /\ (Failing => CleanOn) /\ (Going => StopOn(r))
  <2>1. Going => launcher.step < LastStep
    BY <1>1 DEF AtStop, StopAt, LastStep, LastOf, Going
  <2> QED
    BY <1>1, <2>1, ProceedIs, GoingOrFailing DEF StopOn
<1>3. (SkipsStop(r) /\ UNCHANGED pidfile) \/
      (/\ pidfile[r] = Absent \/ (pidfile[r] \in Pid /\ ~Alive(pidfile[r]))
       /\ pidfile' = [pidfile EXCEPT ![r] = Absent])
  BY DEF StopNothing, r
<1>4. CASE SkipsStop(r) /\ UNCHANGED pidfile
  <2>1. Failing /\ r \notin launcher.started
    BY <1>1, <1>4 DEF SkipsStop, Failing
  <2> QED
    BY <1>1, <1>2, <1>4, <2>1 DEF Cases, CaseStopped, Failing, Going, Role
<1>5. CASE /\ pidfile[r] = Absent \/ (pidfile[r] \in Pid /\ ~Alive(pidfile[r]))
           /\ pidfile' = [pidfile EXCEPT ![r] = Absent]
  <2>1. /\ pidfile'[r] = Absent
        /\ \A q \in {"gateway", "service"} : q # r => pidfile'[q] = pidfile[q]
    BY <1>1, <1>5 DEF HostFits, Role
  <2>2. \A p \in Pid : pidfile[r] = p => proc[p].name # r
    BY <1>1, <1>5, NoProcessFields DEF Alive, Absent, Pid
  <2> QED
    BY <1>1, <1>2, <2>1, <2>2, GoingOrFailing DEF Cases, CaseStopped, Role
<1> QED
  BY <1>3, <1>4, <1>5

\* A stop that is refused.
LEMMA StopRefusesStep ==
    ASSUME LauncherFits, HostFits, NEW s \in StopSteps, StopRefuses(s)
    PROVE  Cases
<1> DEFINE r == StopRole[s]
<1>1. /\ r \in {"gateway", "service"} /\ AtStop(r) /\ launcher.sub = "enter" /\ launcher.on
      /\ At(s, "enter") /\ Fails /\ UNCHANGED <<proc, pidfile>>
  BY StopPlace DEF StopRefuses, At
<1>2. \A p \in Pid : pidfile[r] = p => proc[p].name # r
  BY ProvisionAssumption DEF StopRefuses, Torn, Pid
<1> HIDE DEF r
<1>3. launcher' \in LauncherType /\ (Failing => CleanOn) /\ (Going => FailOver({}))
  BY <1>1, FailsIs
<1>4. CASE Going
  BY <1>1, <1>3, <1>4, SameFades DEF Cases, CaseFail, KeepsNames, Minding
<1>5. CASE Failing
  BY <1>1, <1>2, <1>3, <1>5 DEF Cases, CaseStopped, Role, Going, Failing
<1> QED
  BY <1>1, <1>4, <1>5, GoingOrFailing

\* SIGTERM to what the PID file names.
LEMMA StopTermStep ==
    ASSUME LauncherFits, HostFits, NEW s \in StopSteps, StopTerm(s)
    PROVE  Cases
<1> DEFINE r == StopRole[s]
           p == pidfile[r]
<1>1. /\ r \in {"gateway", "service"} /\ AtStop(r) /\ launcher.sub = "enter" /\ launcher.on
      /\ p \in Pid /\ proc' = Termed(p) /\ UNCHANGED pidfile
      /\ launcher' = [launcher EXCEPT !.sub = "term", !.pid = p]
  BY StopPlace DEF StopTerm, At
<1> HIDE DEF r, p
<1>2. Calm /\ proc'[p].termed
  BY <1>1, TermedFades DEF Calm, KeepsNames
<1>3. launcher' \in LauncherType /\ Terms(r) /\ launcher'.pid = p
  <2>1. launcher \in LauncherType /\ p \in 0..MaxPid /\ "term" \in Subs
    BY <1>1 DEF LauncherFits, Pid, Subs
  <2>2. launcher' \in LauncherType
    BY <1>1, <2>1 DEF LauncherType
  <2>3. Terms(r) /\ launcher'.pid = p
    BY <1>1, <2>1 DEF LauncherType, Terms, Stays, SameRun
  <2> QED
    BY <2>2, <2>3
<1>4. pidfile[r] = p
  BY DEF p
<1> QED
  BY <1>1, <1>2, <1>3, <1>4 DEF Cases, CaseTerm, Role

\* The polls end.
LEMMA StopKillStep ==
    ASSUME LauncherFits, HostFits, NEW s \in StopSteps, StopKill(s)
    PROVE  Cases
<1> DEFINE r == StopRole[s]
<1>1. /\ r \in {"gateway", "service"} /\ AtStop(r) /\ launcher.sub = "term" /\ launcher.on
      /\ UNCHANGED pidfile
  BY StopPlace DEF StopKill, At
<1> HIDE DEF r
<1>2. launcher.pid \in Pid
  BY <1>1 DEF LauncherFits, Minding
<1>3. ASSUME Within("reap"), Fades, NoneLost, proc'[launcher.pid].name \notin Role PROVE Cases
  <2>1. launcher \in LauncherType /\ "reap" \in Subs
    BY DEF LauncherFits, Subs
  <2>2. launcher' = [launcher EXCEPT !.sub = "reap"]
    BY <1>3 DEF Within
  <2>3. launcher' \in LauncherType
    BY <2>1, <2>2 DEF LauncherType
  <2>4. Reaps(r)
    BY <1>1, <2>1, <2>2 DEF LauncherType, Reaps, Stays, SameRun
  <2> QED
    BY <1>1, <1>3, <2>3, <2>4 DEF Cases, CaseReap, Calm, KeepsNames, Role
<1>4. CASE ~Alive(launcher.pid) /\ UNCHANGED proc /\ Within("reap")
  BY <1>3, <1>4, SameFades, NoProcessFields DEF Alive, Role
<1>5. CASE proc' = Killed(launcher.pid) /\ Within("reap")
  BY <1>2, <1>3, <1>5, KilledFades
<1>6. CASE UNCHANGED proc /\ Fails
  <2>1. launcher' \in LauncherType /\ (Failing => CleanOn) /\ (Going => FailOver({}))
    BY <1>1, <1>6, FailsIs
  <2>2. CASE Going
    BY <1>1, <1>6, <2>1, <2>2, SameFades DEF Cases, CaseFail, KeepsNames, Minding
  <2>3. CASE Failing
    BY <1>1, <1>6, <2>1, <2>3 DEF Cases, CaseStopped, Role, Going, Failing
  <2> QED
    BY <1>1, <2>2, <2>3, GoingOrFailing
<1> QED
  BY <1>4, <1>5, <1>6 DEF StopKill

\* The PID file of what was stopped is removed.
LEMMA StopReapStep ==
    ASSUME LauncherFits, HostFits, NEW s \in StopSteps, StopReap(s)
    PROVE  Cases
<1> DEFINE r == StopRole[s]
<1>1. /\ r \in {"gateway", "service"} /\ AtStop(r) /\ launcher.sub = "reap" /\ launcher.on
      /\ Proceed /\ UNCHANGED proc /\ pidfile' = [pidfile EXCEPT ![r] = Absent]
  BY StopPlace DEF StopReap, At
<1> HIDE DEF r
<1>2. launcher' \in LauncherType /\ (Failing => CleanOn) /\ (Going => StopOn(r))
  <2>1. Going => launcher.step < LastStep
    BY <1>1 DEF AtStop, StopAt, LastStep, LastOf, Going
  <2> QED
    BY <1>1, <2>1, ProceedIs, GoingOrFailing DEF StopOn
<1>3. /\ pidfile'[r] = Absent
      /\ \A q \in {"gateway", "service"} : q # r => pidfile'[q] = pidfile[q]
  BY <1>1 DEF HostFits, Role
<1> QED
  BY <1>1, <1>2, <1>3, GoingOrFailing DEF Cases, CaseStopped, Role
\* NO_START.
LEMMA StartSkippedStep ==
    ASSUME LauncherFits, NEW s \in StartSteps, StartSkipped(s)
    PROVE  Cases
<1> DEFINE r == StartRole[s]
<1>1. /\ r \in Role /\ r # "zot" /\ AtStart(r) /\ launcher.sub = "enter" /\ launcher.on
      /\ launcher.start = "no_start" /\ Proceed /\ UNCHANGED <<proc, pidfile>>
  BY StartPlace DEF StartSkipped, At
<1> HIDE DEF r
<1>2. Going /\ launcher.step < LastStep
  BY <1>1 DEF AtStart, StartAt, LastStep, LastOf, Going, Launched, Role
<1>3. launcher' \in LauncherType /\ GoesOn(launcher, launcher', 1)
  <2>1. launcher.step # LastStep
    BY <1>2, <1>1, GoingOrFailing DEF LastStep, LastOf
  <2> QED
    BY <1>1, <1>2, <2>1, ProceedIs
<1>4. StartOn(r)
  BY <1>1, <1>2, <1>3 DEF StartOn, GoesOn, SameGoods, Going
<1> QED
  BY <1>1, <1>3, <1>4 DEF Cases, CaseStart

\* A run records what it is about to start, unless it is the registry.
LEMMA RecordedIs ==
    ASSUME LauncherFits, NEW s \in StartSteps, At(s, "enter")
    PROVE  /\ Recorded(s) \in LauncherType
           /\ SameRun(launcher, Recorded(s)) /\ Recorded(s).on /\ ~Recorded(s).failing
           /\ Recorded(s).step = launcher.step /\ Recorded(s).result = launcher.result
           /\ Recorded(s).child = launcher.child /\ Recorded(s).zot = launcher.zot
           /\ IF launcher.provider = "openshell" /\ StartRole[s] # "zot"
              THEN Recorded(s).started = launcher.started \cup {StartRole[s]}
              ELSE Recorded(s).started = launcher.started
<1>1. launcher.on /\ Going /\ launcher \in LauncherType
  BY StartPlace DEF AtStart, Going, LauncherFits
<1>2. CASE s = "start_zot" \/ launcher.provider = "native"
  BY <1>1, <1>2, StartPlace DEF Recorded, SameRun, Going
<1>3. CASE ~(s = "start_zot" \/ launcher.provider = "native")
  <2>1. Recorded(s) = [launcher EXCEPT !.started = launcher.started \cup {StartRole[s]}]
    BY <1>3 DEF Recorded
  <2>2. launcher.started \cup {StartRole[s]} \in SUBSET Role
    BY <1>1, StartPlace DEF LauncherType
  <2>3. Recorded(s) \in LauncherType
    BY <1>1, <2>1, <2>2 DEF LauncherType
  <2>4. launcher.provider = "openshell" /\ StartRole[s] # "zot"
    BY <1>1, <1>3, StartPlace DEF LauncherType
  <2> QED
    BY <1>1, <2>1, <2>3, <2>4 DEF LauncherType, SameRun, Going
<1> QED
  BY <1>2, <1>3

\* A free place of the table is taken.
LEMMA NewTable ==
    ASSUME HostFits, NEW p \in Pid, IsNew(p), NEW x \in Process, proc' = [proc EXCEPT ![p] = x]
    PROVE  /\ proc' \in [Pid -> Process] /\ proc'[p] = x /\ proc[p].name \notin Role
           /\ \A q \in Pid : q # p => proc'[q] = proc[q]
<1>1. proc[p].name \notin Role
  BY NoProcessFields DEF IsNew, Free, Alive, Role
<1> QED
  BY <1>1 DEF HostFits

\* A process is spawned, or the spawn fails.
LEMMA SpawnStep ==
    ASSUME LauncherFits, HostFits, NEW s \in StartSteps, Spawns(s)
    PROVE  Cases
<1> DEFINE r == StartRole[s]
<1>1. /\ r \in Role /\ AtStart(r) /\ launcher.sub = "enter" /\ launcher.on
      /\ At(s, "enter") /\ UNCHANGED pidfile /\ (r = "service" <=> s = "start_service")
  BY StartPlace DEF Spawns, At
<1>2. /\ Recorded(s) \in LauncherType
      /\ SameRun(launcher, Recorded(s)) /\ Recorded(s).on /\ ~Recorded(s).failing
      /\ Recorded(s).step = launcher.step /\ Recorded(s).result = launcher.result
      /\ Recorded(s).child = launcher.child /\ Recorded(s).zot = launcher.zot
      /\ IF launcher.provider = "openshell" /\ r # "zot"
         THEN Recorded(s).started = launcher.started \cup {r}
         ELSE Recorded(s).started = launcher.started
  BY <1>1, RecordedIs
<1>3. \/ \E p \in Pid :
            /\ IsNew(p)
            /\ proc' = [proc EXCEPT ![p] = NewProcess(r)]
            /\ launcher' = [Recorded(s) EXCEPT !.sub = "spawned", !.pid = p,
                               !.child = IF s = "start_service" THEN p ELSE Recorded(s).child]
      \/ launcher' = FailOf(Recorded(s)) /\ UNCHANGED proc
  BY DEF Spawns
<1> HIDE DEF r
<1>4. ASSUME NEW p \in Pid, IsNew(p), proc' = [proc EXCEPT ![p] = NewProcess(r)],
             launcher' = [Recorded(s) EXCEPT !.sub = "spawned", !.pid = p,
                             !.child = IF s = "start_service" THEN p ELSE Recorded(s).child]
      PROVE  Cases
  <2>1. p \in 0..MaxPid /\ "spawned" \in Subs
    BY DEF Pid, Subs
  <2>2. (IF s = "start_service" THEN p ELSE Recorded(s).child) \in 0..MaxPid
    BY <1>2, <2>1 DEF LauncherType
  <2>3. launcher' \in LauncherType
    BY <1>2, <1>4, <2>1, <2>2 DEF LauncherType
  <2>4. /\ launcher'.sub = "spawned" /\ launcher'.pid = p
        /\ launcher'.child = IF r = "service" THEN p ELSE Recorded(s).child
        /\ SameRun(Recorded(s), launcher') /\ launcher'.on /\ ~launcher'.failing
        /\ launcher'.step = Recorded(s).step /\ launcher'.result = Recorded(s).result
        /\ launcher'.zot = Recorded(s).zot /\ launcher'.started = Recorded(s).started
    BY <1>1, <1>2, <1>4 DEF LauncherType, SameRun
  <2>5. Begets(r)
    BY <1>1, <1>2, <2>4 DEF Begets, Stays, SameRun, AtStart, Going
  <2>6. /\ NewProcess(r) \in Process /\ NewProcess(r).name = r
        /\ NewProcess(r).port = "starting" /\ NewProcess(r).run = launcher.run
        /\ ~NewProcess(r).supervised /\ ~NewProcess(r).termed /\ ~NewProcess(r).lost
    BY <1>1, NewProcessFields
  <2>7. /\ proc'[p] = NewProcess(r) /\ proc[p].name \notin Role
        /\ \A q \in Pid : q # p => proc'[q] = proc[q]
    BY <1>4, <2>6, NewTable
  <2>8. CaseSpawn(r)
    BY <1>1, <2>4, <2>5, <2>6, <2>7 DEF CaseSpawn
  <2> QED
    BY <1>1, <2>3, <2>8 DEF Cases
<1>5. ASSUME launcher' = FailOf(Recorded(s)), UNCHANGED proc PROVE Cases
  <2> DEFINE l == Recorded(s)
  <2>1. l \in LauncherType /\ l.on /\ ~l.failing /\ l.step \in 1..LastOf(l)
    BY <1>1, <1>2, GoingOrFailing DEF LastStep, LastOf, AtStart, Going, SameRun
  <2>2. /\ launcher' \in LauncherType
        /\ \/ l.provider = "openshell" /\ l.started # {} /\ TurnsBack(l, launcher')
           \/ (l.provider = "native" \/ l.started = {}) /\ Ends(l, launcher', "err")
    BY <1>5, <2>1, FailMoves
  <2> HIDE DEF l
  <2>3. /\ SameRun(launcher, l) /\ l.result = launcher.result
        /\ l.child = launcher.child /\ l.zot = launcher.zot
        /\ IF launcher.provider = "openshell" /\ r # "zot"
           THEN l.started = launcher.started \cup {r} ELSE l.started = launcher.started
    BY <1>2 DEF l
  <2>4. IF launcher.provider = "openshell" /\ r # "zot" THEN FailOver({r}) ELSE FailOver({})
    BY <1>1, <2>2, <2>3 DEF FailOver, TurnsBack, SameRun, SameGoods, AtStart, Going, Ends
  <2>5. CaseFail
    BY <1>1, <1>5, <2>4, SameFades DEF CaseFail, KeepsNames, Minding, Role
  <2> QED
    BY <2>2, <2>5 DEF Cases
<1> QED
  BY <1>3, <1>4, <1>5

\* A child whose PID file could not be written is lost, and OpenShell signals it.
LEMMA AbandonStep ==
    ASSUME LauncherFits, HostFits, NEW r \in Role, AtStart(r), launcher.sub \in {"spawned", "open"},
           AbandonChild, UNCHANGED pidfile
    PROVE  Cases
<1> DEFINE p == launcher.pid
<1>1. launcher.on /\ Going /\ p \in Pid /\ launcher.provider \in {"native", "openshell"}
  BY DEF AtStart, Going, LauncherFits, LauncherType, Stopping
<1>2. launcher' \in LauncherType /\ FailOver({})
  BY <1>1, FailsIs DEF AbandonChild
<1> HIDE DEF p
<1>3. CASE ~Alive(p)
  <2>1. UNCHANGED proc
    BY <1>3 DEF AbandonChild, p
  <2>2. proc'[p].name \notin Role
    BY <1>3, <2>1, NoProcessFields DEF Alive, Role
  <2> QED
    BY <1>2, <2>1, <2>2, SameFades DEF Cases, CaseFail, KeepsNames, p, NoneLost
<1>4. CASE Alive(p)
  <2>1. proc' = [proc EXCEPT ![p].lost = TRUE, ![p].termed = @ \/ launcher.provider = "openshell"]
    BY <1>4 DEF AbandonChild, p
  <2>2. proc \in [Pid -> Process] /\ proc[p] \in Process
    BY <1>1 DEF HostFits
  <2>3. proc'[p] = [proc[p] EXCEPT !.lost = TRUE, !.termed = @ \/ launcher.provider = "openshell"]
    BY <1>1, <2>1, <2>2
  <2>4. /\ proc'[p].name = proc[p].name /\ proc'[p].run = proc[p].run /\ proc'[p].lost
        /\ proc'[p].termed <=> proc[p].termed \/ launcher.provider = "openshell"
        /\ proc'[p].supervised <=> proc[p].supervised
    BY <2>2, <2>3 DEF Process
  <2>5. \A q \in Pid : q # p => proc'[q] = proc[q]
    BY <1>1, <2>1, <2>2
  <2>6. Fades
    BY <1>1, <2>4, <2>5 DEF Fades
  <2> QED
    BY <1>1, <1>2, <2>4, <2>5, <2>6 DEF Cases, CaseFail, KeepsNames, p, Launched
<1> QED
  BY <1>3, <1>4

\* The PID file is written.
LEMMA NoteStep ==
    ASSUME LauncherFits, HostFits, NEW s \in StartSteps, StartOpen(s) \/ StartWrite(s)
    PROVE  Cases
<1> DEFINE r == StartRole[s]
<1>1. /\ r \in Role /\ AtStart(r) /\ launcher.on
      /\ StartOpen(s) => launcher.sub = "spawned"
      /\ StartWrite(s) => launcher.sub = "open"
  BY StartPlace DEF StartOpen, StartWrite, At
<1>2. CASE AbandonChild /\ UNCHANGED pidfile
  BY <1>1, <1>2, AbandonStep
<1>3. ASSUME NEW sub \in {"open", "poll"}, Within(sub), UNCHANGED proc,
             pidfile' = [pidfile EXCEPT ![r] = IF sub = "open" THEN Torn ELSE launcher.pid],
             launcher.sub = IF sub = "open" THEN "spawned" ELSE "open"
      PROVE  Cases
  <2>0. r \in Role /\ AtStart(r) /\ launcher.on
    BY <1>1
  <2> HIDE DEF r
  <2>1. launcher \in LauncherType /\ sub \in Subs
    BY DEF LauncherFits, Subs
  <2>2. launcher' = [launcher EXCEPT !.sub = sub]
    BY <1>3 DEF Within
  <2>3. launcher' \in LauncherType
    BY <2>1, <2>2 DEF LauncherType
  <2>4. Notes(r)
    BY <1>3, <2>0, <2>1, <2>2 DEF LauncherType, Notes, Stays, SameRun
  <2>5. /\ pidfile'[r] = IF launcher.sub = "spawned" THEN Torn ELSE launcher.pid
        /\ \A q \in Role : q # r => pidfile'[q] = pidfile[q]
    BY <1>3, <2>0 DEF HostFits
  <2> QED
    BY <1>3, <2>0, <2>3, <2>4, <2>5 DEF Cases, CaseNote
<1>4. CASE StartOpen(s)
  <2>1. \/ pidfile' = [pidfile EXCEPT ![r] = Torn] /\ Within("open") /\ UNCHANGED proc
        \/ AbandonChild /\ UNCHANGED pidfile
    BY <1>4 DEF StartOpen
  <2> QED
    BY <1>1, <1>2, <1>3, <1>4, <2>1
<1>5. CASE StartWrite(s)
  <2>1. \/ pidfile' = [pidfile EXCEPT ![r] = launcher.pid] /\ Within("poll") /\ UNCHANGED proc
        \/ AbandonChild /\ UNCHANGED pidfile
    BY <1>5 DEF StartWrite
  <2> QED
    BY <1>1, <1>2, <1>3, <1>5, <2>1
<1> QED
  BY <1>4, <1>5

\* Somebody listens.
LEMMA ReadyStep ==
    ASSUME LauncherFits, NEW s \in StartSteps, StartReady(s)
    PROVE  Cases
<1> DEFINE r == StartRole[s]
           l == IF s = "start_zot"
                THEN [launcher EXCEPT !.started = @ \cup {"zot"}, !.zot = launcher.pid]
                ELSE launcher
<1>1. /\ r \in Role /\ AtStart(r) /\ launcher.on /\ launcher.sub = "poll"
      /\ r = "zot" <=> s = "start_zot"
      /\ UNCHANGED <<proc, pidfile>> /\ launcher' = Advance(l)
  BY StartPlace DEF StartReady, At
<1>2. /\ l \in LauncherType /\ SameRun(launcher, l) /\ l.on /\ ~l.failing
      /\ l.step = launcher.step /\ l.result = launcher.result /\ l.child = launcher.child
      /\ IF r = "zot" THEN l.started = launcher.started \cup {"zot"} /\ l.zot = launcher.pid
         ELSE l.started = launcher.started /\ l.zot = launcher.zot
  <2>1. launcher \in LauncherType /\ ~launcher.failing
    BY <1>1 DEF LauncherFits, AtStart, Going
  <2>2. CASE s = "start_zot"
    <3>1. l = [launcher EXCEPT !.started = launcher.started \cup {"zot"}, !.zot = launcher.pid]
      BY <2>2
    <3>2. launcher.started \cup {"zot"} \in SUBSET Role /\ launcher.pid \in 0..MaxPid
      BY <2>1 DEF LauncherType, Role
    <3> HIDE DEF l
    <3>3. l \in LauncherType
      BY <2>1, <3>1, <3>2 DEF LauncherType
    <3> QED
      BY <1>1, <2>1, <2>2, <3>1, <3>3 DEF LauncherType, SameRun
  <2>3. CASE s # "start_zot"
    BY <1>1, <2>1, <2>3 DEF SameRun
  <2> QED
    BY <2>2, <2>3
<1> HIDE DEF l, r
<1>3. launcher.step \in 1..LastOf(l) /\ launcher.step < LastOf(l)
  BY <1>1, <1>2, GoingOrFailing DEF AtStart, StartAt, LastOf, LastStep, SameRun, Launched, Role, Going
<1>4. launcher' \in LauncherType /\ GoesOn(l, launcher', 1)
  BY <1>1, <1>2, <1>3, AdvanceMoves
<1>5. StartOn(r)
  BY <1>1, <1>2, <1>4 DEF StartOn, GoesOn, SameGoods, SameRun
<1> QED
  BY <1>1, <1>4, <1>5 DEF Cases, CaseStart

\* Nobody does.
LEMMA GivesUpStep ==
    ASSUME LauncherFits, HostFits, NEW s \in StartSteps, StartGivesUp(s)
    PROVE  Cases
<1> DEFINE r == StartRole[s]
<1>1. /\ r \in Role /\ AtStart(r) /\ launcher.on /\ launcher.sub = "poll" /\ Fails /\ Going
      /\ UNCHANGED pidfile /\ (s = "start_zot" <=> r = "zot")
  BY StartPlace DEF StartGivesUp, At, AtStart
<1> HIDE DEF r
<1>2. launcher' \in LauncherType /\ FailOver({})
  BY <1>1, FailsIs
<1>3. launcher.pid \in Pid
  BY <1>1 DEF LauncherFits, Stopping
<1>4. Fades /\ NoneLost
  BY <1>3, TermedFades, SameFades DEF StartGivesUp
<1>5. \A q \in Launched : Minding(q) => q = r
  BY <1>1 DEF Minding, AtStart, StartAt, Launched, Role
<1>6. \A p \in Pid : proc'[p].lost => proc[p].lost
  BY <1>3, TermedTable DEF StartGivesUp
<1>7. CaseFail
  BY <1>1, <1>2, <1>4, <1>5, <1>6 DEF CaseFail, KeepsNames
<1> QED
  BY <1>2, <1>7 DEF Cases

\* The service of a unit, as a run starts it.
LEMMA UnitFields ==
    ASSUME LauncherFits
    PROVE  LET s == [NewProcess("service") EXCEPT !.supervised = TRUE]
           IN  /\ s \in Process /\ s.name = "service" /\ s.port = "starting"
               /\ s.run = launcher.run /\ s.supervised /\ ~s.termed /\ ~s.lost
<1>1. "service" \in Role /\ TRUE \in BOOLEAN
  BY DEF Role
<1>2. NewProcess("service") \in Process
  BY <1>1, NewProcessFields
<1> QED
  BY <1>1, <1>2, NewProcessFields DEF Process

\* The unit is enabled, or that fails.
LEMMA StartUnitStep == ASSUME LauncherFits, HostFits, StartUnit PROVE Cases
<1>0. "start_service" \in StartSteps /\ StartRole["start_service"] = "service"
  BY DEF StartSteps, StartRole
<1>1. /\ AtStart("service") /\ launcher.on /\ launcher.sub = "enter" /\ Going
      /\ UNCHANGED pidfile /\ launcher.start = "systemd"
  BY <1>0, StartPlace DEF StartUnit, At, AtStart
<1>2. launcher.provider = "native" /\ launcher \in LauncherType
  BY <1>1 DEF LauncherFits, LauncherType
<1>3. CASE UNCHANGED proc /\ Fails
  <2>1. launcher' \in LauncherType /\ FailOver({})
    BY <1>1, <1>3, FailsIs
  <2> QED
    BY <1>1, <1>3, <2>1, SameFades DEF Cases, CaseFail, KeepsNames, Minding
<1>4. ASSUME NEW p \in Pid, IsNew(p),
             proc' = [proc EXCEPT ![p] = [NewProcess("service") EXCEPT !.supervised = TRUE]],
             launcher' = [launcher EXCEPT !.sub = "poll", !.pid = p], unit' = "enabled"
      PROVE  Cases
  <2>1. p \in 0..MaxPid /\ "poll" \in Subs
    BY DEF Pid, Subs
  <2>2. launcher' \in LauncherType
    BY <1>2, <1>4, <2>1 DEF LauncherType
  <2>3. Begets("service") /\ launcher'.sub = "poll" /\ launcher'.pid = p
    BY <1>1, <1>2, <1>4 DEF LauncherType, Begets, Stays, SameRun
  <2>4. /\ proc'[p] = [NewProcess("service") EXCEPT !.supervised = TRUE]
        /\ proc[p].name \notin Role /\ \A q \in Pid : q # p => proc'[q] = proc[q]
    BY <1>4, UnitFields, NewTable
  <2>5. /\ proc'[p].name = "service" /\ proc'[p].run = launcher.run
        /\ proc'[p].port = "starting" /\ ~proc'[p].lost /\ ~proc'[p].termed
        /\ proc'[p].supervised
    BY <2>4, UnitFields
  <2>6. CaseSpawn("service")
    BY <1>1, <1>2, <1>4, <2>3, <2>4, <2>5 DEF CaseSpawn, Role
  <2> QED
    BY <2>2, <2>6 DEF Cases, Role
<1> QED
  BY <1>3, <1>4 DEF StartUnit

\* A run begins.
LEMMA BeginStep == ASSUME LauncherFits, Begin PROVE Cases
<1>1. PICK provider \in {"native", "openshell"}, mode \in Modes :
        \E start \in Starts(provider, mode) :
            launcher' = [Idle EXCEPT !.on = TRUE, !.run = launcher.run + 1,
                            !.provider = provider, !.mode = mode, !.start = start]
  BY DEF Begin, Modes
<1>0. PICK start \in Starts(provider, mode) :
        launcher' = [Idle EXCEPT !.on = TRUE, !.run = launcher.run + 1,
                        !.provider = provider, !.mode = mode, !.start = start]
  BY <1>1
<1>2. start \in StartModes /\ (provider = "openshell" => start \in {"detach", "no_start"})
  BY DEF Starts, StartModes
<1>3. launcher.run + 1 \in Run /\ ~launcher.on /\ UNCHANGED <<proc, pidfile>>
  BY ProvisionAssumption DEF Begin, LauncherFits, LauncherType, Run
<1>4. launcher' \in LauncherType
  BY <1>0, <1>2, <1>3, IdleType DEF LauncherType
<1>5. Begins
  BY <1>0, <1>2, <1>3 DEF Begins, Idle
<1> QED
  BY <1>3, <1>4, <1>5 DEF Cases, CaseBegin

\* A process ends while no run of the launcher moves.
LEMMA KilledHost ==
    ASSUME HostFits, NEW p \in Pid, proc' = Killed(p), UNCHANGED <<launcher, pidfile>>
    PROVE  CaseHost
<1>1. \A q \in Pid : proc'[q].name \in Role => (proc'[q].supervised <=> proc[q].supervised)
  BY KilledTable, NoProcessFields DEF Role
<1> QED
  BY <1>1, KilledFades DEF CaseHost, Calm, KeepsNames

\* The host moves: no run of the launcher does.
LEMMA HostStep ==
    ASSUME LauncherFits, HostFits,
           \/ WaitReturns \/ Other \/ Supervise \/ Hangup \/ UNCHANGED vars
           \/ \E p \in Pid : Boot(p) \/ Exit(p)
    PROVE  Cases
<1>0. launcher \in LauncherType
  BY DEF LauncherFits
<1> USE DEF Cases
<1>1. CASE WaitReturns
  <2>1. launcher' = launcher /\ proc' = Unnamed({pidfile["service"]})
        /\ pidfile'["service"] = Absent /\ \A r \in Role \ {"service"} : pidfile'[r] = pidfile[r]
    BY <1>1 DEF WaitReturns, HostFits, Role
  <2>2. \A q \in Pid :
          /\ Alike(proc[q], proc'[q]) /\ (proc'[q].termed <=> proc[q].termed)
          /\ proc'[q].lost <=> proc[q].lost \/ (Alive(q) /\ q = pidfile["service"])
    <3> DEFINE S == {pidfile["service"]}
    <3>1. proc' = Unnamed(S) /\ \A q \in Pid : q \in S <=> q = pidfile["service"]
      BY <2>1
    <3> HIDE DEF S
    <3> QED
      BY <3>1, UnnamedTable
  <2> QED
    BY <1>0, <2>1, <2>2 DEF CaseWait
<1>2. CASE Other
  <2>1. PICK p \in Free, r \in {"service", "gateway", "none"} :
          proc' = [proc EXCEPT ![p] = [NoProcess EXCEPT !.name = "other", !.port = r]]
    BY <1>2 DEF Other
  <2>2. p \in Pid /\ UNCHANGED <<launcher, pidfile>>
    BY <1>2 DEF Other, Free
  <2>3. /\ proc'[p].name = "other" /\ ~proc'[p].supervised /\ ~proc'[p].lost
        /\ \A q \in Pid : q # p => proc'[q] = proc[q]
    BY <2>1, <2>2 DEF HostFits, NoProcess
  <2> QED
    BY <1>0, <2>2, <2>3 DEF CaseHost, Calm, Fades, NoneLost, KeepsNames, Role
<1>3. CASE Supervise
  <2>1. PICK p \in Pid : /\ IsNew(p)
                         /\ proc' = [proc EXCEPT ![p] =
                              [NewProcess("service") EXCEPT !.supervised = TRUE, !.run = 0]]
    BY <1>3 DEF Supervise
  <2>2. unit = "enabled" /\ UNCHANGED <<launcher, pidfile, unit>>
    BY <1>3 DEF Supervise
  <2>3. /\ proc'[p] = [NewProcess("service") EXCEPT !.supervised = TRUE, !.run = 0]
        /\ proc[p].name \notin Role /\ \A q \in Pid : q # p => proc'[q] = proc[q]
    BY <2>1, SupervisedFields, NewTable
  <2>4. /\ proc'[p].name = "service" /\ proc'[p].run = 0 /\ proc'[p].supervised
        /\ proc'[p].port = "starting" /\ ~proc'[p].lost
    BY <2>3, SupervisedFields
  <2> QED
    BY <1>0, <2>2, <2>3, <2>4 DEF CaseSupervise
<1>4. CASE Hangup
  <2>1. PICK w \in waiting : proc' = IF Gone(w) THEN proc ELSE Killed(w.pid)
    BY <1>4 DEF Hangup
  <2>2. w.pid \in Pid /\ UNCHANGED <<launcher, pidfile>>
    BY <1>4 DEF HostFits, Hangup
  <2>3. CASE proc' = Killed(w.pid)
    BY <1>0, <2>2, <2>3, KilledHost
  <2>4. CASE UNCHANGED proc
    BY <1>0, <2>2, <2>4, SameFades DEF CaseHost, Calm, KeepsNames
  <2> QED
    BY <2>1, <2>3, <2>4
<1>5. CASE UNCHANGED vars
  BY <1>0, <1>5, SameFades DEF CaseHost, Calm, KeepsNames, vars
<1>6. ASSUME NEW p \in Pid, Boot(p) PROVE Cases
  <2>1. UNCHANGED <<launcher, pidfile>> /\ proc[p] \in Process /\ proc \in [Pid -> Process]
    BY <1>6 DEF Boot, HostFits
  <2>2. \A q \in Pid : q # p => proc'[q] = proc[q]
    BY <1>6, <2>1 DEF Boot
  <2>3. \/ proc'[p] = NoProcess
        \/ proc'[p] = [proc[p] EXCEPT !.port = proc[p].name, !.config = files.config,
                                      !.pki = files.pki]
        \/ proc'[p] = [proc[p] EXCEPT !.port = proc[p].name]
    BY <1>6, <2>1 DEF Boot
  <2>4. \/ proc'[p] = NoProcess
        \/ /\ proc'[p].name = proc[p].name /\ proc'[p].run = proc[p].run
           /\ (proc'[p].lost <=> proc[p].lost) /\ (proc'[p].termed <=> proc[p].termed)
           /\ proc'[p].supervised <=> proc[p].supervised
    BY <2>1, <2>3 DEF Process
  <2>5. Fades /\ NoneLost
    BY <2>2, <2>4, NoProcessFields DEF Fades, NoneLost, Role
  <2>6. \A q \in Pid : proc'[q].name \in Role => (proc'[q].supervised <=> proc[q].supervised)
    BY <2>2, <2>4, NoProcessFields DEF Role
  <2> QED
    BY <1>0, <2>1, <2>5, <2>6 DEF CaseHost, Calm, KeepsNames
<1>7. ASSUME NEW p \in Pid, Exit(p) PROVE Cases
  BY <1>0, <1>7, KilledHost DEF Exit
<1> QED
  BY <1>1, <1>2, <1>3, <1>4, <1>5, <1>6, <1>7

\* The launcher dies, alone or with the children of its process group.
LEMMA DieStep == ASSUME LauncherFits, HostFits, Handled, Kill \/ Interrupt PROVE Cases
<1>1. launcher.on /\ launcher' = Return(launcher, "killed") /\ UNCHANGED pidfile
  BY DEF Kill, Interrupt
<1>2. launcher' \in LauncherType /\ Dies
  BY <1>1, ReturnEnds DEF LauncherFits, Results, Dies
<1>3. ASSUME launcher.sub \in {"spawned", "open"}
      PROVE  /\ launcher.pid \in Pid /\ Orphan = {launcher.pid}
             /\ proc[launcher.pid].name \in Role /\ ~proc[launcher.pid].supervised
                  => proc[launcher.pid].run = launcher.run
  BY <1>1, <1>3 DEF LauncherFits, Orphan, Handled, Own, Stopping
<1>4. CASE Kill
  <2>1. proc' = Unnamed(Orphan)
    BY <1>4 DEF Kill
  <2>2. ASSUME launcher.sub \in {"spawned", "open"}, proc'[launcher.pid].name \in Role
        PROVE  proc'[launcher.pid].lost
    BY <1>3, <2>1, <2>2, UnnamedTable, NamedAlive DEF Alike
  <2> QED
    BY <1>1, <1>2, <2>1, <2>2, UnnamedFades DEF Cases, CaseDie, KeepsNames
<1>5. CASE Interrupt
  <2> DEFINE detached == launcher.provider = "native" /\ launcher.start = "detach"
             hit(p) == proc[p].name \in Role /\ proc[p].run = launcher.run /\ ~proc[p].supervised
  <2>1. \A p \in Pid : proc'[p] = IF hit(p)
                                  THEN [proc[p] EXCEPT !.lost = @ \/ p \in Orphan,
                                                       !.termed = @ \/ ~detached]
                                  ELSE proc[p]
    BY <1>5 DEF Interrupt
  <2> HIDE DEF detached
  <2>2. ASSUME NEW p \in Pid, hit(p)
        PROVE  /\ proc'[p].name = proc[p].name /\ proc'[p].run = proc[p].run
               /\ proc'[p].lost <=> proc[p].lost \/ p \in Orphan
               /\ proc[p].termed => proc'[p].termed
               /\ proc'[p].supervised <=> proc[p].supervised
    <3>1. proc[p] \in Process
      BY DEF HostFits
    <3>2. proc'[p] = [proc[p] EXCEPT !.lost = @ \/ p \in Orphan, !.termed = @ \/ ~detached]
      BY <2>1, <2>2
    <3> QED
      BY <3>1, <3>2 DEF Process
  <2>3. \A p \in Pid : ~hit(p) => proc'[p] = proc[p]
    BY <2>1
  <2>4. Fades
    BY <2>2, <2>3 DEF Fades
  <2>5. ASSUME launcher.sub \in {"spawned", "open"}, proc'[launcher.pid].name \in Role
        PROVE  proc'[launcher.pid].supervised \/ proc'[launcher.pid].lost
    BY <1>3, <2>2, <2>3, <2>5
  <2> QED
    BY <1>1, <1>2, <2>4, <2>5 DEF Cases, CaseDie, KeepsNames
<1> QED
  BY <1>4, <1>5

\* Every step of the system is one of the cases.
LEMMA StepCases == LauncherFits /\ HostFits /\ Handled /\ [Next]_vars => Cases
<1> SUFFICES ASSUME LauncherFits, HostFits, Handled, [Next]_vars PROVE Cases
  OBVIOUS
<1>1. CASE Begin
  BY <1>1, BeginStep
<1>2. CASE Host \/ UNCHANGED vars
  BY <1>2, HostStep, DieStep DEF Host
<1>3. CASE Step
  <2>1. ASSUME NEW s \in DOMAIN StopRole, Stop(s) PROVE Cases
    <3>1. s \in StopSteps
      BY <2>1 DEF StopRole, StopSteps
    <3> QED
      BY <2>1, <3>1, StopNothingStep, StopRefusesStep, StopTermStep, StopKillStep,
         StopReapStep DEF Stop
  <2>2. ASSUME NEW s \in DOMAIN StartRole, Start(s) PROVE Cases
    <3>1. s \in StartSteps
      BY <2>2 DEF StartRole, StartSteps
    <3> QED
      BY <2>2, <3>1, StartSkippedStep, NoteStep, ReadyStep, GivesUpStep DEF Start
  <2>3. ASSUME SpawnRegistry \/ SpawnGateway \/ SpawnService \/ SpawnNativeService PROVE Cases
    BY <2>3, SpawnStep
       DEF SpawnRegistry, SpawnGateway, SpawnService, SpawnNativeService, StartSteps
  <2> QED
    BY <1>3, <2>1, <2>2, <2>3, UnitStep, StopZotStep, SweepStep, DriversStep, SignalZotStep,
       CleanStep, RegistryStep, StartUnitStep, ProvisionSteps DEF Step
<1> QED
  BY <1>1, <1>2, <1>3 DEF Next

-----------------------------------------------------------------------------
(***************************************************************************)
(* The types of the host's state.                                          *)
(***************************************************************************)
\* Who listens was listening before, as the same process.
SameListener(a, b) ==
    /\ b.name = a.name /\ b.port = a.port /\ b.run = a.run
    /\ b.config = a.config /\ b.pki = a.pki
\* No process takes a port, and the table keeps its type.
Keeps ==
    /\ proc' \in [Pid -> Process]
    /\ \A p \in Pid : proc'[p].port \in Role => SameListener(proc[p], proc'[p])
    /\ \A p \in Pid : proc'[p].port = "starting" =>
        proc'[p].name \in Role \/ SameListener(proc[p], proc'[p])

\* Processes that are left alone, killed, signalled or lose their PID file.
LEMMA FadesKeep ==
    ASSUME HostFits,
           \/ UNCHANGED proc
           \/ \E p \in Pid : proc' = Killed(p) \/ proc' = Termed(p)
           \/ \E S : proc' = Unnamed(S)
           \/ proc' = Forgotten
    PROVE  Keeps
<1>1. CASE UNCHANGED proc
  BY <1>1 DEF HostFits, Keeps, SameListener
<1>2. ASSUME NEW p \in Pid, proc' = Killed(p) PROVE Keeps
  <2>1. /\ proc' \in [Pid -> Process] /\ proc'[p] = NoProcess
        /\ \A q \in Pid : q # p => proc'[q] = proc[q]
    BY <1>2, KilledTable
  <2> QED
    BY <2>1, NoProcessFields DEF Keeps, SameListener, Role
<1>3. ASSUME NEW p \in Pid, proc' = Termed(p) PROVE Keeps
  BY <1>3, TermedTable DEF Keeps, SameListener, Alike
<1>4. ASSUME NEW S, proc' = Unnamed(S) PROVE Keeps
  BY <1>4, UnnamedTable DEF Keeps, SameListener, Alike
<1>5. CASE proc' = Forgotten
  BY <1>5, ForgottenTable DEF Keeps, SameListener, Alike
<1> QED
  BY <1>1, <1>2, <1>3, <1>4, <1>5

\* New processes.
LEMMA NewKeeps ==
    ASSUME HostFits, NEW p \in Pid, IsNew(p), NEW x \in Process, x.port = "starting", x.name \in Role,
           proc' = [proc EXCEPT ![p] = x]
    PROVE  Keeps
BY NewTable DEF Keeps, SameListener, Role

\* Processes that a rule over the whole table changes.
LEMMA RuleKeeps ==
    ASSUME HostFits, proc' = [p \in Pid |-> proc'[p]],
           \A p \in Pid : \/ proc'[p] = NoProcess
                          \/ proc'[p] = [proc[p] EXCEPT !.supervised = FALSE, !.lost = TRUE]
                          \/ \E a, b \in BOOLEAN :
                              proc'[p] = [proc[p] EXCEPT !.lost = a, !.termed = b]
                          \/ proc'[p] = proc[p]
    PROVE  Keeps
<1>1. ASSUME NEW p \in Pid
      PROVE  /\ proc'[p] \in Process
             /\ proc'[p].port # "none" => SameListener(proc[p], proc'[p])
  <2>1. proc[p] \in Process /\ TRUE \in BOOLEAN /\ FALSE \in BOOLEAN
    BY DEF HostFits
  <2>2. CASE proc'[p] = NoProcess
    BY <2>2, NoProcessFields
  <2>3. CASE proc'[p] = [proc[p] EXCEPT !.supervised = FALSE, !.lost = TRUE]
    <3>1. proc'[p] \in Process
      BY <2>1, <2>3 DEF Process
    <3> QED
      BY <2>1, <2>3, <3>1 DEF Process, SameListener
  <2>4. ASSUME NEW a \in BOOLEAN, NEW b \in BOOLEAN, proc'[p] = [proc[p] EXCEPT !.lost = a, !.termed = b]
        PROVE  proc'[p] \in Process /\ SameListener(proc[p], proc'[p])
    <3>1. proc'[p] \in Process
      BY <2>1, <2>4 DEF Process
    <3> QED
      BY <2>1, <2>4, <3>1 DEF Process, SameListener
  <2>5. CASE proc'[p] = proc[p]
    BY <2>1, <2>5 DEF SameListener
  <2> QED
    BY <2>2, <2>3, <2>4, <2>5
<1> QED
  BY <1>1 DEF Keeps, Role

\* Only a process that boots, and an unrelated one, take a port.
LEMMA StepKeeps ==
    ASSUME LauncherFits, HostFits, [Next]_vars
    PROVE  Keeps \/ Other \/ \E p \in Pid : Boot(p)
<1>1. UNCHANGED proc => Keeps
  BY FadesKeep
<1>2. CASE StopUnit
  <2>1. ASSUME proc' = [p \in Pid |-> IF p \in {q \in Pid : proc[q].supervised}
                                      THEN NoProcess ELSE proc[p]]
        PROVE  Keeps
    BY <2>1, RuleKeeps
  <2>2. ASSUME proc' = [p \in Pid |->
                          IF p \in {q \in Pid : proc[q].supervised}
                          THEN [proc[p] EXCEPT !.supervised = FALSE, !.lost = TRUE]
                          ELSE proc[p]]
        PROVE  Keeps
    BY <2>2, RuleKeeps
  <2> QED
    BY <1>2, <2>1, <2>2, <1>1 DEF StopUnit
<1>3. CASE Sweep
  <2>1. ASSUME proc' = [p \in Pid |-> IF proc[p].port = "service" /\ proc[p].name = "service"
                                      THEN NoProcess ELSE proc[p]]
        PROVE  Keeps
    BY <2>1, RuleKeeps
  <2> QED
    BY <1>1, <1>3, <2>1 DEF Sweep
<1>4. CASE StopZot
  BY <1>4, FadesKeep DEF StopZot
<1>5. CASE SignalZot
  <2>1. launcher.zot # 0 => launcher.zot \in Pid
    BY ProvisionAssumption DEF LauncherFits, LauncherType, Pid
  <2> QED
    BY <1>5, <2>1, FadesKeep DEF SignalZot
<1>6. CASE Clean
  BY <1>6, FadesKeep DEF Clean
<1>7. ASSUME NEW s \in DOMAIN StopRole, Stop(s) PROVE Keeps
  <2>1. s \in StopSteps
    BY DEF StopRole, StopSteps
  <2>2. ASSUME At(s, "term") PROVE launcher.pid \in Pid
    BY <2>1, <2>2, StopPlace DEF LauncherFits, Minding, AtStop
  <2> QED
    BY <1>7, <2>2, FadesKeep
       DEF Stop, StopNothing, StopRefuses, StopTerm, StopKill, StopReap
<1>8. ASSUME NEW s \in DOMAIN StartRole, Start(s) PROVE Keeps
  <2>1. s \in StartSteps
    BY DEF StartRole, StartSteps
  <2>2. ASSUME NEW sub \in {"spawned", "open", "poll"}, At(s, sub) PROVE launcher.pid \in Pid
    BY <2>1, <2>2, StartPlace DEF LauncherFits, Stopping, AtStart, Going
  <2>3. ASSUME AbandonChild, launcher.pid \in Pid PROVE Keeps
    <3>1. CASE ~Alive(launcher.pid)
      BY <1>1, <2>3, <3>1 DEF AbandonChild
    <3>2. CASE Alive(launcher.pid)
      <4> DEFINE p == launcher.pid
                 a == proc[p].termed \/ launcher.provider = "openshell"
      <4>1. proc' = [proc EXCEPT ![p].lost = TRUE,
                                 ![p].termed = @ \/ launcher.provider = "openshell"]
        BY <2>3, <3>2 DEF AbandonChild
      <4>2. proc \in [Pid -> Process] /\ proc[p] \in Process
        BY <2>3 DEF HostFits
      <4>3. /\ proc'[p] = [proc[p] EXCEPT !.lost = TRUE, !.termed = a]
            /\ a \in BOOLEAN /\ \A q \in Pid : q # p => proc'[q] = proc[q]
        BY <2>3, <4>1, <4>2
      <4>4. proc' = [q \in Pid |-> proc'[q]]
        BY <2>3, <4>1, <4>2
      <4> HIDE DEF p, a
      <4> QED
        BY <4>3, <4>4, RuleKeeps
    <3> QED
      BY <3>1, <3>2
  <2>4. CASE StartOpen(s) \/ StartWrite(s)
    BY <1>1, <2>2, <2>3, <2>4 DEF StartOpen, StartWrite
  <2>5. CASE StartGivesUp(s)
    BY <2>2, <2>5, FadesKeep DEF StartGivesUp
  <2>6. CASE StartSkipped(s) \/ StartReady(s)
    BY <1>1, <2>6 DEF StartSkipped, StartReady
  <2> QED
    BY <1>8, <2>4, <2>5, <2>6 DEF Start
<1>9. ASSUME NEW s \in StartSteps, Spawns(s) PROVE Keeps
  <2>1. StartRole[s] \in Role
    BY <1>9, StartPlace DEF Spawns
  <2>2. /\ NewProcess(StartRole[s]) \in Process /\ NewProcess(StartRole[s]).port = "starting"
        /\ NewProcess(StartRole[s]).name \in Role
    BY <2>1, NewProcessFields
  <2> QED
    BY <1>1, <1>9, <2>2, NewKeeps DEF Spawns
<1>10. CASE StartUnit
  BY <1>1, <1>10, UnitFields, NewKeeps DEF StartUnit, Role
<1>11. CASE WaitReturns \/ Kill
  BY <1>11, FadesKeep DEF WaitReturns, Kill
<1>12. CASE Supervise
  BY <1>12, SupervisedFields, NewKeeps DEF Supervise, Role
<1>13. CASE Interrupt
  <2> DEFINE detached == launcher.provider = "native" /\ launcher.start = "detach"
             a(p) == proc[p].lost \/ p \in Orphan
             b(p) == proc[p].termed \/ ~detached
  <2>1. proc' = [p \in Pid |->
                    IF /\ proc[p].name \in Role /\ proc[p].run = launcher.run
                       /\ ~proc[p].supervised
                    THEN [proc[p] EXCEPT !.lost = @ \/ p \in Orphan, !.termed = @ \/ ~detached]
                    ELSE proc[p]]
    BY <1>13 DEF Interrupt
  <2>2. ASSUME NEW p \in Pid
        PROVE  \/ proc'[p] = [proc[p] EXCEPT !.lost = a(p), !.termed = b(p)]
               \/ proc'[p] = proc[p]
    <3>1. proc[p] \in Process
      BY DEF HostFits
    <3> QED
      BY <2>1, <3>1
  <2>3. \A p \in Pid : a(p) \in BOOLEAN /\ b(p) \in BOOLEAN
    OBVIOUS
  <2>4. proc' = [p \in Pid |-> proc'[p]]
    BY <2>1
  <2> HIDE DEF a, b
  <2> QED
    BY <2>2, <2>3, <2>4, RuleKeeps
<1>14. CASE Hangup
  BY <1>14, FadesKeep DEF Hangup, HostFits
<1>15. ASSUME NEW p \in Pid, Exit(p) PROVE Keeps
  BY <1>15, FadesKeep DEF Exit
<1>16. CASE Host
  BY <1>11, <1>12, <1>13, <1>14, <1>15, <1>16 DEF Host
<1>17. CASE Step
  BY <1>1, <1>2, <1>3, <1>4, <1>5, <1>6, <1>7, <1>8, <1>9, <1>10, <1>17
     DEF Step, StartSteps, FreePorts, StopDrivers, RegistryCA, TrustCA, Warm, Wait,
         SpawnRegistry, SpawnGateway, SpawnService, SpawnNativeService,
         VerifyAssets, NativePreflight, PlatformPreflight, CheckConfig, SmokeTest,
         GatewayPki, CompileProfile, CreatePki, GenerateServicePki, WriteNativeConfig,
         WriteServiceConfig, WriteNativeEnv, WriteAgentEnv, WriteGatewayFiles,
         Passes, Skips, Writes
<1> QED
  BY <1>1, <1>16, <1>17 DEF Next, Begin, vars

\* The steps that write a file, named for the file.
WriteSteps == {"profile", "pki", "config", "env", "gateway"}

\* Which actions write which part of the host's state.
LEMMA Writers ==
    ASSUME [Next]_vars
    PROVE  /\ UNCHANGED waiting \/ Wait \/ WaitReturns \/ Hangup
           /\ \/ UNCHANGED pidfile \/ StopZot \/ SignalZot \/ Clean \/ WaitReturns
              \/ \E s \in StopSteps : StopNothing(s) \/ StopReap(s)
              \/ \E s \in StartSteps : StartOpen(s) \/ StartWrite(s)
           /\ UNCHANGED unit \/ StopUnit \/ StartUnit
           /\ UNCHANGED files \/ Clean \/ RegistryCA \/ \E s \in WriteSteps : Writes(s)
           /\ UNCHANGED anchors \/ TrustCA
           /\ UNCHANGED driver \/ StopDrivers \/ Warm
           /\ UNCHANGED discarded \/ Clean \/ RegistryCA
           /\ UNCHANGED faults \/ (faults < MaxFaults /\ faults' = faults + 1)
<1> DEFINE Checks == \/ VerifyAssets \/ NativePreflight \/ PlatformPreflight \/ CheckConfig
                     \/ SmokeTest \/ GatewayPki
           WritesFile == \/ CompileProfile \/ CreatePki \/ GenerateServicePki \/ WriteNativeConfig
                         \/ WriteServiceConfig \/ WriteNativeEnv \/ WriteAgentEnv
                         \/ WriteGatewayFiles
           SpawnsProcess == SpawnRegistry \/ SpawnGateway \/ SpawnService \/ SpawnNativeService
<1>1. Checks => UNCHANGED <<waiting, proc, pidfile, unit, files, anchors, driver, discarded, faults>>
  BY DEF VerifyAssets, NativePreflight, PlatformPreflight, CheckConfig, SmokeTest,
         GatewayPki, Passes, Skips
<1>2. WritesFile => \E s \in WriteSteps : Writes(s)
  BY DEF CompileProfile, CreatePki, GenerateServicePki, WriteNativeConfig,
         WriteServiceConfig, WriteNativeEnv, WriteAgentEnv, WriteGatewayFiles, WriteSteps
<1>3. ASSUME NEW s \in WriteSteps, Writes(s)
      PROVE  UNCHANGED <<waiting, proc, pidfile, unit, anchors, driver, discarded, faults>>
  BY <1>3 DEF Writes
<1>4. SpawnsProcess => UNCHANGED <<waiting, pidfile, unit, files, anchors, driver, discarded, faults>>
  BY DEF SpawnRegistry, SpawnGateway, SpawnService, SpawnNativeService, Spawns
<1>5. ASSUME NEW s, Stop(s)
      PROVE  /\ UNCHANGED <<waiting, unit, files, anchors, driver, discarded, faults>>
             /\ UNCHANGED pidfile \/ StopNothing(s) \/ StopReap(s)
  BY <1>5 DEF Stop, StopNothing, StopRefuses, StopTerm, StopKill, StopReap
<1>6. ASSUME NEW s, Start(s)
      PROVE  /\ UNCHANGED <<waiting, unit, files, anchors, driver, discarded, faults>>
             /\ UNCHANGED pidfile \/ StartOpen(s) \/ StartWrite(s)
  BY <1>6 DEF Start, StartSkipped, StartOpen, StartWrite, StartReady, StartGivesUp
<1>7. DOMAIN StopRole = StopSteps /\ DOMAIN StartRole = StartSteps
  BY DEF StopRole, StartRole, StopSteps, StartSteps
<1>8. CASE Begin \/ UNCHANGED vars
  BY <1>8 DEF Begin, vars
<1>9. CASE Host
  BY <1>9 DEF Host, WaitReturns, Other, Supervise, Kill, Interrupt, Hangup, Boot, Exit
<1>10. CASE Checks \/ WritesFile \/ SpawnsProcess
  <2> HIDE DEF Checks, WritesFile, SpawnsProcess
  <2> QED
    BY <1>1, <1>2, <1>3, <1>4, <1>10
<1>11. CASE (\E s \in DOMAIN StopRole : Stop(s)) \/ (\E s \in DOMAIN StartRole : Start(s))
  BY <1>5, <1>6, <1>7, <1>11
<1>12. CASE \/ StopUnit \/ StopZot \/ Sweep \/ FreePorts \/ StopDrivers \/ SignalZot
            \/ Clean \/ RegistryCA \/ TrustCA \/ StartUnit \/ Warm \/ Wait
  BY <1>12 DEF StopUnit, StopZot, Sweep, FreePorts, StopDrivers, SignalZot, Clean,
               RegistryCA, TrustCA, StartUnit, Warm, Wait
<1> QED
  BY <1>8, <1>9, <1>10, <1>11, <1>12 DEF Next, Step

\* Foreground launchers wait for a process.
LEMMA WaitingStep ==
    ASSUME LauncherFits, HostFits, [Next]_vars
    PROVE  waiting' \subseteq [pid : Pid, run : Run]
<1>1. CASE Wait
  <2>1. launcher.on /\ At("wait", "enter")
    BY <1>1 DEF Wait, At
  <2>2. GoingNative /\ launcher.step = 13 /\ launcher.run \in Run
    BY <2>1, GoingOrFailing, NativePlace, OpenShellPlace, CleanupPlace DEF LauncherType
  <2>3. launcher.start = "foreground" => launcher.child \in Pid
    BY <2>2 DEF LauncherFits, Earlier, StartAt, GoingNative
  <2> QED
    BY <1>1, <2>2, <2>3 DEF Wait, HostFits
<1>2. CASE WaitReturns \/ Hangup
  BY <1>2 DEF WaitReturns, Hangup, HostFits
<1>3. CASE UNCHANGED waiting
  BY <1>3 DEF HostFits
<1> QED
  BY <1>1, <1>2, <1>3, Writers

\* PID files are absent, torn or name a process.
LEMMA PidfileStep ==
    ASSUME LauncherFits, HostFits, [Next]_vars
    PROVE  pidfile' \in [Role -> {Absent, Torn} \cup Pid]
<1>1. pidfile \in [Role -> {Absent, Torn} \cup Pid]
  BY DEF HostFits
<1>2. CASE UNCHANGED pidfile
  BY <1>1, <1>2
<1>3. CASE StopZot \/ SignalZot \/ WaitReturns
  BY <1>1, <1>3 DEF StopZot, SignalZot, WaitReturns
<1>4. CASE Clean
  BY <1>1, <1>4 DEF Clean
<1>5. ASSUME NEW s \in StopSteps, StopNothing(s) \/ StopReap(s)
      PROVE  pidfile' \in [Role -> {Absent, Torn} \cup Pid]
  BY <1>1, <1>5 DEF StopNothing, StopReap
<1>6. ASSUME NEW s \in StartSteps, StartOpen(s) \/ StartWrite(s)
      PROVE  pidfile' \in [Role -> {Absent, Torn} \cup Pid]
  <2>1. launcher.pid \in Pid
    BY <1>6, StartPlace DEF StartOpen, StartWrite, LauncherFits, Stopping, AtStart, Going
  <2> QED
    BY <1>1, <1>6, <2>1 DEF StartOpen, StartWrite
<1> QED
  BY <1>2, <1>3, <1>4, <1>5, <1>6, Writers

\* Files are of a run, or absent.
FilesFit(f) ==
    /\ DOMAIN f = File \cup {"provider"}
    /\ \A g \in File : f[g] \in Run
    /\ f.provider \in {"none", "native", "openshell"}

\* No file at all is a state of the files.
LEMMA NoFilesFit == FilesFit(NoFiles)
BY ProvisionAssumption DEF FilesFit, NoFiles, File, Run

\* Every step keeps the types of the files.
LEMMA FilesStep ==
    ASSUME LauncherFits, HostFits, [Next]_vars
    PROVE  FilesFit(files')
<1>1. FilesFit(files) /\ launcher.run \in Run /\ 0 \in Run
      /\ launcher.provider \in {"native", "openshell"}
  BY ProvisionAssumption DEF HostFits, FilesFit, LauncherFits, LauncherType, Run
<1>2. CASE UNCHANGED files
  BY <1>1, <1>2
<1>3. CASE Clean
  <2>1. FilesFit(WithoutState)
    BY <1>1 DEF FilesFit, WithoutState, StateFile, File
  <2>2. FilesFit(OnlyMeta)
    BY <1>1, NoFilesFit DEF FilesFit, OnlyMeta, File
  <2> QED
    BY <1>1, <1>3, <2>1, <2>2, NoFilesFit DEF Clean
<1>4. CASE RegistryCA
  <2>1. ASSUME files' = [files EXCEPT !.ca = IF @ = 0 THEN launcher.run ELSE @]
        PROVE  FilesFit(files')
    BY <1>1, <2>1 DEF FilesFit, File
  <2>2. ASSUME files' = [files EXCEPT !.ca = launcher.run] PROVE FilesFit(files')
    BY <1>1, <2>2 DEF FilesFit, File
  <2> QED
    BY <1>1, <1>4, <2>1, <2>2 DEF RegistryCA
<1>5. ASSUME NEW s \in WriteSteps, Writes(s) PROVE FilesFit(files')
  <2>1. s \in File /\ s # "provider"
    BY DEF WriteSteps, File
  <2>2. ASSUME NEW n \in Run, NEW v \in {"none", "native", "openshell"},
               files' = [files EXCEPT ![s] = n, !.provider = v]
        PROVE  FilesFit(files')
    BY <1>1, <2>1, <2>2 DEF FilesFit, File
  <2>3. CASE files' = [files EXCEPT ![s] = launcher.run,
                          !.provider = IF s = "config" THEN launcher.provider ELSE @,
                          !.meta = IF s = "gateway" THEN launcher.run ELSE @]
    <3>1. \A g \in File : files'[g] \in {files[g], launcher.run}
      BY <1>1, <2>1, <2>3 DEF FilesFit, File
    <3>2. files'.provider \in {files.provider, launcher.provider}
      BY <1>1, <2>1, <2>3 DEF FilesFit, File
    <3>3. DOMAIN files' = DOMAIN files
      BY <2>3
    <3> QED
      BY <1>1, <3>1, <3>2, <3>3 DEF FilesFit
  <2>4. CASE files' = [files EXCEPT ![s] = 0, !.provider = IF s = "config" THEN "openshell" ELSE @]
    <3>1. files' = [files EXCEPT ![s] = 0,
              !.provider = IF s = "config" THEN "openshell" ELSE files.provider]
      BY <2>1, <2>4
    <3> QED
      BY <1>1, <2>2, <3>1 DEF FilesFit
  <2> QED
    BY <1>1, <1>5, <2>3, <2>4 DEF Writes
<1> QED
  BY <1>2, <1>3, <1>4, <1>5, Writers

\* Processes keep their types, and no two listen on one port.
LEMMA ProcStep ==
    ASSUME LauncherFits, HostFits, [Next]_vars
    PROVE  /\ proc' \in [Pid -> Process]
           /\ \A p, q \in Pid : proc'[p].port \in Role /\ proc'[q].port = proc'[p].port => p = q
           /\ \A p \in Pid : proc'[p].port = "starting" => proc'[p].name \in Role
<1>1. CASE Keeps
  BY <1>1 DEF Keeps, SameListener, HostFits
<1>2. CASE Other
  <2>1. PICK p \in Free, r \in {"service", "gateway", "none"} :
          /\ r = "none" \/ ~Listening(r)
          /\ proc' = [proc EXCEPT ![p] = [NoProcess EXCEPT !.name = "other", !.port = r]]
    BY <1>2 DEF Other
  <2>2. p \in Pid
    BY DEF Free
  <2>3. [NoProcess EXCEPT !.name = "other", !.port = r] \in Process
    BY NoProcessFields DEF Process, Role, NoProcess
  <2>4. /\ proc' \in [Pid -> Process]
        /\ proc'[p] = [NoProcess EXCEPT !.name = "other", !.port = r]
        /\ \A q \in Pid : q # p => proc'[q] = proc[q]
    BY <2>1, <2>2, <2>3 DEF HostFits
  <2>5. proc'[p].port = r
    BY <2>4 DEF NoProcess
  <2>6. r \in Role => \A q \in Pid : proc[q].port # r
    BY <2>1 DEF Listening, Role
  <2>7. proc'[p].port # "starting"
    BY <2>5
  <2>8. \A q \in Pid : proc[q].port = "starting" => proc[q].name \in Role
    BY DEF HostFits
  <2>9. \A q, t \in Pid : proc[q].port \in Role /\ proc[t].port = proc[q].port => q = t
    BY DEF HostFits
  <2> QED
    BY <2>4, <2>5, <2>6, <2>7, <2>8, <2>9
<1>3. ASSUME NEW p \in Pid, Boot(p)
      PROVE  /\ proc' \in [Pid -> Process]
             /\ \A x, y \in Pid : proc'[x].port \in Role /\ proc'[y].port = proc'[x].port => x = y
             /\ \A x \in Pid : proc'[x].port = "starting" => proc'[x].name \in Role
  <2>1. proc[p] \in Process /\ proc \in [Pid -> Process]
    BY DEF HostFits
  <2>2. \A q \in Pid : q # p => proc'[q] = proc[q]
    BY <1>3, <2>1 DEF Boot
  <2>3. \/ proc'[p] = NoProcess
        \/ /\ ~Listening(proc[p].name)
           /\ \/ proc'[p] = [proc[p] EXCEPT !.port = proc[p].name, !.config = files.config,
                                            !.pki = files.pki]
              \/ proc'[p] = [proc[p] EXCEPT !.port = proc[p].name]
    BY <1>3, <2>1 DEF Boot
  <2>4. files.config \in Run /\ files.pki \in Run
    BY DEF HostFits, File
  <2>5. CASE proc'[p] = NoProcess
    BY <1>3, <2>1, <2>2, <2>5, NoProcessFields DEF Boot, HostFits, Role
  <2>6. CASE /\ ~Listening(proc[p].name)
             /\ \/ proc'[p] = [proc[p] EXCEPT !.port = proc[p].name, !.config = files.config,
                                              !.pki = files.pki]
                \/ proc'[p] = [proc[p] EXCEPT !.port = proc[p].name]
    <3>1. proc[p].name \in Role
      BY <1>3 DEF Boot, HostFits
    <3>2. proc'[p] \in Process /\ proc'[p].port = proc[p].name
      BY <2>1, <2>4, <2>6, <3>1 DEF Process
    <3>3. \A q \in Pid : proc[q].port # proc[p].name
      BY <2>6 DEF Listening
    <3>4. proc' \in [Pid -> Process]
      BY <1>3, <2>1, <2>2, <3>2 DEF Boot
    <3> QED
      BY <2>2, <3>1, <3>2, <3>3, <3>4 DEF HostFits, Role
  <2> QED
    BY <2>3, <2>5, <2>6
<1> QED
  BY <1>1, <1>2, <1>3, StepKeeps

\* Every step keeps the host's state in its types.
LEMMA HostFitsStep == LauncherFits /\ HostFits /\ [Next]_vars => HostFits'
<1> SUFFICES ASSUME LauncherFits, HostFits, [Next]_vars PROVE HostFits'
  OBVIOUS
<1>1. unit' \in {"none", "file", "enabled"}
  BY Writers DEF HostFits, StopUnit, StartUnit
<1>2. anchors' \subseteq Run
  BY Writers DEF HostFits, TrustCA, File
<1>3. driver' \in {"none", "running", "missed"}
  BY Writers DEF HostFits, StopDrivers, Warm
<1>4. faults' \in 0..MaxFaults
  BY Writers, ProvisionAssumption DEF HostFits
<1> QED
  BY <1>1, <1>2, <1>3, <1>4, WaitingStep, PidfileStep, FilesStep, ProcStep
     DEF HostFits, FilesFit

-----------------------------------------------------------------------------
(***************************************************************************)
(* The processes of the launcher are accounted for.                        *)
(***************************************************************************)
\* The only service, or gateway, that the launcher knows of while it starts
\* one is that one.
LEMMA OnlyChild ==
    ASSUME LauncherFits, OldGone, OwnKnown, NEW r \in {"gateway", "service"}, AtStart(r),
           launcher.sub \in {"spawned", "open", "poll"}, NEW p \in Pid, Known(p, r)
    PROVE  p = launcher.pid
<1>1. Minding(r) /\ r \in Launched /\ r \in Stopped /\ AfterStop(r)
  BY DEF AtStart, Minding, AfterStop, Going, Launched, Stopped, StartAt, StopAt, Role
<1>2. proc[p].run = launcher.run
  BY <1>1 DEF OldGone
<1> QED
  BY <1>1, <1>2 DEF OwnKnown, Own, Known

\* When the state is removed, the launcher knows of no process of the roles it stops.
LEMMA NoneKnown ==
    ASSUME OldGone, OwnKnown, Going, launcher.sub = "enter", launcher.step = CleanAt,
           NEW r \in Ports, NEW p \in Pid
    PROVE  ~Known(p, r)
<1>1. r \in Stopped /\ r \in Launched /\ AfterStop(r) /\ Earlier(r)
  BY DEF Ports, Stopped, Launched, AfterStop, Earlier, StopAt, StartAt, CleanAt, Role
<1>2. ~Own(p, r)
  BY <1>1 DEF OwnKnown
<1> QED
  BY <1>1, <1>2 DEF OldGone, Known, Own

\* Where the run is when a step of it is over.
LEMMA EnteredStep ==
    ASSUME LauncherFits,
           \/ PassOn \/ EarlyOk \/ Begins
           \/ CleanOn /\ launcher.step \in {3, 4}
           \/ \E r \in Role : StopOn(r) \/ StartOn(r) \/ Terms(r) \/ Reaps(r) \/ Begets(r)
    PROVE  ~(launcher.on /\ launcher.sub \in {"spawned", "open"})
<1>1. ASSUME EarlyOk PROVE launcher.sub = "enter"
  BY <1>1 DEF EarlyOk, LauncherFits, Going, Stopping, Minding, Stopped, Launched, StopAt,
              StartAt, CleanAt, Role, LauncherType
<1>2. ASSUME CleanOn, launcher.step \in {3, 4} PROVE launcher.sub = "enter"
  BY <1>2 DEF CleanOn, Failing, LauncherFits, Going, Stopping, Minding
<1>3. ASSUME NEW r \in Role, StopOn(r) PROVE ~Minding(r) /\ launcher.sub \notin {"spawned", "open"}
  BY <1>3 DEF StopOn, AtStop, LauncherFits, Going, Minding, Stopping, StopAt, StartAt,
              Stopped, Launched, Role
<1> QED
  BY <1>1, <1>2, <1>3 DEF PassOn, Begins, StartOn, Terms, Reaps, Begets

\* Processes that fade stay accounted for when nobody forgets them.
LEMMA CalmAccounted ==
    ASSUME Accounted, Fades, KeepsNames,
           \A p \in Pid : launcher.on /\ launcher.pid = p /\ launcher.sub \in {"spawned", "open"} =>
               \/ proc'[p].name \notin Role \/ proc'[p].lost \/ proc'[p].supervised
               \/ launcher' = launcher
    PROVE  Accounted'
BY DEF Accounted, Ours, Fades, KeepsNames, Role

\* Every step keeps the processes accounted for.
LEMMA AccountedStep ==
    ASSUME LauncherFits, HostFits, Accounted, Handled, OldGone, OwnKnown, Cases
    PROVE  Accounted'
<1>1. CASE CasePass
  BY <1>1, EnteredStep, CalmAccounted DEF CasePass, Calm
<1>2. CASE CaseRemove
  <2>1. ASSUME NEW p \in Pid, proc'[p].name \in {"gateway", "service"}, ~proc'[p].supervised,
               ~proc'[p].lost
        PROVE  FALSE
    <3>1. /\ proc[p].name \in {"gateway", "service"} /\ ~proc[p].supervised /\ ~proc[p].lost
          /\ ~(\E r \in Role \ Ports : pidfile[r] = p /\ proc[p].name = r)
          /\ Going /\ launcher.sub = "enter" /\ launcher.step = CleanAt
      BY <1>2, <2>1 DEF CaseRemove, Alike
    <3>2. pidfile[proc[p].name] = p /\ proc[p].name \in Role
      BY <3>1 DEF Accounted, Ours, Role
    <3>3. proc[p].name \in Ports
      BY <3>1, <3>2
    <3> QED
      BY <3>1, <3>3, NoneKnown DEF Known
  <2> QED
    BY <2>1 DEF Accounted, Ours
<1>3. CASE CaseFail
  <2>1. ASSUME launcher.sub \in {"spawned", "open"}
        PROVE  proc'[launcher.pid].name \in Role => proc'[launcher.pid].lost
    <3>1. PICK r \in Launched : Minding(r)
      BY <1>3, <2>1 DEF CaseFail, FailOver, Going, LauncherFits, Stopping
    <3> QED
      BY <1>3, <2>1, <3>1 DEF CaseFail
  <2> QED
    BY <1>3, <2>1, CalmAccounted DEF CaseFail, KeepsNames
<1>4. CASE CaseCleanup
  BY <1>4, EnteredStep, CalmAccounted DEF CaseCleanup, Calm
<1>5. CASE CaseBegin
  BY <1>5 DEF CaseBegin, Begins, Accounted, Ours
<1>6. CASE CaseDie
  BY <1>6, CalmAccounted DEF CaseDie
<1>7. CASE CaseHost
  BY <1>7, CalmAccounted DEF CaseHost, Calm
<1>8. CASE CaseWait
  BY <1>8, NamedAlive DEF CaseWait, Alike, Accounted, Ours, Role
<1>9. CASE CaseSupervise
  BY <1>9 DEF CaseSupervise, Accounted, Ours
<1>10. ASSUME NEW r \in Role, CaseStopped(r) PROVE Accounted'
  <2>1. r \in {"gateway", "service"} /\ proc' = proc
        /\ \A q \in {"gateway", "service"} : q # r => pidfile'[q] = pidfile[q]
    BY <1>10 DEF CaseStopped
  <2>2. launcher.on => launcher.sub \notin {"spawned", "open"}
    BY <1>10 DEF CaseStopped, AtStop, LauncherFits, Going, Failing, Minding, Stopping,
                 StopAt, StartAt, Stopped, Launched, Role
  <2>3. ASSUME NEW p \in Pid, Known(p, r), pidfile[r] = p PROVE pidfile'[r] = p
    <3>1. CASE launcher.sub = "reap"
      <4>1. Stopping(r) /\ r \in Stopped
        BY <1>10, <3>1 DEF CaseStopped, AtStop, Stopping
      <4>2. pidfile[r] = launcher.pid /\ ~Known(launcher.pid, r)
        BY <2>3, <3>1, <4>1 DEF Handled, Absent, Pid
      <4> QED
        BY <2>3, <4>2
    <3>2. CASE launcher.sub # "reap"
      BY <1>10, <2>3, <3>2 DEF CaseStopped, Known
    <3> QED
      BY <3>1, <3>2
  <2> QED
    BY <2>1, <2>2, <2>3 DEF Accounted, Ours, Known
<1>11. ASSUME NEW r \in Role, CaseTerm(r) \/ CaseReap(r) PROVE Accounted'
  BY <1>11, EnteredStep, CalmAccounted DEF CaseTerm, CaseReap, Calm
<1>12. ASSUME NEW r \in Role, CaseStart(r) PROVE Accounted'
  BY <1>12, EnteredStep DEF CaseStart, Accounted, Ours
<1>13. ASSUME NEW r \in Role, CaseSpawn(r) PROVE Accounted'
  <2>1. ~(launcher.on /\ launcher.sub \in {"spawned", "open"})
    BY <1>13, EnteredStep DEF CaseSpawn
  <2>2. launcher'.on /\ launcher'.sub \in {"spawned", "poll"}
    BY <1>13 DEF CaseSpawn, Begets, Stays
  <2> QED
    BY <1>13, <2>1, <2>2 DEF CaseSpawn, Accounted, Ours
<1>14. ASSUME NEW r \in Role, CaseNote(r) PROVE Accounted'
  <2>1. /\ AtStart(r) /\ Notes(r) /\ proc' = proc /\ launcher.on /\ launcher'.on
        /\ launcher'.pid = launcher.pid
        /\ \/ launcher.sub = "spawned" /\ launcher'.sub = "open"
           \/ launcher.sub = "open" /\ launcher'.sub = "poll" /\ pidfile'[r] = launcher.pid
        /\ \A q \in Role : q # r => pidfile'[q] = pidfile[q]
    BY <1>14 DEF CaseNote, Notes, AtStart, Going, Stays
  <2>2. ASSUME NEW p \in Pid, Ours(p), ~proc[p].supervised, ~proc[p].lost, proc[p].name = r
        PROVE  p = launcher.pid
    BY <2>1, <2>2, OnlyChild DEF Ours, Known
  <2>3. ASSUME NEW p \in Pid, Ours(p), ~proc[p].supervised, ~proc[p].lost, proc[p].name # r
        PROVE  p # launcher.pid
    <3>1. Minding(r) /\ r \in Launched
      BY <2>1 DEF AtStart, Minding
    <3> QED
      BY <2>1, <2>3, <3>1 DEF Handled, Own, Ours, Role
  <2> QED
    BY <2>1, <2>2, <2>3 DEF Accounted, Ours, Role
<1> QED
  BY <1>1, <1>2, <1>3, <1>4, <1>5, <1>6, <1>7, <1>8, <1>9, <1>10, <1>11, <1>12, <1>13, <1>14
     DEF Cases

-----------------------------------------------------------------------------
(***************************************************************************)
(* What a run knows of the processes it stops and starts.                  *)
(***************************************************************************)
\* Apart from the two cases that start a process, processes only fade.
LEMMA MostFade ==
    ASSUME Cases
    PROVE  Fades \/ CaseSupervise \/ \E r \in Role : CaseSpawn(r)
BY SameFades
   DEF Cases, CasePass, CaseRemove, CaseFail, CaseCleanup, CaseBegin, CaseDie, CaseHost,
       CaseWait, CaseStopped, CaseTerm, CaseReap, CaseStart, CaseNote, Calm, Fades, Alike

\* What fades was there before.
LEMMA FadesBack ==
    ASSUME Fades, NEW p \in Pid, NEW r \in Role, proc'[p].name = r
    PROVE  /\ proc[p].name = r /\ proc'[p].run = proc[p].run
           /\ proc[p].lost => proc'[p].lost
           /\ proc[p].termed => proc'[p].termed
           /\ ~proc'[p].lost /\ ~proc'[p].supervised => Known(p, r)
BY DEF Fades, Known

\* A run that is at the beginning of a step, or over, handles nothing.
LEMMA NothingHandled ==
    ASSUME ~launcher'.on \/ launcher'.sub = "enter"
    PROVE  Handled'
BY DEF Handled, Stopping, Minding, Going

\* Every step keeps what the run knows of the process it handles.
LEMMA HandledStep ==
    ASSUME LauncherFits, HostFits, Handled, Cases
    PROVE  Handled'
<1> USE DEF Role
<1>0. \A r : Stopping(r) \/ Minding(r) => launcher.pid \in Pid
  BY DEF Stopping, Minding, LauncherFits, Going
<1>1. CASE CasePass \/ CaseRemove \/ CaseFail \/ CaseCleanup \/ CaseBegin \/ CaseDie
  <2>1. ~launcher'.on \/ launcher'.sub = "enter"
    BY <1>1 DEF CasePass, CaseRemove, CaseFail, CaseCleanup, CaseBegin, CaseDie, PassOn,
                EarlyOk, FailOver, CleanOn, Begins, Dies, GoesOn, Ends
  <2> QED
    BY <2>1, NothingHandled
<1>2. CASE \E r \in Role : CaseStopped(r) \/ CaseStart(r)
  <2>1. ~launcher'.on \/ launcher'.sub = "enter"
    BY <1>2 DEF CaseStopped, CaseStart, StopOn, StartOn, CleanOn, GoesOn, Ends
  <2> QED
    BY <2>1, NothingHandled
<1>3. CASE CaseHost \/ CaseWait
  <2>1. /\ launcher' = launcher
        /\ \A r \in {"gateway", "service"} : pidfile'[r] \in {pidfile[r], Absent}
        /\ pidfile'["zot"] = pidfile["zot"]
        /\ \A p \in Pid : proc'[p].name \in Role => (proc'[p].supervised <=> proc[p].supervised)
        /\ Fades
    BY <1>3 DEF CaseHost, CaseWait, Calm, KeepsNames, Fades, Alike, Role
  <2>2. Stopped \subseteq {"gateway", "service"} /\ Launched \subseteq Role
    BY DEF Stopped, Launched
  <2>3. ASSUME NEW r \in Stopped, Stopping(r), launcher.pid \in Pid
        PROVE  /\ pidfile'[r] \in {Absent, launcher.pid}
               /\ launcher.sub = "reap" => ~Known(launcher.pid, r)'
    <3>1. pidfile[r] \in {Absent, launcher.pid} /\ (launcher.sub = "reap" => ~Known(launcher.pid, r))
      BY <2>3 DEF Handled
    <3>2. Known(launcher.pid, r)' => Known(launcher.pid, r)
      BY <2>1, <2>2, <2>3, FadesBack DEF Known
    <3> QED
      BY <2>1, <2>2, <3>1, <3>2
  <2>4. ASSUME NEW r \in Launched, Minding(r), launcher.sub \in {"spawned", "open"},
               launcher.pid \in Pid, proc'[launcher.pid].name \in Role,
               ~proc'[launcher.pid].supervised
        PROVE  Own(launcher.pid, r)'
    <3>1. /\ proc[launcher.pid].name = proc'[launcher.pid].name
          /\ proc[launcher.pid].run = proc'[launcher.pid].run
      BY <2>1, <2>4 DEF Fades
    <3>2. Own(launcher.pid, r)
      BY <2>1, <2>4, <3>1 DEF Handled
    <3> QED
      BY <2>1, <3>1, <3>2 DEF Own
  <2>5. (GoingOpenShell /\ Minding("zot"))' /\ launcher'.sub = "poll" => pidfile'["zot"] = launcher'.pid
    BY <2>1 DEF Handled, GoingOpenShell, Minding, Going, StartAt
  <2> QED
    BY <1>0, <2>1, <2>3, <2>4, <2>5 DEF Handled, Stopping, Minding, Going, Stopped, Launched,
       StopAt, StartAt, Known, Own
<1>4. CASE CaseSupervise
  <2>1. PICK p \in Pid : proc'[p].supervised /\ \A q \in Pid : q # p => proc'[q] = proc[q]
    BY <1>4 DEF CaseSupervise
  <2>2. launcher' = launcher /\ pidfile' = pidfile
    BY <1>4 DEF CaseSupervise
  <2>3. ASSUME NEW r \in Stopped, Stopping(r)
        PROVE  /\ pidfile[r] \in {Absent, launcher.pid}
               /\ launcher.sub = "reap" => ~Known(launcher.pid, r)'
    BY <1>0, <2>1, <2>2, <2>3 DEF Handled, Known
  <2>4. ASSUME NEW r \in Launched, Minding(r), launcher.sub \in {"spawned", "open"},
               proc'[launcher.pid].name \in Role, ~proc'[launcher.pid].supervised
        PROVE  Own(launcher.pid, r)'
    <3>1. proc'[launcher.pid] = proc[launcher.pid]
      BY <1>0, <2>1, <2>4
    <3>2. Own(launcher.pid, r)
      BY <2>4, <3>1 DEF Handled
    <3> QED
      BY <2>2, <3>1, <3>2 DEF Own
  <2>5. (GoingOpenShell /\ Minding("zot"))' /\ launcher'.sub = "poll" => pidfile'["zot"] = launcher'.pid
    BY <2>2 DEF Handled, GoingOpenShell, Minding, Going, StartAt
  <2> QED
    BY <2>2, <2>3, <2>4, <2>5 DEF Handled, Stopping, Minding, Going, Stopped, Launched,
       StopAt, StartAt, Known, Own
<1>5. ASSUME NEW r \in Role, CaseTerm(r) \/ CaseReap(r) PROVE Handled'
  <2>1. /\ AtStop(r) /\ Stays /\ launcher'.sub \in {"term", "reap"}
        /\ r \in {"gateway", "service"}
        /\ KeepsNames
        /\ \/ pidfile[r] = launcher'.pid /\ launcher'.sub = "term"
           \/ /\ launcher.sub = "term" /\ launcher'.pid = launcher.pid
              /\ proc'[launcher.pid].name \notin Role
    BY <1>5 DEF CaseTerm, CaseReap, Terms, Reaps, Calm
  <2>2. ASSUME NEW q \in Stopped, Stopping(q)' PROVE q = r
    BY <2>1, <2>2 DEF Stopping, AtStop, Stays, SameRun, Stopped, StopAt
  <2>3. launcher.sub = "term" => Stopping(r) /\ r \in Stopped
    BY <2>1 DEF Stopping, AtStop
  <2>4. pidfile'[r] \in {Absent, launcher'.pid}
    BY <2>1, <2>3 DEF Handled, KeepsNames
  <2>5. launcher'.sub = "reap" => ~Known(launcher.pid, r)' /\ launcher'.pid = launcher.pid
    BY <2>1 DEF Known
  <2>6. Stopped' = Stopped
    BY <2>1 DEF Stopped, Stays, SameRun
  <2>7. \A q : ~Minding(q)'
    BY <2>1 DEF Minding
  <2> QED
    BY <2>2, <2>4, <2>5, <2>6, <2>7 DEF Handled, Known
<1>6. ASSUME NEW r \in Role, CaseSpawn(r) PROVE Handled'
  <2>1. /\ AtStart(r) /\ Stays /\ launcher'.sub \in {"spawned", "poll"}
        /\ proc'[launcher'.pid].name = r /\ proc'[launcher'.pid].run = launcher.run
    BY <1>6 DEF CaseSpawn, Begets
  <2>2. ASSUME NEW q \in Launched, Minding(q)' PROVE q = r
    BY <2>1, <2>2 DEF Minding, AtStart, Stays, SameRun, Launched, StartAt, Going
  <2>3. Launched' = Launched /\ launcher'.run = launcher.run
    BY <2>1 DEF Launched, Stays, SameRun
  <2>4. \A q : ~Stopping(q)'
    BY <2>1 DEF Stopping
  <2>5. launcher'.sub = "poll" => r = "service"
    BY <1>6 DEF CaseSpawn
  <2>6. ~(GoingOpenShell' /\ Minding("zot")' /\ launcher'.sub = "poll")
    <3>1. GoingOpenShell' => "zot" \in Launched
      BY <2>1 DEF GoingOpenShell, Stays, SameRun, Launched, Role
    <3> QED
      BY <2>2, <2>5, <3>1
  <2> QED
    BY <2>1, <2>2, <2>3, <2>4, <2>6 DEF Handled, Own
<1>7. ASSUME NEW r \in Role, CaseNote(r) PROVE Handled'
  <2>1. /\ AtStart(r) /\ Stays /\ proc' = proc /\ launcher'.pid = launcher.pid
        /\ launcher.sub \in {"spawned", "open"} /\ launcher'.sub \in {"open", "poll"}
    BY <1>7 DEF CaseNote, Notes
  <2>2. ASSUME NEW q \in Launched, Minding(q)' PROVE Minding(q)
    BY <2>1, <2>2 DEF Minding, AtStart, Stays, SameRun, StartAt, Going
  <2>3. Launched' = Launched /\ launcher'.run = launcher.run
    BY <2>1 DEF Launched, Stays, SameRun
  <2>4. \A q : ~Stopping(q)'
    BY <2>1 DEF Stopping
  <2>5. GoingOpenShell' /\ Minding("zot")' /\ launcher'.sub = "poll" => pidfile'["zot"] = launcher'.pid
    <3>1. GoingOpenShell' /\ Minding("zot")' => r = "zot"
      BY <2>1 DEF GoingOpenShell, Minding, AtStart, Stays, SameRun, StartAt, Going, Role
    <3>2. launcher'.sub = "poll" => launcher.sub = "open"
      BY <1>7 DEF CaseNote, Notes
    <3> QED
      BY <1>7, <2>1, <3>1, <3>2 DEF CaseNote
  <2> QED
    BY <2>1, <2>2, <2>3, <2>4, <2>5 DEF Handled, Own
<1> QED
  BY <1>1, <1>2, <1>3, <1>4, <1>5, <1>6, <1>7 DEF Cases

\* A run in progress that goes on, in the plan or from the beginning.
Follows ==
    /\ Going /\ SameRun(launcher, launcher')
    /\ \/ launcher'.step = launcher.step /\ (launcher' = launcher \/ launcher'.sub # "enter")
       \/ launcher'.step = launcher.step + 1
       \/ launcher.provider = "openshell" /\ launcher.step = 10 /\ launcher'.step = 13

\* Where a run that goes on comes from.
LEMMA GoingBack == ASSUME LauncherFits, Moves, Going' PROVE Begins \/ Follows
BY DEF Moves, Follows, Going, Failing, PassOn, EarlyOk, CleanOn, Begins, Dies, FailOver, StopOn,
       StartOn, Terms, Reaps, Begets, Notes, Stays, GoesOn, Ends, AtStop, AtStart, SameRun

\* How a run succeeds.
LEMMA SuccessBack ==
    ASSUME LauncherFits, Moves, Ended("ok")'
    PROVE  \/ launcher' = launcher
           \/ /\ Going /\ SameRun(launcher, launcher') /\ launcher.sub = "enter"
              /\ launcher.step = LastStep /\ launcher.mode \notin {"uninstall", "teardown"}
           \/ EarlyOk
<1>1. ASSUME PassOn
      PROVE  /\ Going /\ SameRun(launcher, launcher') /\ launcher.sub = "enter"
             /\ launcher.step = LastStep /\ launcher.mode \notin {"uninstall", "teardown"}
  BY <1>1 DEF PassOn, Ended, GoesOn, Ends, LastStep, LastOf, CleanAt, Going
<1> QED
  BY <1>1
     DEF Moves, Ended, EarlyOk, CleanOn, Begins, Dies, FailOver, StopOn,
       StartOn, Terms, Reaps, Begets, Notes, Stays, GoesOn, Ends

\* A process of an earlier run that the launcher knows of is gone once its role is stopped.
LEMMA StopOver ==
    ASSUME LauncherFits, Accounted, Handled, NEW r \in {"gateway", "service"}, CaseStopped(r),
           Going, NEW p \in Pid
    PROVE  ~Known(p, r)
<1>1. AtStop(r) /\ launcher.on /\ launcher.sub \notin {"spawned", "open"}
  BY DEF CaseStopped, AtStop, LauncherFits, Going, Failing, Minding, Stopping,
         StopAt, StartAt, Stopped, Launched, Role
<1>2. SUFFICES ASSUME Known(p, r), pidfile[r] = p PROVE FALSE
  BY <1>1 DEF Accounted, Ours, Known
<1>3. CASE launcher.sub = "enter"
  BY <1>2, <1>3 DEF CaseStopped, Failing, Going, Known
<1>4. CASE launcher.sub = "reap"
  BY <1>1, <1>2, <1>4 DEF Handled, Stopping, AtStop, Absent, Pid
<1> QED
  BY <1>3, <1>4 DEF CaseStopped, Failing, Going

\* A run gets past a stop by taking it.
LEMMA AfterStopBack ==
    ASSUME LauncherFits, Cases, launcher' \in LauncherType, NEW r \in {"gateway", "service"},
           r \in Stopped', AfterStop(r)'
    PROVE  /\ AfterStop(r) \/ (CaseStopped(r) /\ Going)
           /\ r \in Stopped /\ launcher'.run = launcher.run
<1>1. Going' /\ launcher'.step > StopAt(r)' /\ ~Begins
  BY DEF AfterStop, Begins, StopAt
<1>2. Follows
  BY <1>1, CasesMove, GoingBack
<1>3. StopAt(r)' = StopAt(r) /\ Stopped' = Stopped /\ launcher'.run = launcher.run
  BY <1>2 DEF Follows, SameRun, StopAt, Stopped
<1>4. launcher.step \in Nat /\ launcher'.step \in Nat /\ StopAt(r) \in {2, 3, 5}
  BY DEF LauncherFits, LauncherType, StopAt
<1>5. AfterStop(r) \/ (launcher.step = StopAt(r) /\ launcher'.step # launcher.step)
  BY <1>1, <1>2, <1>3, <1>4 DEF Follows, AfterStop
<1>6. ASSUME launcher.step = StopAt(r), launcher'.step # launcher.step PROVE CaseStopped(r)
  <2>1. r \in Stopped /\ Going
    BY <1>2, <1>3 DEF Follows
  <2>2. ~PassOn
    BY <1>6, <2>1 DEF PassOn
  <2>3. \A q \in Role : CaseStopped(q) => q = r
    BY <1>6, <2>1 DEF CaseStopped, AtStop, StopAt, Stopped, Going
  <2>4. \A q \in Role : ~CaseStart(q)
    BY <1>6, <2>1 DEF CaseStart, StartOn, AtStart, StartAt, StopAt, Launched, Stopped, Role
  <2>5. ~CaseRemove /\ ~CasePass /\ ~CaseFail /\ ~CaseCleanup /\ ~CaseBegin /\ ~CaseDie
    BY <1>1, <2>1, <2>2 DEF CaseRemove, CasePass, CaseFail, CaseCleanup, CaseBegin, CaseDie,
       EarlyOk, FailOver, CleanOn, Begins, Dies, Ends, Failing, Going
  <2>6. ~CaseHost /\ ~CaseWait /\ ~CaseSupervise
    BY <1>6 DEF CaseHost, CaseWait, CaseSupervise
  <2>7. \A q \in Role : ~CaseTerm(q) /\ ~CaseReap(q) /\ ~CaseSpawn(q) /\ ~CaseNote(q)
    BY <1>6 DEF CaseTerm, CaseReap, CaseSpawn, CaseNote, Terms, Reaps, Begets, Notes, Stays
  <2> QED
    BY <2>3, <2>4, <2>5, <2>6, <2>7 DEF Cases
<1> QED
  BY <1>2, <1>3, <1>5, <1>6 DEF Follows

\* Every step keeps earlier runs out.
LEMMA OldGoneStep ==
    ASSUME LauncherFits, HostFits, Accounted, Handled, OldGone, Cases, launcher' \in LauncherType
    PROVE  OldGone'
<1>1. Moves
  BY CasesMove
<1>2. launcher.run \in Nat /\ launcher'.run \in Nat /\ launcher'.run >= launcher.run
  BY <1>1 DEF LauncherFits, LauncherType, Run, Moves, PassOn, EarlyOk, CleanOn, Begins, Dies,
     FailOver, StopOn, StartOn, Terms, Reaps, Begets, Notes, Stays, GoesOn, Ends, SameRun
<1>3. \A p \in Pid : proc'[p].name \in Role => proc'[p].run <= launcher'.run
  <2>1. \A p \in Pid : proc[p].name \in Role => proc[p].run <= launcher.run /\ proc[p].run \in Nat
    BY DEF OldGone, HostFits, Process, Run
  <2>2. CASE Fades
    BY <1>2, <2>1, <2>2 DEF Fades
  <2>3. CASE CaseSupervise
    BY <1>2, <2>1, <2>3 DEF CaseSupervise
  <2>4. ASSUME NEW r \in Role, CaseSpawn(r) 
        PROVE  \A p \in Pid : proc'[p].name \in Role => proc'[p].run <= launcher'.run
    BY <1>2, <2>1, <2>4 DEF CaseSpawn
  <2> QED
    BY <2>2, <2>3, <2>4, MostFade
<1>4. ASSUME NEW r \in {"gateway", "service"}, r \in Stopped', AfterStop(r)' \/ (Ended("ok")' /\ r = "service")
      PROVE  /\ \/ AfterStop(r) \/ (Ended("ok") /\ r = "service")
                \/ CaseStopped(r) /\ Going
             /\ r \in Stopped /\ launcher'.run = launcher.run
  <2>1. CASE AfterStop(r)'
    BY <1>4, <2>1, AfterStopBack
  <2>2. CASE Ended("ok")' /\ r = "service"
    <3>1. CASE launcher' = launcher
      BY <1>4, <2>2, <3>1 DEF Ended, Stopped
    <3>2. CASE launcher' # launcher
      <4>1. Going /\ SameRun(launcher, launcher') /\ (launcher.step = LastStep \/ EarlyOk)
        BY <1>1, <2>2, <3>2, SuccessBack DEF EarlyOk, Ends
      <4>2. AfterStop("service") /\ r \in Stopped /\ launcher'.run = launcher.run
        BY <1>4, <2>2, <4>1 DEF AfterStop, StopAt, LastStep, LastOf, Stopped, SameRun, EarlyOk, Going
      <4> QED
        BY <2>2, <4>2
    <3> QED
      BY <3>1, <3>2
  <2> QED
    BY <1>4, <2>1, <2>2
<1>5. ASSUME NEW r \in {"gateway", "service"}, r \in Stopped', AfterStop(r)' \/ (Ended("ok")' /\ r = "service"),
             NEW p \in Pid, Known(p, r)'
      PROVE  proc'[p].run = launcher'.run
  <2>1. r \in Role /\ proc'[p].name = r /\ ~proc'[p].lost /\ ~proc'[p].supervised
    BY <1>5 DEF Known, Role
  <2>2. CASE Fades
    <3>1. Known(p, r) /\ proc'[p].run = proc[p].run
      BY <2>1, <2>2, FadesBack
    <3> QED
      BY <1>4, <1>5, <3>1, StopOver DEF OldGone
  <2>3. CASE CaseSupervise
    <3>1. proc'[p] = proc[p] /\ launcher' = launcher
      BY <2>1, <2>3 DEF CaseSupervise
    <3> QED
      BY <1>5, <3>1 DEF OldGone, Known, AfterStop, Ended, Going, Stopped, StopAt
  <2>4. ASSUME NEW q \in Role, CaseSpawn(q) PROVE proc'[p].run = launcher'.run
    <3>1. p = launcher'.pid => proc'[p].run = launcher'.run
      BY <2>4 DEF CaseSpawn, Begets, Stays, SameRun
    <3>2. p # launcher'.pid => proc'[p] = proc[p]
      BY <2>4 DEF CaseSpawn
    <3>3. ~(CaseStopped(r) /\ Going)
      BY <2>4 DEF CaseSpawn, CaseStopped, Begets, AtStart, AtStop, Stopped, Launched, Going,
         StopAt, StartAt, Role
    <3> QED
      BY <1>4, <1>5, <3>1, <3>2, <3>3 DEF OldGone, Known
  <2> QED
    BY <2>2, <2>3, <2>4, MostFade
<1>6. Stopped' \subseteq {"gateway", "service"}
  BY DEF Stopped
<1> QED
  BY <1>3, <1>5, <1>6 DEF OldGone

\* What a run has not started yet cannot be its own.
LEMMA EarlierBack ==
    ASSUME LauncherFits, Follows, NEW r \in Role, Earlier(r)', launcher' \in LauncherType
    PROVE  Earlier(r) /\ (launcher'.step < StartAt(r) \/ launcher'.sub = "enter")
<1>1. StartAt(r)' = StartAt(r)
  BY DEF Follows, SameRun, StartAt
<1>2. launcher.step \in Nat /\ launcher'.step \in Nat /\ StartAt(r) \in {10, 12, 15, 18}
  BY DEF LauncherFits, LauncherType, StartAt, Role
<1> QED
  BY <1>1, <1>2 DEF Follows, Earlier

\* Every step keeps the run to at most one process of its own for each role.
LEMMA OwnKnownStep ==
    ASSUME LauncherFits, HostFits, OldGone, OwnKnown, Cases, launcher' \in LauncherType
    PROVE  OwnKnown'
<1>1. Moves
  BY CasesMove
<1>2. Launched' \subseteq Role
  BY DEF Launched, Role
<1>3. ASSUME NEW r \in Role, r \in Launched', Earlier(r)', NEW p \in Pid, Own(p, r)' PROVE FALSE
  <2>1. proc'[p].name = r /\ proc'[p].run = launcher'.run
    BY <1>3 DEF Own
  <2>2. CASE Begins
    <3>1. launcher.run \in Nat /\ launcher'.run = launcher.run + 1
      BY <2>2 DEF Begins, LauncherFits, LauncherType, Run
    <3>2. proc[p].name = r => proc[p].run \in Nat /\ proc[p].run <= launcher.run
      BY <1>3 DEF OldGone, HostFits, Process, Run
    <3>3. CASE Fades
      BY <2>1, <3>1, <3>2, <3>3, FadesBack
    <3>4. CASE CaseSupervise
      BY <2>2, <3>4 DEF CaseSupervise, Begins
    <3>5. ASSUME NEW q \in Role, CaseSpawn(q) PROVE FALSE
      BY <2>2, <3>5 DEF CaseSpawn, Begets, AtStart, Going, Begins
    <3> QED
      BY <3>3, <3>4, <3>5, MostFade
  <2>3. CASE Follows
    <3>1. /\ Earlier(r) /\ (launcher'.step < StartAt(r) \/ launcher'.sub = "enter")
          /\ launcher'.run = launcher.run /\ Launched' = Launched
      BY <1>3, <2>3, EarlierBack DEF Follows, SameRun, Launched
    <3>2. ~Own(p, r)
      BY <1>3, <3>1 DEF OwnKnown
    <3>3. CASE Fades
      BY <2>1, <3>1, <3>2, <3>3, FadesBack DEF Own
    <3>4. CASE CaseSupervise
      <4>1. launcher' = launcher /\ launcher.run # 0
        BY <2>3, <3>4 DEF CaseSupervise, LauncherFits, Follows, Going
      <4> QED
        BY <2>1, <3>2, <3>4, <4>1 DEF CaseSupervise, Own
    <3>5. ASSUME NEW q \in Role, CaseSpawn(q) PROVE FALSE
      <4>1. p = launcher'.pid /\ q = r
        BY <2>1, <3>1, <3>2, <3>5 DEF CaseSpawn, Own
      <4>2. launcher'.step = StartAt(r) /\ launcher'.sub # "enter"
        BY <3>5, <4>1 DEF CaseSpawn, Begets, AtStart, Stays
      <4>3. StartAt(r) \in Nat
        BY DEF StartAt, Role
      <4> QED
        BY <3>1, <4>2, <4>3
    <3> QED
      BY <3>3, <3>4, <3>5, MostFade
  <2> QED
    BY <1>1, <1>3, <2>2, <2>3, GoingBack DEF Earlier
<1>4. ASSUME NEW r \in Role, r \in Launched', Minding(r)', NEW p \in Pid, Own(p, r)'
      PROVE  p = launcher'.pid
  <2>1. proc'[p].name = r /\ proc'[p].run = launcher'.run
    BY <1>4 DEF Own
  <2>2. launcher'.on /\ ~launcher'.failing /\ launcher'.sub \in {"spawned", "open", "poll"}
    BY <1>4 DEF Minding, Going
  <2>3. CASE \/ CaseHost \/ CaseWait \/ CaseSupervise
    <3>1. launcher' = launcher /\ Minding(r) /\ r \in Launched /\ launcher.run # 0
      BY <1>4, <2>2, <2>3 DEF CaseHost, CaseWait, CaseSupervise, Minding, Going, Launched, StartAt,
         LauncherFits
    <3>2. Own(p, r)
      BY <2>1, <2>3, <3>1, FadesBack
         DEF CaseHost, CaseWait, CaseSupervise, Calm, Alike, Own
    <3> QED
      BY <3>1, <3>2 DEF OwnKnown
  <2>4. ASSUME NEW q \in Role, CaseNote(q) PROVE p = launcher'.pid
    <3>1. /\ proc' = proc /\ launcher'.run = launcher.run /\ launcher'.pid = launcher.pid
          /\ r \in Launched /\ Minding(r)
      BY <1>4, <2>4 DEF CaseNote, Notes, Stays, SameRun, Launched, Minding, Going, StartAt, AtStart
    <3> QED
      BY <2>1, <3>1 DEF OwnKnown, Own
  <2>5. ASSUME NEW q \in Role, CaseSpawn(q) PROVE p = launcher'.pid
    <3>1. launcher'.run = launcher.run /\ r \in Launched /\ Earlier(r)
      BY <1>4, <2>5 DEF CaseSpawn, Begets, Stays, SameRun, Launched, Earlier, Minding, Going,
         StartAt, AtStart
    <3>2. ~Own(p, r)
      BY <3>1 DEF OwnKnown
    <3> QED
      BY <2>1, <2>5, <3>1, <3>2 DEF CaseSpawn, Own
  <2>6. ~(CasePass \/ CaseRemove \/ CaseFail \/ CaseCleanup \/ CaseBegin \/ CaseDie)
    BY <2>2 DEF CasePass, CaseRemove, CaseFail, CaseCleanup, CaseBegin, CaseDie, PassOn,
                EarlyOk, FailOver, CleanOn, Begins, Dies, GoesOn, Ends
  <2>7. \A q \in Role : ~CaseStopped(q) /\ ~CaseStart(q) /\ ~CaseTerm(q) /\ ~CaseReap(q)
    BY <2>2 DEF CaseStopped, CaseStart, CaseTerm, CaseReap, StopOn, StartOn, Terms, Reaps,
                CleanOn, GoesOn, Ends
  <2> QED
    BY <2>3, <2>4, <2>5, <2>6, <2>7 DEF Cases
<1> QED
  BY <1>2, <1>3, <1>4 DEF OwnKnown

\* A run that is still in progress is the same run, and forgets nothing it started.
LEMMA StillOn ==
    ASSUME Moves, launcher.on, launcher'.on
    PROVE  SameRun(launcher, launcher') /\ launcher.started \subseteq launcher'.started
BY DEF Moves, PassOn, EarlyOk, CleanOn, Begins, Dies, FailOver, StopOn,
       StartOn, Terms, Reaps, Begets, Notes, Stays, GoesOn, Ends, SameRun, SameGoods

\* A run that begins has nothing of its own.
LEMMA BeginsEarly ==
    ASSUME Moves, ~launcher.on, launcher'.on, OwnKnown', launcher'.provider = "openshell"
    PROVE  \A r \in Role, p \in Pid : Earlier(r)' /\ ~Own(p, r)' /\ ~AfterStop(r)'
<1>1. Begins
  BY DEF Moves, PassOn, EarlyOk, CleanOn, Dies, FailOver, StopOn, AtStop, AtStart,
         StartOn, Terms, Reaps, Begets, Notes, Stays, Going, Failing
<1>2. \A r \in Role : Earlier(r)' /\ r \in Launched' /\ ~AfterStop(r)'
  BY <1>1 DEF Begins, Earlier, Launched, Going, StartAt, StopAt, AfterStop, Role
<1> QED
  BY <1>2 DEF OwnKnown

\* The processes of a run, one step before.
LEMMA OwnBack ==
    ASSUME LauncherFits, Cases, launcher.on, launcher'.on, NEW p \in Pid, NEW r \in Role,
           Own(p, r)'
    PROVE  \/ Fades /\ Own(p, r)
           \/ CaseSupervise /\ proc'[p] = proc[p] /\ Own(p, r)
           \/ CaseSpawn(r) /\ p = launcher'.pid
           \/ \E q \in Role : CaseSpawn(q) /\ proc'[p] = proc[p] /\ Own(p, r)
<1>1. launcher'.run = launcher.run /\ launcher.run # 0 /\ proc'[p].name = r /\ proc'[p].run = launcher.run
  BY CasesMove, StillOn DEF SameRun, LauncherFits, Own
<1>2. CASE Fades
  BY <1>1, <1>2, FadesBack DEF Own
<1>3. CASE CaseSupervise
  BY <1>1, <1>3 DEF CaseSupervise, Own
<1>4. ASSUME NEW q \in Role, CaseSpawn(q)
      PROVE  \/ CaseSpawn(r) /\ p = launcher'.pid
             \/ proc'[p] = proc[p] /\ Own(p, r)
  BY <1>1, <1>4 DEF CaseSpawn, Own
<1> QED
  BY <1>2, <1>3, <1>4, MostFade

\* A gateway of the run is lost only when it is signalled.
LEMMA GatewayLost ==
    ASSUME LauncherFits, Supervised, OwnKnown, OwnStarted, Cases, launcher.on, launcher'.on,
           launcher.provider = "openshell", NEW p \in Pid, Own(p, "gateway"), Own(p, "gateway")',
           Fades, proc'[p].lost
    PROVE  proc'[p].termed
<1>1. /\ proc[p].name = "gateway" /\ ~proc[p].supervised /\ pidfile["service"] # p
      /\ proc[p].lost => proc[p].termed
      /\ proc[p].termed => proc'[p].termed
  BY DEF Own, Supervised, OwnStarted, Fades, Role
<1>2. SUFFICES ASSUME ~proc[p].lost PROVE proc'[p].termed
  BY <1>1
<1>3. ~NoneLost /\ proc' # proc
  BY <1>1, <1>2 DEF NoneLost
<1>4. ~CaseRemove
  BY DEF CaseRemove, Going, OwnKnown, Earlier, Launched, CleanAt, StartAt, Role
<1>5. ~CaseDie /\ ~CaseWait /\ ~CaseSupervise
  BY <1>1, <1>2 DEF CaseDie, Dies, Ends, CaseWait, CaseSupervise
<1>6. CASE CaseFail
  BY <1>2, <1>6 DEF CaseFail
<1>7. ASSUME NEW r \in Role, CaseSpawn(r) PROVE FALSE
  BY <1>1, <1>2, <1>7 DEF CaseSpawn, Role
<1> QED
  BY <1>3, <1>4, <1>5, <1>6, <1>7
     DEF Cases, CasePass, CaseCleanup, CaseBegin, CaseHost, CaseStopped, CaseTerm, CaseReap,
         CaseStart, CaseNote, Calm

\* Only a run that starts a service writes the service's PID file.
LEMMA ServiceFile ==
    ASSUME Cases
    PROVE  pidfile'["service"] \in {pidfile["service"], Absent} \/ CaseNote("service")
<1>1. ASSUME NEW r \in Role, CaseStopped(r)
      PROVE  pidfile'["service"] \in {pidfile["service"], Absent}
  <2>1. r \in {"gateway", "service"} /\ pidfile'[r] \in {pidfile[r], Absent}
        /\ \A q \in {"gateway", "service"} : q # r => pidfile'[q] = pidfile[q]
    BY <1>1 DEF CaseStopped
  <2> QED
    BY <2>1
<1>2. ASSUME NEW r \in Role, CaseNote(r)
      PROVE  pidfile'["service"] \in {pidfile["service"], Absent} \/ CaseNote("service")
  BY <1>2 DEF CaseNote, Role
<1> QED
  BY <1>1, <1>2
     DEF Cases, CasePass, CaseRemove, CaseFail, CaseCleanup, CaseBegin, CaseDie, CaseHost,
         CaseWait, CaseSupervise, CaseTerm, CaseReap, CaseStart, CaseSpawn, Calm, KeepsNames, Role

\* Every step keeps an OpenShell run's knowledge of what it started.
LEMMA OwnStartedStep ==
    ASSUME LauncherFits, HostFits, Supervised, Handled, OwnKnown, OwnStarted, Cases,
           launcher' \in LauncherType, OwnKnown'
    PROVE  OwnStarted'
<1> SUFFICES ASSUME launcher'.on, launcher'.provider = "openshell" PROVE OwnStarted'
  BY DEF OwnStarted
<1>0. Moves
  BY CasesMove
<1>1. CASE ~launcher.on
  <2>1. \A r \in Role, p \in Pid : ~Own(p, r)' /\ ~AfterStop(r)'
    BY <1>0, <1>1, BeginsEarly
  <2>2. {"gateway", "service", "zot"} = Role
    BY DEF Role
  <2>3. \A p \in Pid : ~Own(p, "gateway")' /\ ~Own(p, "service")' /\ ~Own(p, "zot")'
    BY <2>1, <2>2
  <2>4. \A r \in {"gateway", "service"} : \A p \in Pid : ~Own(p, r)'
    BY <2>1, <2>2
  <2>5. ~AfterStop("service")'
    BY <2>1, <2>2, ProvisionAssumption DEF Pid
  <2> QED
    BY <2>3, <2>4, <2>5 DEF OwnStarted
<1>2. CASE launcher.on
  <2>0. /\ SameRun(launcher, launcher') /\ launcher.started \subseteq launcher'.started
        /\ launcher.provider = "openshell" /\ launcher'.run = launcher.run
    BY <1>0, <1>2, StillOn DEF SameRun
  <2>1. ASSUME NEW r \in {"gateway", "service"}, r \notin launcher'.started, NEW p \in Pid, Own(p, r)'
        PROVE  FALSE
    <3>1. ~Own(p, r) /\ r \in Role
      BY <1>2, <2>0, <2>1 DEF OwnStarted, Role
    <3>2. CaseSpawn(r)
      BY <1>2, <2>1, <3>1, OwnBack
    <3>3. r \in launcher'.started
      BY <2>0, <2>1, <3>2 DEF CaseSpawn, Begets
    <3> QED
      BY <2>1, <3>3
  <2>2. ASSUME NEW p \in Pid, Own(p, "gateway")', proc'[p].lost PROVE proc'[p].termed
    <3>1. "gateway" \in Role
      BY DEF Role
    <3>2. CASE Fades /\ Own(p, "gateway")
      BY <1>2, <2>0, <2>2, <3>2, GatewayLost
    <3>3. CASE proc'[p] = proc[p] /\ Own(p, "gateway")
      BY <1>2, <2>0, <2>2, <3>3 DEF OwnStarted
    <3>4. CASE CaseSpawn("gateway") /\ p = launcher'.pid
      BY <2>2, <3>4 DEF CaseSpawn
    <3> QED
      BY <1>2, <2>2, <3>1, <3>2, <3>3, <3>4, OwnBack
  <2>3. ASSUME NEW p \in Pid, Own(p, "gateway")' PROVE pidfile'["service"] # p
    <3>1. "gateway" \in Role
      BY DEF Role
    <3>2. p # Absent
      BY DEF Pid, Absent
    <3>3. CASE CaseNote("service")
      <4>1. /\ AtStart("service") /\ proc' = proc /\ launcher.sub \in {"spawned", "open"}
            /\ pidfile'["service"] = IF launcher.sub = "spawned" THEN Torn ELSE launcher.pid
        BY <3>3 DEF CaseNote, Notes
      <4>2. p # Torn
        BY ProvisionAssumption DEF Pid, Torn
      <4>3. proc[p].name = "gateway" /\ ~proc[p].supervised
        BY <2>3, <4>1 DEF Own, Supervised
      <4>4. p # launcher.pid
        BY <4>1, <4>3 DEF Handled, Minding, AtStart, Own, Role
      <4> QED
        BY <4>1, <4>2, <4>4
    <3>4. CASE Own(p, "gateway") /\ pidfile'["service"] \in {pidfile["service"], Absent}
      BY <1>2, <2>0, <3>2, <3>4 DEF OwnStarted
    <3>5. CASE CaseSpawn("gateway")
      <4>1. AfterStop("service") /\ Earlier("service")
        BY <2>0, <3>5 DEF CaseSpawn, Begets, AtStart, AfterStop, Earlier, StopAt, StartAt, Going
      <4>2. pidfile' = pidfile /\ pidfile["service"] = Absent
        BY <1>2, <2>0, <3>5, <4>1 DEF CaseSpawn, OwnStarted
      <4> QED
        BY <3>2, <4>2
    <3> QED
      BY <1>2, <2>3, <3>1, <3>3, <3>4, <3>5, OwnBack, ServiceFile
  <2>4. ASSUME NEW p \in Pid, Own(p, "zot")'
        PROVE  proc'[p].termed \/ p = launcher'.zot \/ Minding("zot")'
    <3>1. "zot" \in Role /\ "zot" \in Launched
      BY <2>0 DEF Role, Launched
    <3>2. CASE CaseSpawn("zot")
      BY <1>2, <2>0, <3>2 DEF CaseSpawn, Begets, AtStart, Stays, Minding, Going, StartAt, SameRun
    <3>3. CASE Own(p, "zot") /\ (proc[p].termed => proc'[p].termed)
      <4>1. proc[p].termed \/ p = launcher.zot \/ Minding("zot")
        BY <1>2, <2>0, <3>3 DEF OwnStarted
      <4>2. CASE Minding("zot")
        <5>1. p = launcher.pid
          BY <3>1, <3>3, <4>2 DEF OwnKnown
        <5>2. CASE Minding("zot")'
          BY <5>2
        <5>3. CASE ~Minding("zot")'
          <6>1. launcher' # launcher
            BY <4>2, <5>3 DEF Minding, Going, StartAt
          <6>2. \A r \in Role : ~CaseNote(r) /\ ~CaseSpawn(r) /\ ~CaseTerm(r) /\ ~CaseReap(r) /\ ~CaseStopped(r)
            BY <1>2, <2>0, <4>2, <5>3 DEF CaseNote, CaseSpawn, CaseTerm, CaseReap, CaseStopped, Notes,
               Begets, Terms, Reaps, AtStart, AtStop, Stays, SameRun, Minding, Going, StartAt,
               StopAt, Role
          <6>3. ~CasePass /\ ~CaseRemove /\ ~CaseCleanup /\ ~CaseBegin /\ ~CaseDie
            BY <1>2, <4>2 DEF CasePass, CaseRemove, CaseCleanup, CaseBegin, CaseDie, PassOn, EarlyOk,
               Begins, Dies, Ends, CleanOn, Minding, Going, Failing
          <6>4. CASE CaseFail
            <7>1. launcher.step = 12 /\ GoingOpenShell /\ Going
              BY <2>0, <4>2 DEF Minding, StartAt, GoingOpenShell
            <7>2. launcher.started = {}
              BY <7>1 DEF LauncherFits, LauncherType, Role
            <7>3. FailOver({})
              BY <1>2, <2>0, <6>4, <7>1 DEF CaseFail, AtStart, StartAt
            <7> QED
              BY <2>0, <7>2, <7>3 DEF FailOver, Ends
          <6>5. ASSUME NEW r \in Role, CaseStart(r) PROVE p = launcher'.zot
            BY <2>0, <4>2, <5>1, <6>5 DEF CaseStart, StartOn, AtStart, Minding, StartAt, Role
          <6> QED
            BY <6>1, <6>2, <6>3, <6>4, <6>5 DEF Cases, CaseHost, CaseWait, CaseSupervise
        <5> QED
          BY <5>2, <5>3
      <4>3. CASE p = launcher.zot /\ ~Minding("zot")
        <5>1. \A r \in Role : CaseStart(r) => r # "zot"
          <6>1. ASSUME CaseStart("zot") PROVE FALSE
            BY <2>0, <4>3, <6>1 DEF CaseStart, StartOn, AtStart, Minding, Going
          <6> QED
            BY <6>1
        <5>2. launcher'.zot = launcher.zot
          BY <1>2, <5>1
             DEF Cases, CasePass, CaseRemove, CaseFail, CaseCleanup, CaseBegin, CaseDie, CaseHost,
                 CaseWait, CaseSupervise, CaseStopped, CaseTerm, CaseReap, CaseStart, CaseSpawn,
                 CaseNote, PassOn, EarlyOk, CleanOn, Begins, Dies, FailOver, StopOn, StartOn,
                 Terms, Reaps, Begets, Notes, Stays, GoesOn, SameGoods, Ends
        <5> QED
          BY <4>3, <5>2
      <4> QED
        BY <3>3, <4>1, <4>2, <4>3
    <3> QED
      BY <1>2, <2>4, <3>1, <3>2, <3>3, OwnBack DEF Fades, Own
  <2>5. ASSUME AfterStop("service")', Earlier("service")' PROVE pidfile'["service"] = Absent
    <3>1. Follows
      BY <1>0, <1>2, <2>5, GoingBack DEF AfterStop, Begins
    <3>2. Earlier("service")
      BY <2>5, <3>1, EarlierBack DEF Role
    <3>3. ~CaseNote("service")
      BY <3>2 DEF CaseNote, Notes, AtStart, Earlier, StartAt
    <3>4. CASE AfterStop("service")
      BY <1>2, <2>0, <3>2, <3>3, <3>4, ServiceFile DEF OwnStarted
    <3>5. CASE ~AfterStop("service")
      <4>1. "service" \in Stopped'
        BY DEF Stopped
      <4>2. CaseStopped("service") /\ Going
        BY <2>5, <3>5, <4>1, AfterStopBack
      <4> QED
        BY <4>2 DEF CaseStopped
    <3> QED
      BY <3>4, <3>5
  <2> QED
    BY <2>1, <2>2, <2>3, <2>4, <2>5 DEF OwnStarted
<1> QED
  BY <1>1, <1>2

\* The cleanup has dealt with role r, or is about to kill what it has signalled.
Past(r) == launcher.step > (IF r = "service" THEN 1 ELSE 2) \/ Stopping(r)

\* How the cleanup gets there.
LEMMA PastBack ==
    ASSUME LauncherFits, Cases, launcher' \in LauncherType, NEW r \in {"gateway", "service"},
           Failing', Past(r)'
    PROVE  Failing /\ (Past(r) \/ CaseStopped(r) \/ CaseTerm(r))
<1>1. launcher.step \in Nat /\ launcher'.step \in Nat
  BY DEF LauncherFits, LauncherType
<1>2. ~CasePass /\ ~CaseRemove /\ ~CaseFail /\ ~CaseBegin /\ ~CaseDie
  BY DEF CasePass, CaseRemove, CaseFail, CaseBegin, CaseDie, PassOn, EarlyOk, FailOver, Begins,
         Dies, GoesOn, Ends, Going, Failing, Past, Stopping
<1>3. \A q \in Role : ~CaseStart(q) /\ ~CaseSpawn(q) /\ ~CaseNote(q)
  BY DEF CaseStart, CaseSpawn, CaseNote, StartOn, Begets, Notes, AtStart, Stays, Going, Failing
<1>4. CASE CaseHost \/ CaseWait \/ CaseSupervise
  BY <1>4 DEF CaseHost, CaseWait, CaseSupervise, Failing, Past, Stopping
<1>5. CASE CaseCleanup
  BY <1>1, <1>5 DEF CaseCleanup, CleanOn, Failing, Past
<1>6. ASSUME NEW q \in Role, CaseTerm(q) \/ CaseReap(q)
      PROVE  Failing /\ (Past(r) \/ CaseTerm(r))
  <2>1. /\ AtStop(q) /\ Stays /\ q \in {"gateway", "service"} /\ Failing
        /\ CaseReap(q) => launcher.sub = "term"
    BY <1>6 DEF CaseTerm, CaseReap, Terms, Reaps, Stays, AtStop, Failing
  <2>2. CASE launcher.step > (IF r = "service" THEN 1 ELSE 2)
    BY <2>1, <2>2 DEF Past
  <2>3. CASE ~(launcher.step > (IF r = "service" THEN 1 ELSE 2))
    <3>1. q = r
      BY <1>1, <2>1, <2>3 DEF Past, Stopping, AtStop, Stays, Failing
    <3> QED
      BY <1>6, <2>1, <3>1 DEF Past, Stopping, AtStop, Failing
  <2> QED
    BY <2>2, <2>3
<1>7. ASSUME NEW q \in Role, CaseStopped(q)
      PROVE  Failing /\ (Past(r) \/ CaseStopped(r))
  <2>1. /\ AtStop(q) /\ q \in {"gateway", "service"} /\ Failing
        /\ launcher'.step = launcher.step + 1 /\ launcher'.sub = "enter"
    BY <1>7 DEF CaseStopped, CleanOn, StopOn, GoesOn, Ends, Failing, Going
  <2> QED
    BY <1>1, <1>7, <2>1 DEF Past, Stopping, AtStop, Failing
<1> QED
  BY <1>2, <1>3, <1>4, <1>5, <1>6, <1>7 DEF Cases

\* A process of an OpenShell run that is not lost has its PID file.
LEMMA OwnNamed ==
    ASSUME Accounted, Supervised, launcher.on, launcher.provider = "openshell",
           launcher.sub = "enter", NEW r \in {"gateway", "service"}, NEW p \in Pid, Own(p, r),
           ~proc[p].lost
    PROVE  pidfile[r] = p
BY DEF Accounted, Supervised, Own, Ours

\* The cleanup signals what the run started.
LEMMA CleanupSignals ==
    ASSUME LauncherFits, Accounted, Supervised, OwnStarted, OwnStopped, Cases,
           launcher' \in LauncherType, Failing', NEW r \in {"gateway", "service"}, Past(r)',
           NEW p \in Pid, Own(p, r)'
    PROVE  Signalled(p)'
<1>1. /\ Failing /\ launcher.on /\ launcher'.on /\ launcher.provider = "openshell"
      /\ Past(r) \/ CaseStopped(r) \/ CaseTerm(r)
  BY PastBack DEF Failing, LauncherFits
<1>2. /\ Own(p, r) /\ proc'[p].name = r /\ proc[p].name = r
      /\ proc[p].termed => proc'[p].termed
      /\ proc[p].lost => proc'[p].lost
  <2>1. \A q \in Role : ~CaseSpawn(q)
    BY <1>1 DEF CaseSpawn, Begets, AtStart, Failing, Going
  <2>2. r \in Role
    BY DEF Role
  <2>3. Own(p, r) /\ (Fades \/ proc'[p] = proc[p])
    BY <1>1, <2>1, <2>2, OwnBack
  <2> QED
    BY <2>2, <2>3, FadesBack DEF Own
<1>3. Signalled(p) => Signalled(p)'
  BY <1>2 DEF Signalled
<1>4. proc[p].lost => Signalled(p)
  BY <1>1, <1>2 DEF Signalled, OwnStarted
<1>5. CASE Past(r)
  BY <1>1, <1>2, <1>3, <1>5 DEF Past, OwnStopped
<1>6. CASE CaseStopped(r) /\ ~Past(r) /\ ~proc[p].lost
  <2>1. AtStop(r) /\ launcher.sub \notin {"term", "reap"} /\ ~Going
    BY <1>1, <1>6 DEF CaseStopped, Past, AtStop, Stopping, Failing, Going
  <2>2. r \in launcher.started
    BY <1>1, <1>2 DEF OwnStarted
  <2>3. launcher.sub = "enter" /\ pidfile[r] # p
    BY <1>2, <1>6, <2>1, <2>2 DEF CaseStopped
  <2> QED
    BY <1>1, <1>2, <1>6, <2>3, OwnNamed
<1>7. CASE CaseTerm(r) /\ ~proc[p].lost
  <2>1. launcher.sub = "enter" /\ pidfile[r] = launcher'.pid /\ proc'[launcher'.pid].termed
    BY <1>7 DEF CaseTerm, Terms
  <2>2. pidfile[r] = p
    BY <1>1, <1>2, <1>7, <2>1, OwnNamed
  <2> QED
    BY <2>1, <2>2 DEF Signalled
<1> QED
  BY <1>1, <1>3, <1>4, <1>5, <1>6, <1>7

\* An OpenShell run that has failed leaves its processes signalled.
LEMMA FailedStep ==
    ASSUME LauncherFits, Handled, OwnKnown, OwnStarted, OwnStopped, Cases,
           launcher' \in LauncherType, Ended("err")', launcher'.provider = "openshell", NEW p \in Pid,
           proc'[p].name \in Role, proc'[p].run = launcher'.run
    PROVE  Signalled(p)'
<1>1. ASSUME Fades
      PROVE  /\ proc[p].name = proc'[p].name /\ proc[p].run = proc'[p].run
             /\ Signalled(p) /\ pidfile'["zot"] = pidfile["zot"] => Signalled(p)'
             /\ Signalled(p) /\ proc[p].name # "zot" => Signalled(p)'
  BY <1>1 DEF Fades, Signalled
<1>2. CASE CaseHost \/ CaseWait \/ CaseSupervise
  <2>1. launcher' = launcher /\ Ended("err") /\ launcher.run # 0
    BY <1>2 DEF CaseHost, CaseWait, CaseSupervise, Ended, LauncherFits
  <2>2. Fades \/ (CaseSupervise /\ proc'[p] = proc[p])
    BY <1>2, <2>1 DEF CaseHost, CaseWait, CaseSupervise, Calm, Fades, Alike
  <2>3. pidfile'["zot"] = pidfile["zot"]
    BY <1>2 DEF CaseHost, CaseWait, CaseSupervise, Role
  <2> QED
    BY <1>1, <2>1, <2>2, <2>3 DEF OwnStopped, FailedRunStopsItsOwn, Signalled
<1>3. ASSUME Going, FailOver({}) \/ \E r \in {"gateway", "service"} : FailOver({r})
      PROVE  launcher.provider = "openshell" /\ launcher.started = {} /\ launcher'.run = launcher.run
  BY <1>3 DEF FailOver, Ended, Ends, SameRun
<1>4. CASE CaseFail
  <2>1. Going /\ launcher.on /\ launcher.provider = "openshell" /\ launcher.started = {}
        /\ launcher'.run = launcher.run
    BY <1>3, <1>4 DEF CaseFail, FailOver, Going
  <2>2. Own(p, proc[p].name) /\ proc[p].name = proc'[p].name
    BY <1>1, <1>4, <2>1 DEF CaseFail, Own
  <2>3. proc[p].name = "zot"
    BY <2>1, <2>2 DEF OwnStarted, Role
  <2>4. proc[p].termed \/ Minding("zot")
    <3>1. launcher.zot = 0
      BY <2>1 DEF LauncherFits
    <3> QED
      BY <2>1, <2>2, <2>3, <3>1 DEF OwnStarted, Pid
  <2>5. CASE Minding("zot")
    <3>1. "zot" \in Launched
      BY <2>1 DEF Launched, Role
    <3>2. p = launcher.pid
      BY <2>2, <2>3, <2>5, <3>1 DEF OwnKnown
    <3>3. CASE launcher.sub = "poll"
      <4>1. pidfile["zot"] = p
        BY <2>1, <2>5, <3>2, <3>3 DEF Handled, GoingOpenShell
      <4> QED
        BY <1>4, <2>2, <2>3, <4>1 DEF CaseFail, Signalled
    <3>4. CASE launcher.sub # "poll"
      BY <1>4, <2>5, <3>1, <3>2, <3>4 DEF CaseFail, Signalled
    <3> QED
      BY <3>3, <3>4
  <2>6. CASE proc[p].termed
    BY <1>1, <1>4, <2>6 DEF CaseFail, Signalled
  <2> QED
    BY <2>4, <2>5, <2>6
<1>5. CASE CaseRemove
  <2>1. Going /\ launcher.step = CleanAt /\ FailOver({})
    BY <1>5 DEF CaseRemove, PassOn, EarlyOk, Ended, GoesOn, Ends
  <2>2. launcher.provider = "openshell" /\ launcher'.run = launcher.run
    BY <1>3, <2>1
  <2>3. proc[p].name \in Role /\ proc[p].run = launcher.run
    BY <1>5, <2>2 DEF CaseRemove, Alike
  <2>4. Earlier(proc[p].name) /\ proc[p].name \in Launched
    BY <2>1, <2>2, <2>3 DEF Earlier, CleanAt, StartAt, Launched, Role
  <2> QED
    BY <2>3, <2>4 DEF OwnKnown, Own
<1>6. CASE CaseCleanup
  <2>1. /\ Failing /\ launcher.on /\ launcher.step = 4 /\ launcher'.run = launcher.run
        /\ Fades /\ launcher.provider = "openshell"
    BY <1>6 DEF CaseCleanup, CleanOn, GoesOn, Ends, SameRun, Ended, Calm, Failing, LauncherFits
  <2>2. Own(p, proc[p].name) /\ proc[p].name \in Role /\ proc[p].name = proc'[p].name
    BY <1>1, <2>1 DEF Own
  <2>3. CASE proc[p].name \in {"gateway", "service"}
    BY <1>1, <2>1, <2>2, <2>3 DEF OwnStopped
  <2>4. CASE proc[p].name = "zot"
    <3>1. proc[p].termed \/ p = launcher.zot
      BY <2>1, <2>2, <2>4 DEF OwnStarted, Minding, Failing, Going
    <3> QED
      BY <1>1, <1>6, <2>1, <3>1 DEF CaseCleanup, Signalled, Fades
  <2> QED
    BY <2>2, <2>3, <2>4 DEF Role
<1>7. ~CasePass /\ ~CaseBegin /\ ~CaseDie
  BY DEF CasePass, CaseBegin, CaseDie, PassOn, EarlyOk, Begins, Dies, GoesOn, Ends, Ended
<1>8. \A r \in Role : /\ ~CaseStopped(r) /\ ~CaseTerm(r) /\ ~CaseReap(r)
                      /\ ~CaseStart(r) /\ ~CaseSpawn(r) /\ ~CaseNote(r)
  BY DEF CaseStopped, CaseTerm, CaseReap, CaseStart, CaseSpawn, CaseNote, StopOn, CleanOn,
         StartOn, Terms, Reaps, Begets, Notes, Stays, AtStop, GoesOn, Ends, Ended, Failing
<1> QED
  BY <1>2, <1>4, <1>5, <1>6, <1>7, <1>8 DEF Cases

\* Every step keeps the processes of a failed run signalled.
LEMMA OwnStoppedStep ==
    ASSUME LauncherFits, Accounted, Supervised, Handled, OwnKnown, OwnStarted, OwnStopped,
           Cases, launcher' \in LauncherType
    PROVE  OwnStopped'
<1>1. ASSUME Failing', NEW r \in {"gateway", "service"}, Past(r)', NEW p \in Pid, Own(p, r)'
      PROVE  Signalled(p)'
  BY <1>1, CleanupSignals
<1>2. FailedRunStopsItsOwn'
  BY FailedStep DEF FailedRunStopsItsOwn, Signalled
<1>3. ASSUME Failing', launcher'.step > 1 \/ Stopping("service")', NEW p \in Pid, Own(p, "service")'
      PROVE  Signalled(p)'
  BY <1>1, <1>3 DEF Past
<1>4. ASSUME Failing', launcher'.step > 2 \/ Stopping("gateway")', NEW p \in Pid, Own(p, "gateway")'
      PROVE  Signalled(p)'
  BY <1>1, <1>4 DEF Past
<1> QED
  BY <1>2, <1>3, <1>4 DEF OwnStopped

-----------------------------------------------------------------------------
(***************************************************************************)
(* What is on the host: the unit, the files, the trusted roots.            *)
(***************************************************************************)
\* The run in progress is at step s of its plan.
Doing(s) == launcher.on /\ Plan(launcher)[launcher.step] = s

\* A step of the plan is taken by its own action.
LEMMA Doers ==
    ASSUME Step
    PROVE  /\ launcher.on
           /\ Doing("unit") => StopUnit
           /\ Doing("clean") => Clean
           /\ Doing("stop_drivers") => StopDrivers
           /\ Doing("ca") => RegistryCA
           /\ \A s \in WriteSteps : Doing(s) => Writes(s)
<1> DEFINE Steps == {"unit", "clean", "stop_drivers", "ca"} \cup WriteSteps
           Checks == \/ VerifyAssets \/ NativePreflight \/ PlatformPreflight \/ CheckConfig
                     \/ SmokeTest \/ GatewayPki
           WritesFile == \/ CompileProfile \/ CreatePki \/ GenerateServicePki \/ WriteNativeConfig
                         \/ WriteServiceConfig \/ WriteNativeEnv \/ WriteAgentEnv
                         \/ WriteGatewayFiles
           SpawnsProcess == SpawnRegistry \/ SpawnGateway \/ SpawnService \/ SpawnNativeService
           Others == \/ StopZot \/ Sweep \/ FreePorts \/ SignalZot \/ TrustCA \/ StartUnit
                     \/ Warm \/ Wait
           Frees(t) == Doing(t) /\ t \notin Steps
<1>0. \A t, sub : At(t, sub) => Doing(t)
  BY DEF At, Doing
<1>1. ASSUME Checks PROVE \E t : Frees(t)
  <2>1. ASSUME NEW t \in {"verify", "preflight", "check", "smoke", "gateway_pki"}, Passes(t) \/ Skips(t)
        PROVE  Frees(t)
    BY <1>0, <2>1 DEF Passes, Skips, WriteSteps
  <2> HIDE DEF Frees
  <2> QED
    BY <1>1, <2>1 DEF VerifyAssets, NativePreflight, PlatformPreflight, CheckConfig, SmokeTest,
         GatewayPki
<1>2. ASSUME WritesFile PROVE \E t \in WriteSteps : Writes(t) /\ Doing(t)
  <2>1. \E t \in WriteSteps : Writes(t)
    BY <1>2 DEF CompileProfile, CreatePki, GenerateServicePki, WriteNativeConfig,
         WriteServiceConfig, WriteNativeEnv, WriteAgentEnv, WriteGatewayFiles, WriteSteps
  <2> QED
    BY <1>0, <2>1 DEF Writes
<1>3. ASSUME SpawnsProcess PROVE \E t : Frees(t)
  <2>1. ASSUME NEW t \in StartSteps, Spawns(t) PROVE Frees(t)
    BY <1>0, <2>1 DEF Spawns, WriteSteps, StartSteps
  <2> HIDE DEF Frees
  <2> QED
    BY <1>3, <2>1 DEF SpawnRegistry, SpawnGateway, SpawnService, SpawnNativeService, StartSteps
<1>4. ASSUME NEW t \in DOMAIN StopRole, Stop(t) PROVE Frees(t)
  <2>1. t \in StopSteps /\ \E sub : At(t, sub)
    BY <1>4 DEF StopRole, StopSteps, Stop, StopNothing, StopRefuses, StopTerm, StopKill, StopReap
  <2> QED
    BY <1>0, <2>1 DEF StopSteps, WriteSteps
<1>5. ASSUME NEW t \in DOMAIN StartRole, Start(t) PROVE Frees(t)
  <2>1. t \in StartSteps /\ \E sub : At(t, sub)
    BY <1>5 DEF StartRole, StartSteps, Start, StartSkipped, StartOpen, StartWrite, StartReady,
                StartGivesUp
  <2> QED
    BY <1>0, <2>1 DEF StartSteps, WriteSteps
<1>6. ASSUME Others PROVE \E t : Frees(t)
  <2>1. \E t \in {"stop_zot", "sweep", "free_ports", "signal_zot", "trust", "start_service",
                  "warm", "wait"} : At(t, "enter")
    BY <1>6 DEF StopZot, Sweep, FreePorts, SignalZot, TrustCA, StartUnit, Warm, Wait
  <2> QED
    BY <1>0, <2>1 DEF WriteSteps
<1>7. /\ StopUnit => Doing("unit")
      /\ Clean => Doing("clean")
      /\ StopDrivers => Doing("stop_drivers")
      /\ RegistryCA => Doing("ca")
  BY <1>0 DEF StopUnit, Clean, StopDrivers, RegistryCA
<1>8. \A s, t : Doing(s) /\ Doing(t) => s = t
  BY DEF Doing
<1>9. \/ \E t : Frees(t)
      \/ \E t \in WriteSteps : Writes(t) /\ Doing(t)
      \/ StopUnit \/ Clean \/ StopDrivers \/ RegistryCA
  <2> HIDE DEF Frees
  <2> QED
    BY <1>1, <1>2, <1>3, <1>4, <1>5, <1>6 DEF Step
<1>10. launcher.on
  BY <1>7, <1>9 DEF Doing
<1> HIDE DEF Checks, WritesFile, SpawnsProcess, Others
<1>11. CASE \E t : Frees(t)
  BY <1>8, <1>10, <1>11
<1>12. ASSUME NEW t \in WriteSteps, Writes(t), Doing(t)
       PROVE  /\ \A s : Doing(s) => s = t
              /\ t \notin {"unit", "clean", "stop_drivers", "ca"}
  BY <1>8, <1>12 DEF WriteSteps
<1>13. CASE \E t \in WriteSteps : Writes(t) /\ Doing(t)
  BY <1>10, <1>12, <1>13
<1>14. CASE StopUnit \/ Clean \/ StopDrivers \/ RegistryCA
  BY <1>7, <1>8, <1>10, <1>14 DEF WriteSteps
<1> QED
  BY <1>9, <1>11, <1>13, <1>14

\* What a run is doing at the steps that matter here.
LEMMA DoingAt ==
    ASSUME LauncherFits, Going
    PROVE  /\ launcher.provider = "native" =>
               /\ launcher.step = 1 => Doing("unit")
               /\ launcher.step = 4 => Doing("clean")
               /\ launcher.step = 6 => Doing("profile")
               /\ launcher.step = 7 => Doing("pki")
               /\ launcher.step = 8 => Doing("config")
               /\ launcher.step = 11 => Doing("env")
           /\ launcher.provider = "openshell" =>
               /\ launcher.step = 7 => Doing("stop_drivers")
               /\ launcher.step = 8 => Doing("clean")
               /\ launcher.step = 10 => Doing("ca")
               /\ launcher.step = 16 => Doing("pki")
               /\ launcher.step = 17 => Doing("config")
               /\ launcher.step = 20 => Doing("env")
BY NativeSteps, OpenShellSteps DEF Doing, Plan, Going

\* A run in progress moves by a step of its own, unless it is killed.
LEMMA RunActs ==
    ASSUME LauncherFits, [Next]_vars, launcher.on, launcher' # launcher
    PROVE  Step \/ (~launcher'.on /\ launcher'.result = "killed")
<1>1. CASE Kill \/ Interrupt
  <2>1. launcher' = Return(launcher, "killed")
    BY <1>1 DEF Kill, Interrupt
  <2> QED
    BY <2>1, ReturnEnds DEF LauncherFits, Results, Ends
<1> QED
  BY <1>1 DEF Next, Begin, Host, WaitReturns, Other, Supervise, Hangup, Boot, Exit, vars

\* Enabling the unit: it was not there before.
LEMMA StartUnitFrom ==
    ASSUME LauncherFits, Supervised, StartUnit
    PROVE  /\ GoingNative /\ launcher.step = 10 /\ launcher.start = "systemd"
           /\ unit = "none" /\ \A p \in Pid : ~proc[p].supervised
<1>1. At("start_service", "enter") /\ launcher.on /\ launcher.sub = "enter" /\ launcher.start = "systemd"
  BY DEF StartUnit, At
<1>2. GoingNative /\ launcher.step = 10
  <2>1. launcher.provider = "native"
    BY <1>1 DEF LauncherFits, LauncherType
  <2> QED
    BY <1>1, <2>1, GoingOrFailing, NativePlace
<1>3. unit = "none"
  BY <1>1, <1>2 DEF Supervised, Earlier, StartAt, GoingNative, Going
<1> QED
  BY <1>1, <1>2, <1>3 DEF Supervised

\* Who is supervised after a step.
LEMMA SupervisedBy ==
    ASSUME LauncherFits, HostFits, Supervised, Cases, [Next]_vars, NEW p \in Pid, proc'[p].supervised
    PROVE  proc'[p].name = "service" /\ unit' = "enabled"
<1>1. CASE StopUnit
  <2>1. CASE unit = "none"
    <3>1. proc' = proc
      BY <1>1, <2>1 DEF StopUnit
    <3> QED
      BY <2>1, <3>1 DEF Supervised
  <2>2. ASSUME proc' = [q \in Pid |-> IF q \in {t \in Pid : proc[t].supervised}
                                      THEN NoProcess ELSE proc[q]]
        PROVE  FALSE
    BY <2>2, NoProcessFields
  <2>3. ASSUME proc' = [q \in Pid |->
                          IF q \in {t \in Pid : proc[t].supervised}
                          THEN [proc[q] EXCEPT !.supervised = FALSE, !.lost = TRUE]
                          ELSE proc[q]]
        PROVE  FALSE
    <3>1. proc[p] \in Process
      BY DEF HostFits
    <3>2. CASE proc[p].supervised
      <4>1. proc'[p] = [proc[p] EXCEPT !.supervised = FALSE, !.lost = TRUE]
        BY <2>3, <3>2
      <4> QED
        BY <3>1, <4>1 DEF Process
    <3>3. CASE ~proc[p].supervised
      BY <2>3, <3>3
    <3> QED
      BY <3>2, <3>3
  <2> QED
    BY <1>1, <2>1, <2>2, <2>3 DEF StopUnit
<1>2. CASE StartUnit
  <2>1. ~proc[p].supervised
    BY <1>2, StartUnitFrom
  <2>2. CASE proc' = proc
    BY <2>1, <2>2
  <2>3. ASSUME NEW q \in Pid, IsNew(q), unit' = "enabled",
               proc' = [proc EXCEPT ![q] = [NewProcess("service") EXCEPT !.supervised = TRUE]]
        PROVE  proc'[p].name = "service" /\ unit' = "enabled"
    BY <2>1, <2>3, UnitFields, NewTable
  <2> QED
    BY <1>2, <2>2, <2>3 DEF StartUnit
<1>3. CASE UNCHANGED unit
  <2>1. CASE Fades
    BY <1>3, <2>1 DEF Fades, Supervised
  <2>2. CASE CaseSupervise
    BY <1>3, <2>2 DEF CaseSupervise, Supervised
  <2>3. ASSUME NEW r \in Role, CaseSpawn(r) PROVE proc'[p].name = "service" /\ unit' = "enabled"
    BY <1>3, <2>3 DEF CaseSpawn, Supervised
  <2> QED
    BY <2>1, <2>2, <2>3, MostFade
<1> QED
  BY <1>1, <1>2, <1>3, Writers

\* Every step keeps the unit and its service together.
LEMMA SupervisedStep ==
    ASSUME LauncherFits, HostFits, Supervised, Cases, [Next]_vars, launcher' \in LauncherType,
           OwnKnown'
    PROVE  Supervised'
<1>0. Moves
  BY CasesMove
<1>1. ASSUME GoingNative', launcher'.step > 1
      PROVE  unit' = "none" \/ (launcher'.start = "systemd" /\ ~Earlier("service")')
  <2>1. Follows /\ GoingNative
    BY <1>0, <1>1, GoingBack DEF GoingNative, Begins, Follows, SameRun, Going
  <2>2. CASE StopUnit
    BY <2>2 DEF StopUnit
  <2>3. CASE StartUnit
    <3>1. launcher.step = 10 /\ launcher.start = "systemd" /\ launcher.on
      BY <2>3, StartUnitFrom DEF GoingNative, Going
    <3>2. ASSUME Fails PROVE FALSE
      <4>1. FailOver({})
        BY <2>1, <3>1, <3>2, FailsIs DEF GoingNative
      <4> QED
        BY <1>1, <2>1, <4>1 DEF FailOver, Ends, GoingNative, Going
    <3>3. \E p \in Pid : launcher' = [launcher EXCEPT !.sub = "poll", !.pid = p]
      BY <2>3, <3>2 DEF StartUnit
    <3>4. launcher'.step = 10 /\ launcher'.sub = "poll" /\ launcher'.start = "systemd" /\ launcher'.provider = "native"
      BY <1>1, <3>1, <3>3 DEF LauncherFits, LauncherType, GoingNative
    <3> QED
      BY <3>4 DEF Earlier, StartAt
  <2>4. CASE UNCHANGED unit /\ launcher.step > 1
    <3>1. unit = "none" \/ (launcher.start = "systemd" /\ ~Earlier("service"))
      BY <2>1, <2>4 DEF Supervised
    <3>2. Earlier("service")' => Earlier("service")
      BY <2>1, EarlierBack DEF Role
    <3> QED
      BY <2>1, <2>4, <3>1, <3>2 DEF Follows, SameRun
  <2>5. CASE UNCHANGED unit /\ ~(launcher.step > 1)
    <3>1. launcher.step = 1 /\ launcher' # launcher /\ launcher.on
      BY <1>1, <2>1, <2>5 DEF LauncherFits, GoingNative, Going
    <3>2. StopUnit
      BY <1>1, <2>1, <3>1, RunActs, Doers, DoingAt DEF GoingNative, Going
    <3> QED
      BY <3>2 DEF StopUnit
  <2> QED
    BY <2>2, <2>3, <2>4, <2>5, Writers
<1>2. ASSUME Ended("ok")', launcher'.provider = "native", launcher'.start # "systemd"
      PROVE  unit' = "none"
  <2>1. CASE launcher' = launcher
    <3>1. ~launcher.on /\ unit = "none"
      BY <1>2, <2>1 DEF Ended, Supervised
    <3> QED
      BY <3>1, Writers DEF StopUnit, StartUnit, At
  <2>2. CASE launcher' # launcher
    <3>1. (Going /\ SameRun(launcher, launcher') /\ launcher.step = LastStep) \/ EarlyOk
      BY <1>0, <1>2, <2>2, SuccessBack
    <3>2. GoingNative /\ launcher.step > 1 /\ launcher.start # "systemd"
      BY <1>2, <3>1 DEF GoingNative, LastStep, LastOf, EarlyOk, Ends, SameRun, Stopped, StopAt, Going,
         LauncherFits, LauncherType
    <3> QED
      BY <3>2, Writers DEF Supervised, StopUnit, StartUnit
  <2> QED
    BY <2>1, <2>2
<1>3. ASSUME launcher'.on, launcher'.provider = "openshell", NEW p \in Pid, proc'[p].supervised,
             proc'[p].run = launcher'.run
      PROVE  FALSE
  <2>1. Own(p, "service")' /\ "service" \in Role
    BY <1>3, SupervisedBy DEF Own, Role
  <2>2. CASE ~launcher.on
    BY <1>0, <1>3, <2>1, <2>2, BeginsEarly
  <2>3. CASE launcher.on
    <3>1. launcher.provider = "openshell" /\ launcher'.run = launcher.run
      BY <1>0, <1>3, <2>3, StillOn DEF SameRun
    <3>2. ~(proc[p].supervised /\ Own(p, "service"))
      BY <2>3, <3>1 DEF Supervised, Own
    <3>3. ~(CaseSpawn("service") /\ p = launcher'.pid)
      BY <1>3, <3>1 DEF CaseSpawn
    <3>4. ~(Fades /\ Own(p, "service"))
      BY <1>3, <2>1, <3>2 DEF Fades, Own
    <3> QED
      BY <1>3, <2>1, <2>3, <3>2, <3>3, <3>4, OwnBack
  <2> QED
    BY <2>2, <2>3
<1> QED
  BY <1>1, <1>2, <1>3, SupervisedBy DEF Supervised

\* Where the state is removed.
LEMMA CleanPlace ==
    ASSUME LauncherFits, At("clean", "enter")
    PROVE  Going /\ launcher.on /\ launcher.step = CleanAt /\ launcher.sub = "enter"
<1>1. "clean" \notin StopSteps \cup StartSteps
  BY DEF StopSteps, StartSteps
<1> QED
  BY <1>1, PassPlace, GoingOrFailing

LEMMA CleanFrom ==
    ASSUME LauncherFits, Clean
    PROVE  Going /\ launcher.on /\ launcher.step = CleanAt /\ launcher.sub = "enter"
BY CleanPlace DEF Clean

\* ... and where the run goes from there, if it does not end.
LEMMA CleanMoves ==
    ASSUME LauncherFits, Clean, Going'
    PROVE  launcher'.step = launcher.step + 1
<1>1. Going /\ launcher.on
  BY CleanFrom
<1>2. ASSUME NEW result \in Results, launcher' = Return(launcher, result) PROVE FALSE
  BY <1>2, ReturnEnds DEF LauncherFits, Ends, Going
<1>3. ASSUME Fails PROVE FALSE
  BY <1>1, <1>3, FailsIs DEF FailOver, Ends, Going
<1>4. ASSUME Proceed PROVE launcher'.step = launcher.step + 1
  BY <1>1, <1>4, ProceedIs DEF GoesOn, Ends, Going
<1> QED
  BY <1>2, <1>3, <1>4 DEF Clean, Results

\* Where a registry CA is kept or minted, and where it is trusted.
LEMMA RegistryFrom ==
    ASSUME LauncherFits
    PROVE  /\ RegistryCA => GoingOpenShell /\ launcher.on /\ launcher.step = 10
           /\ TrustCA => GoingOpenShell /\ launcher.on /\ launcher.step = 11
<1>1. ASSUME RegistryCA PROVE At("ca", "enter") /\ launcher.on
  BY <1>1 DEF RegistryCA, At
<1>2. ASSUME TrustCA PROVE At("trust", "enter") /\ launcher.on
  BY <1>2 DEF TrustCA, At
<1>3. ASSUME RegistryCA PROVE GoingOpenShell /\ launcher.step = 10
  BY <1>1, <1>3, GoingOrFailing, NativePlace, OpenShellPlace, CleanupPlace
<1>4. ASSUME TrustCA PROVE GoingOpenShell /\ launcher.step = 11
  BY <1>2, <1>4, GoingOrFailing, NativePlace, OpenShellPlace, CleanupPlace
<1> QED
  BY <1>1, <1>2, <1>3, <1>4

\* One more root than after taking one away.
LEMMA RootsCount ==
    ASSUME NEW S, IsFiniteSet(S), NEW x, NEW y
    PROVE  /\ Cardinality(S) \in Nat /\ Cardinality(S \ {x}) \in Nat
           /\ Cardinality(S) <= 1 + Cardinality(S \ {x})
           /\ Cardinality(S \ {x}) <= Cardinality(S)
           /\ x \notin S => Cardinality(S \ {y}) <= Cardinality(S \ {x})
<1>1. Cardinality(S) \in Nat
  BY FS_CardinalityType
<1>2. IsFiniteSet(S \ {x}) /\ Cardinality(S \ {x}) = IF x \in S THEN Cardinality(S) - 1 ELSE Cardinality(S)
  BY FS_RemoveElement
<1>3. Cardinality(S \ {y}) = IF y \in S THEN Cardinality(S) - 1 ELSE Cardinality(S)
  BY FS_RemoveElement
<1>4. Cardinality(S \ {x}) \in Nat
  BY <1>2, FS_CardinalityType
<1> QED
  BY <1>1, <1>2, <1>3, <1>4

\* Every step keeps the roots within the number of discarded CAs.
LEMMA CleanedStep ==
    ASSUME LauncherFits, HostFits, Cleaned, Cases, [Next]_vars, launcher' \in LauncherType
    PROVE  Cleaned'
<1>0. Moves
  BY CasesMove
<1>1. IsFiniteSet(anchors)
  <2>1. anchors \subseteq 0..MaxRuns /\ IsFiniteSet(0..MaxRuns)
    BY ProvisionAssumption, FS_Interval DEF HostFits, Run
  <2> QED
    BY <2>1, FS_Subset
<1>2. /\ discarded \in Nat /\ discarded' \in Nat
      /\ Cardinality(anchors \ {files.ca}) <= discarded
      /\ Cardinality(anchors \ {files.ca}) \in Nat /\ Cardinality(anchors) \in Nat
  <2>1. discarded' \in {discarded, discarded + 1}
    BY Writers DEF Clean, RegistryCA
  <2>2. Cardinality(anchors \ {files.ca}) \in Nat /\ Cardinality(anchors) \in Nat
    BY <1>1, RootsCount
  <2>3. discarded \in Nat /\ discarded' \in Nat /\ Cardinality(anchors \ {files.ca}) <= discarded
    BY <2>1 DEF Cleaned
  <2> QED
    BY <2>2, <2>3
<1>3. CASE TrustCA
  <2>1. files.ca # 0 /\ UNCHANGED <<files, discarded>> /\ launcher.on
    BY <1>3, RegistryFrom DEF TrustCA, Cleaned
  <2>2. anchors' \in {anchors \cup {files.ca}, anchors}
    BY <1>3 DEF TrustCA
  <2>3. anchors' \ {files'.ca} = anchors \ {files.ca} /\ 0 \notin anchors'
    BY <2>1, <2>2 DEF Cleaned
  <2>4. GoingOpenShell' /\ launcher'.step = 11 => files'.ca # 0
    BY <2>1
  <2> QED
    BY <1>2, <2>1, <2>3, <2>4 DEF Cleaned
<1>4. CASE RegistryCA
  <2>1. /\ GoingOpenShell /\ launcher.on /\ launcher.step = 10 /\ UNCHANGED anchors
        /\ launcher.run # 0
    BY <1>4, RegistryFrom DEF RegistryCA, LauncherFits
  <2>2. \/ files'.ca = files.ca /\ discarded' = discarded
        \/ files.ca = 0 /\ files'.ca = launcher.run /\ discarded' = discarded
        \/ discarded' = discarded + 1
    BY <1>4 DEF RegistryCA, HostFits, File
  <2>3. Cardinality(anchors' \ {files'.ca}) <= discarded'
    <3>1. CASE files'.ca = files.ca /\ discarded' = discarded
      BY <1>2, <2>1, <3>1
    <3>2. CASE files.ca = 0 /\ discarded' = discarded
      <4>1. files.ca \notin anchors
        BY <3>2 DEF Cleaned
      <4>2. /\ Cardinality(anchors \ {files'.ca}) <= Cardinality(anchors \ {files.ca})
            /\ Cardinality(anchors \ {files'.ca}) \in Nat
        BY <1>1, <4>1, RootsCount
      <4> QED
        BY <1>2, <2>1, <3>2, <4>2
    <3>3. CASE discarded' = discarded + 1
      <4>1. /\ Cardinality(anchors \ {files'.ca}) <= Cardinality(anchors)
            /\ Cardinality(anchors \ {files'.ca}) \in Nat
            /\ Cardinality(anchors) <= 1 + Cardinality(anchors \ {files.ca})
        BY <1>1, RootsCount
      <4> QED
        BY <1>2, <2>1, <3>3, <4>1
    <3> QED
      BY <2>2, <3>1, <3>2, <3>3
  <2>4. ASSUME GoingOpenShell', launcher'.step = 11 PROVE files'.ca # 0
    <3>1. Going' /\ Going /\ launcher \in LauncherType
      BY <2>1, <2>4 DEF GoingOpenShell, LauncherFits
    <3>2. ASSUME launcher' = [launcher EXCEPT !.step = @ + 3] PROVE FALSE
      BY <2>1, <2>4, <3>1, <3>2 DEF LauncherType
    <3>3. ASSUME Fails PROVE FALSE
      BY <2>1, <3>1, <3>3, FailsIs DEF FailOver, Ends, Going
    <3>4. \/ files' = [files EXCEPT !.ca = IF @ = 0 THEN launcher.run ELSE @]
          \/ files' = [files EXCEPT !.ca = launcher.run]
      BY <1>4, <3>2, <3>3 DEF RegistryCA
    <3> QED
      BY <2>1, <3>4 DEF HostFits, File
  <2> QED
    BY <1>2, <2>1, <2>3, <2>4 DEF Cleaned
<1>5. CASE Clean
  <2>1. UNCHANGED anchors /\ Going /\ launcher.step = CleanAt /\ launcher.on
    BY <1>5, CleanFrom DEF Clean
  <2>2. \/ files' = files /\ discarded' = discarded
        \/ files'.ca = 0 /\ files.ca = 0 /\ discarded' = discarded
        \/ discarded' = discarded + 1
    BY <1>5 DEF Clean, WithoutState, OnlyMeta, NoFiles, StateFile, File, HostFits
  <2>3. Cardinality(anchors' \ {files'.ca}) <= discarded'
    <3>1. CASE files'.ca = files.ca /\ discarded' = discarded
      BY <1>2, <2>1, <3>1
    <3>2. CASE discarded' = discarded + 1
      <4>1. /\ Cardinality(anchors \ {files'.ca}) <= Cardinality(anchors)
            /\ Cardinality(anchors \ {files'.ca}) \in Nat
            /\ Cardinality(anchors) <= 1 + Cardinality(anchors \ {files.ca})
        BY <1>1, RootsCount
      <4> QED
        BY <1>2, <2>1, <3>2, <4>1
    <3> QED
      BY <2>2, <3>1, <3>2
  <2>4. ~(GoingOpenShell' /\ launcher'.step = 11)
    <3>1. ASSUME Going' PROVE launcher'.step \in {5, 9}
      BY <1>5, <2>1, <3>1, CleanMoves DEF CleanAt
    <3> QED
      BY <3>1 DEF GoingOpenShell
  <2> QED
    BY <1>2, <2>1, <2>3, <2>4 DEF Cleaned
<1>6. CASE ~TrustCA /\ ~RegistryCA /\ ~Clean
  <2>1. UNCHANGED <<anchors, discarded>> /\ (UNCHANGED files \/ \E s \in WriteSteps : Writes(s))
    BY <1>6, Writers
  <2>2. files'.ca = files.ca
    <3>1. ASSUME NEW s \in WriteSteps, Writes(s) PROVE files'.ca = files.ca
      <4>1. s # "ca"
        BY DEF WriteSteps
      <4> QED
        BY <3>1, <4>1 DEF Writes, HostFits, File
    <3> QED
      BY <2>1, <3>1
  <2>3. ASSUME GoingOpenShell', launcher'.step = 11 PROVE files'.ca # 0
    <3>1. Follows /\ GoingOpenShell /\ launcher.on
      BY <1>0, <2>3, GoingBack DEF GoingOpenShell, Begins, Follows, SameRun, Going
    <3>2. launcher.step \in {10, 11}
      BY <2>3, <3>1 DEF Follows, LauncherFits, LauncherType
    <3>3. CASE launcher.step = 11
      BY <2>2, <3>1, <3>3 DEF Cleaned
    <3>4. CASE launcher.step = 10
      <4>1. launcher' # launcher /\ launcher'.on
        BY <2>3, <3>4 DEF GoingOpenShell, Going
      <4>2. Step
        BY <3>1, <4>1, RunActs
      <4>3. Doing("ca")
        BY <3>1, <3>4, DoingAt DEF GoingOpenShell
      <4> QED
        BY <1>6, <4>2, <4>3, Doers
    <3> QED
      BY <3>2, <3>3, <3>4
  <2> QED
    BY <1>2, <2>1, <2>2, <2>3 DEF Cleaned
<1> QED
  BY <1>3, <1>4, <1>5, <1>6

-----------------------------------------------------------------------------
(***************************************************************************)
(* The files of a provision.                                               *)
(***************************************************************************)
\* Where a file is written.
LEMMA WritesFrom ==
    ASSUME LauncherFits, NEW s \in WriteSteps, Writes(s)
    PROVE  /\ Going /\ launcher.on
           /\ s \in Needed => launcher.step = WriteAt(s)
<1>1. At(s, "enter") /\ launcher.on
  BY DEF Writes, At
<1>2. Going
  BY <1>1, GoingOrFailing, CleanupPlace DEF WriteSteps
<1>3. ASSUME s \in Needed, GoingNative PROVE launcher.step = WriteAt(s)
  <2>1. launcher.provider = "native" /\ s \in {"profile", "pki", "config", "env"}
    BY <1>3 DEF GoingNative, Needed
  <2> QED
    BY <1>1, <1>3, <2>1, NativePlace DEF WriteAt
<1>4. ASSUME s \in Needed, GoingOpenShell PROVE launcher.step = WriteAt(s)
  <2>1. launcher.provider = "openshell" /\ s \in {"pki", "config", "env"}
    BY <1>4 DEF GoingOpenShell, Needed
  <2> QED
    BY <1>1, <1>4, <2>1, OpenShellPlace DEF WriteAt
<1> QED
  BY <1>1, <1>2, <1>3, <1>4, GoingOrFailing

\* The place of a needed file is after the state was removed.
LEMMA WritePlace ==
    ASSUME LauncherFits, NEW f \in Needed
    PROVE  /\ f \in WriteSteps /\ f \in File /\ f # "ca"
           /\ WriteAt(f) \in Nat /\ WriteAt(f) > CleanAt /\ CleanAt \in {4, 8}
           /\ launcher.provider = "openshell" => WriteAt(f) > 12
           /\ Going /\ launcher.step = WriteAt(f) => Doing(f)
<1>1. CASE launcher.provider = "native"
  BY <1>1, DoingAt DEF Needed, WriteSteps, File, WriteAt, CleanAt
<1>2. CASE launcher.provider = "openshell"
  BY <1>2, DoingAt DEF Needed, WriteSteps, File, WriteAt, CleanAt
<1> QED
  BY <1>1, <1>2 DEF LauncherFits, LauncherType

\* A run that goes on from writing a file has written it.
LEMMA WritesDone ==
    ASSUME LauncherFits, HostFits, NEW s \in File, s \in WriteSteps, Writes(s),
           Going' \/ Ended("ok")', SameRun(launcher, launcher')
    PROVE  IsWritten(s)'
<1>1. Going /\ launcher.on
  BY WritesFrom
<1>2. ASSUME Fails PROVE FALSE
  BY <1>1, <1>2, FailsIs DEF FailOver, Ends, Going, Ended
<1>3. files' = [files EXCEPT ![s] = launcher.run,
                  !.provider = IF s = "config" THEN launcher.provider ELSE @,
                  !.meta = IF s = "gateway" THEN launcher.run ELSE @]
  BY <1>2 DEF Writes
<1>4. s \in DOMAIN files /\ "provider" \in DOMAIN files /\ s # "provider" /\ s # "meta"
  BY DEF HostFits, File, WriteSteps
<1>5. files'[s] = launcher.run /\ (s = "config" => files'.provider = launcher.provider)
  BY <1>3, <1>4
<1> QED
  BY <1>5 DEF IsWritten, SameRun

\* Nothing else writes a file of the run in progress, or of one that succeeded.
LEMMA FileStays ==
    ASSUME LauncherFits, HostFits, [Next]_vars, NEW f \in Needed, ~Writes(f),
           ~launcher.on \/ launcher.step > CleanAt, IsWritten(f), SameRun(launcher, launcher')
    PROVE  IsWritten(f)'
<1>0. f \in WriteSteps /\ f \in File /\ f # "ca" /\ CleanAt \in {4, 8}
  BY WritePlace
<1>1. ~Clean
  BY <1>0, CleanFrom
<1>2. /\ f \in DOMAIN files /\ "provider" \in DOMAIN files /\ "ca" \in DOMAIN files
      /\ f # "provider" /\ f # "meta"
  BY <1>0 DEF HostFits, File, WriteSteps
<1>3. ASSUME RegistryCA PROVE files'[f] = files[f] /\ files'.provider = files.provider
  BY <1>0, <1>2, <1>3 DEF RegistryCA
<1>4. ASSUME NEW s \in WriteSteps, Writes(s)
      PROVE  files'[f] = files[f] /\ (f = "config" => files'.provider = files.provider)
  <2>1. s # f
    BY <1>4
  <2>2. s \in DOMAIN files /\ s # "provider"
    BY DEF HostFits, File, WriteSteps
  <2> QED
    BY <1>2, <1>4, <2>1, <2>2 DEF Writes
<1> QED
  BY <1>1, <1>3, <1>4, Writers DEF IsWritten, SameRun

\* The files of a run that goes on.
LEMMA FilesKept ==
    ASSUME LauncherFits, HostFits, Written, Cases, [Next]_vars, launcher' \in LauncherType,
           Going', NEW f \in Needed', launcher'.step > WriteAt(f)'
    PROVE  IsWritten(f)'
<1>1. ~Begins
  BY DEF Begins, WriteAt, Needed
<1>2. Follows /\ SameRun(launcher, launcher') /\ Going /\ launcher.on
  BY <1>1, CasesMove, GoingBack DEF Follows, Going
<1>3. f \in Needed /\ WriteAt(f)' = WriteAt(f)
  BY <1>2 DEF SameRun, Needed, WriteAt
<1>4. /\ f \in WriteSteps /\ f \in File /\ WriteAt(f) \in Nat /\ WriteAt(f) > CleanAt
      /\ CleanAt \in {4, 8} /\ (launcher.provider = "openshell" => WriteAt(f) > 12)
      /\ launcher.step \in Nat /\ launcher'.step \in Nat
  BY <1>3, WritePlace DEF LauncherFits, LauncherType
<1>5. CASE launcher.step > WriteAt(f)
  <2>1. ~Writes(f)
    BY <1>3, <1>4, <1>5, WritesFrom
  <2> QED
    BY <1>2, <1>3, <1>4, <1>5, <2>1, FileStays DEF Written
<1>6. CASE ~(launcher.step > WriteAt(f))
  <2>1. launcher.step = WriteAt(f) /\ launcher' # launcher
    BY <1>2, <1>3, <1>4, <1>6 DEF Follows
  <2>2. Doing(f) /\ Step
    BY <1>2, <1>3, <2>1, WritePlace, RunActs DEF Going
  <2> QED
    BY <1>2, <1>4, <2>2, Doers, WritesDone
<1> QED
  BY <1>5, <1>6

\* A process that boots with the files of its run.
LEMMA BootUses ==
    ASSUME HostFits, NEW q \in Pid, Boot(q), NEW p \in Pid, proc'[p].port = "service",
           proc'[p].name = "service"
    PROVE  \/ proc'[p] = proc[p]
           \/ /\ proc[p].name = "service" /\ proc'[p].run = proc[p].run
              /\ proc'[p].config = files.config /\ proc'[p].pki = files.pki
<1>1. proc[q] \in Process /\ proc \in [Pid -> Process]
  BY DEF HostFits
<1>2. p # q => proc'[p] = proc[p]
  BY <1>1 DEF Boot
<1>3. CASE p = q
  <2>1. \/ proc'[p] = NoProcess
        \/ proc'[p] = [proc[p] EXCEPT !.port = proc[p].name, !.config = files.config, !.pki = files.pki]
    BY <1>1, <1>3 DEF Boot
  <2>2. proc'[p] # NoProcess
    BY NoProcessFields
  <2> QED
    BY <1>1, <1>3, <2>1, <2>2 DEF Process
<1> QED
  BY <1>2, <1>3

\* The service of a run uses the files of the run.
LEMMA UsesKept ==
    ASSUME LauncherFits, HostFits, [Next]_vars, launcher'.run = launcher.run, NEW p \in Pid, UsesOwn(p),
           Own(p, "service") => files.config = launcher.run /\ files.pki = launcher.run
    PROVE  UsesOwn(p)'
<1>0. SUFFICES ASSUME Own(p, "service")', proc'[p].port = "service"
               PROVE  proc'[p].config = launcher'.run /\ proc'[p].pki = launcher'.run
  BY DEF UsesOwn
<1>1. proc'[p].name = "service" /\ proc'[p].run = launcher.run
  BY <1>0 DEF Own
<1>2. CASE Keeps
  <2>1. SameListener(proc[p], proc'[p])
    BY <1>0, <1>2 DEF Keeps, Role
  <2> QED
    BY <1>0, <1>1, <2>1 DEF SameListener, UsesOwn, Own
<1>3. CASE Other
  <2>1. PICK q \in Pid, r \in {"service", "gateway", "none"} :
            proc' = [proc EXCEPT ![q] = [NoProcess EXCEPT !.name = "other", !.port = r]]
    BY <1>3 DEF Other, Free
  <2>2. [NoProcess EXCEPT !.name = "other", !.port = r].name = "other"
    BY NoProcessFields DEF NoProcess
  <2>3. proc'[p] = proc[p]
    BY <1>1, <2>1, <2>2 DEF HostFits
  <2> QED
    BY <1>0, <1>1, <2>3 DEF UsesOwn, Own
<1>4. ASSUME NEW q \in Pid, Boot(q) PROVE proc'[p].config = launcher'.run /\ proc'[p].pki = launcher'.run
  <2>1. CASE proc'[p] = proc[p]
    BY <1>0, <1>1, <2>1 DEF UsesOwn, Own
  <2>2. CASE /\ proc[p].name = "service" /\ proc'[p].run = proc[p].run
             /\ proc'[p].config = files.config /\ proc'[p].pki = files.pki
    BY <1>1, <2>2 DEF Own
  <2> QED
    BY <1>0, <1>1, <1>4, <2>1, <2>2, BootUses
<1> QED
  BY <1>2, <1>3, <1>4, StepKeeps

\* A run has written what its service uses before it starts the service.
LEMMA WrittenBefore ==
    ASSUME LauncherFits, OwnKnown, Written, Going, NEW p \in Pid, Own(p, "service")
    PROVE  files.config = launcher.run /\ files.pki = launcher.run
<1>1. "service" \in Launched /\ ~Earlier("service")
  BY DEF OwnKnown, Launched, Role
<1>2. launcher.step \in Nat /\ launcher.step >= StartAt("service")
  BY <1>1 DEF Earlier, LauncherFits, LauncherType, StartAt
<1>3. \A f \in {"pki", "config"} : f \in Needed /\ launcher.step > WriteAt(f)
  BY <1>2 DEF Needed, WriteAt, StartAt
<1> QED
  BY <1>3 DEF Written, IsWritten

\* What a successful provision left stays as it is until the next run.
LEMMA SuccessStays ==
    ASSUME LauncherFits, HostFits, [Next]_vars, SuccessIsConsistent, launcher' = launcher
    PROVE  SuccessIsConsistent'
<1>0. SUFFICES ASSUME Ended("ok"), launcher.mode \in {"provision", "clean"} PROVE SuccessIsConsistent'
  BY DEF SuccessIsConsistent, Ended
<1>1. ~launcher.on /\ launcher.provider \in {"native", "openshell"}
  BY <1>0 DEF Ended, LauncherFits, LauncherType
<1>2. UNCHANGED files
  <2>1. ~Clean /\ ~RegistryCA /\ \A s \in WriteSteps : ~Writes(s)
    BY <1>1 DEF Clean, RegistryCA, Writes, At
  <2> QED
    BY <2>1, Writers
<1>3. ASSUME NEW p \in Pid, proc'[p].port = "service", proc'[p].name = "service",
             proc'[p].run = launcher.run
      PROVE  proc'[p].config = launcher.run /\ proc'[p].pki = launcher.run
  <2>1. UsesOwn(p) /\ files.config = launcher.run /\ files.pki = launcher.run
    BY <1>0 DEF SuccessIsConsistent, UsesOwn, Own
  <2>2. UsesOwn(p)'
    BY <2>1, UsesKept
  <2> QED
    BY <1>3, <2>2 DEF UsesOwn, Own
<1> QED
  BY <1>0, <1>2, <1>3 DEF SuccessIsConsistent

\* A provision that succeeds left its own files, and a service that uses them.
LEMMA SuccessMade ==
    ASSUME LauncherFits, HostFits, OwnKnown, Written, [Next]_vars, Going, SameRun(launcher, launcher'),
           launcher.step = LastStep, ~launcher'.on
    PROVE  SuccessIsConsistent'
<1>1. launcher.on /\ launcher.provider \in {"native", "openshell"}
  BY DEF Going, LauncherFits, LauncherType
<1>2. ASSUME NEW f \in Needed PROVE IsWritten(f)'
  <2>1. launcher.step > WriteAt(f) /\ launcher.step > CleanAt
    BY <1>1, <1>2 DEF LastStep, LastOf, Going, Needed, WriteAt, CleanAt
  <2>2. ~Writes(f) /\ IsWritten(f)
    BY <1>2, <2>1, WritePlace, WritesFrom DEF Written
  <2> QED
    BY <2>1, <2>2, FileStays
<1>3. \A p \in Pid : UsesOwn(p)'
  BY WrittenBefore, UsesKept DEF Written, SameRun
<1>4. {"pki", "config", "env"} \subseteq Needed /\ (launcher.provider = "native" => "profile" \in Needed)
  BY DEF Needed
<1> QED
  BY <1>2, <1>3, <1>4 DEF SuccessIsConsistent, IsWritten, UsesOwn, Own, SameRun

\* Every step keeps the files of the run together.
LEMMA WrittenStep ==
    ASSUME LauncherFits, HostFits, OwnKnown, Written, Cases, [Next]_vars, launcher' \in LauncherType,
           OwnKnown'
    PROVE  Written'
<1>0. Moves
  BY CasesMove
<1>1. ASSUME Going', NEW p \in Pid PROVE UsesOwn(p)'
  <2>1. CASE Begins
    <3>1. Earlier("service")' /\ "service" \in Launched'
      BY <1>1, <2>1 DEF Begins, Earlier, StartAt, Launched, Role
    <3> QED
      BY <3>1 DEF OwnKnown, UsesOwn
  <2>2. CASE Follows
    BY <2>2, WrittenBefore, UsesKept DEF Follows, SameRun, Written
  <2> QED
    BY <1>0, <1>1, <2>1, <2>2, GoingBack
<1>2. SuccessIsConsistent'
  <2>1. CASE launcher' = launcher
    BY <2>1, SuccessStays DEF Written
  <2>2. CASE launcher' # launcher
    <3>1. SUFFICES ASSUME Ended("ok")', launcher'.mode \in {"provision", "clean"} PROVE SuccessIsConsistent'
      BY DEF SuccessIsConsistent
    <3>2. ~EarlyOk
      BY <3>1 DEF EarlyOk, Ends, SameRun
    <3>3. Going /\ SameRun(launcher, launcher') /\ launcher.step = LastStep /\ ~launcher'.on
      BY <1>0, <2>2, <3>1, <3>2, SuccessBack DEF Ended
    <3> QED
      BY <3>3, SuccessMade
  <2> QED
    BY <2>1, <2>2
<1> QED
  BY <1>1, <1>2, FilesKept DEF Written

-----------------------------------------------------------------------------
(***************************************************************************)
(* VM drivers and uninstalls.                                              *)
(***************************************************************************)
\* Where VM drivers are stopped and started.
LEMMA DriverPlace ==
    ASSUME LauncherFits, GoingOpenShell
    PROVE  /\ StopDrivers => launcher.step = 7
           /\ Warm => launcher.step = 21
BY OpenShellPlace DEF StopDrivers, Warm

\* Every step keeps VM drivers stopped from teardown to the warm-up.
LEMMA DriversKept ==
    ASSUME LauncherFits, Drivers, Cases, [Next]_vars, launcher' \in LauncherType
    PROVE  Drivers'
<1>0. SUFFICES ASSUME GoingOpenShell', launcher'.step \in 8..20 PROVE driver' # "running"
  BY DEF Drivers
<1>1. Follows /\ GoingOpenShell /\ Going /\ Going' /\ launcher.on
  BY <1>0, CasesMove, GoingBack DEF GoingOpenShell, Begins, Follows, SameRun, Going
<1>2. launcher.step \in 7..20
  BY <1>0, <1>1 DEF Follows, LauncherFits, LauncherType
<1>3. CASE launcher.step = 7
  <2>1. launcher' # launcher /\ Doing("stop_drivers")
    BY <1>0, <1>1, <1>3, DoingAt DEF GoingOpenShell
  <2>2. StopDrivers
    BY <1>1, <2>1, RunActs, Doers DEF Going
  <2>3. ASSUME Fails PROVE FALSE
    BY <1>1, <2>3, FailsIs DEF FailOver, Ends, Going
  <2> QED
    BY <2>2, <2>3 DEF StopDrivers, DriversStopped
<1>4. CASE launcher.step # 7
  <2>1. ~StopDrivers /\ ~Warm
    BY <1>1, <1>2, <1>4, DriverPlace
  <2> QED
    BY <1>1, <1>2, <1>4, <2>1, Writers DEF Drivers
<1> QED
  BY <1>3, <1>4

\* An uninstall ends well only where the state is removed, after the stops.
LEMMA UninstallMade ==
    ASSUME LauncherFits, Supervised, OldGone, OwnKnown, Cases, [Next]_vars, Ended("ok")',
           launcher'.mode = "uninstall", launcher' # launcher
    PROVE  UninstallIsClean'
<1>1. EarlyOk
  BY CasesMove, SuccessBack DEF SameRun
<1>2. Going /\ launcher.on /\ launcher.mode = "uninstall"
  BY <1>1 DEF EarlyOk, Ends, SameRun, Going
<1>3. CaseRemove
  <2>1. ~CasePass
    BY <1>2 DEF CasePass, PassOn, GoesOn, Ends, LastStep, LastOf, CleanAt, Going, Ended
  <2>2. ~CaseFail /\ ~CaseCleanup /\ ~CaseBegin /\ ~CaseDie /\ ~CaseHost /\ ~CaseWait /\ ~CaseSupervise
    BY DEF CaseFail, CaseCleanup, CaseBegin, CaseDie, CaseHost, CaseWait, CaseSupervise,
           FailOver, CleanOn, Begins, Dies, GoesOn, Ends, Ended
  <2>3. \A r \in Role : /\ ~CaseStopped(r) /\ ~CaseTerm(r) /\ ~CaseReap(r)
                        /\ ~CaseStart(r) /\ ~CaseSpawn(r) /\ ~CaseNote(r)
    BY DEF CaseStopped, CaseTerm, CaseReap, CaseStart, CaseSpawn, CaseNote, StopOn, CleanOn,
           StartOn, Terms, Reaps, Begets, Notes, Stays, GoesOn, Ends, Ended
  <2> QED
    BY <2>1, <2>2, <2>3 DEF Cases
<1>4. Clean
  <2>1. Doing("clean")
    BY <1>2, <1>3, DoingAt DEF CaseRemove, CleanAt, LauncherFits, LauncherType
  <2>2. Step
    BY <1>2, RunActs DEF Ended
  <2> QED
    BY <2>1, <2>2, Doers
<1>5. /\ unit' = unit /\ Ports' = Ports /\ launcher'.provider = launcher.provider
      /\ launcher.sub = "enter" /\ launcher.step = CleanAt
  BY <1>1, <1>3, <1>4 DEF Clean, EarlyOk, Ends, SameRun, Ports, CaseRemove
<1>6. ASSUME NEW p \in Pid, proc'[p].name \in Ports' PROVE proc'[p].lost \/ proc'[p].supervised
  <2>1. ~Known(p, proc[p].name) /\ Alike(proc[p], proc'[p]) /\ (proc[p].lost => proc'[p].lost)
    BY <1>2, <1>3, <1>5, <1>6, NoneKnown DEF CaseRemove, Alike
  <2> QED
    BY <2>1 DEF Known, Alike
<1>7. ASSUME launcher.provider = "native" PROVE unit' = "none" /\ \A p \in Pid : ~proc'[p].supervised
  <2>1. unit = "none"
    BY <1>2, <1>5, <1>7 DEF Supervised, GoingNative, CleanAt, Earlier, StartAt
  <2> QED
    BY <1>3, <1>5, <2>1 DEF Supervised, CaseRemove, Alike
<1> QED
  BY <1>5, <1>6, <1>7 DEF UninstallIsClean

\* Every step keeps the host clean after an uninstall.
LEMMA UninstallStep ==
    ASSUME LauncherFits, Supervised, OldGone, OwnKnown, UninstallIsClean, Cases, [Next]_vars
    PROVE  UninstallIsClean'
<1>0. SUFFICES ASSUME Ended("ok")', launcher'.mode = "uninstall", launcher' = launcher
               PROVE  UninstallIsClean'
  BY UninstallMade DEF UninstallIsClean
<1>1. ~launcher.on /\ Ended("ok") /\ launcher.mode = "uninstall" /\ Ports' = Ports
  BY <1>0 DEF Ended, Ports
<1>2. unit' = unit
  BY <1>1, Writers DEF StopUnit, StartUnit, At
<1>3. CASE CaseHost \/ CaseWait
  <2>1. ASSUME NEW p \in Pid, proc'[p].name \in Role
        PROVE  /\ proc'[p].name = proc[p].name /\ (proc[p].lost => proc'[p].lost)
               /\ proc[p].supervised => proc'[p].supervised \/ proc'[p].lost
    BY <1>3, <2>1 DEF CaseHost, CaseWait, Calm, Fades, Alike
  <2>2. ASSUME NEW p \in Pid, proc'[p].supervised PROVE proc[p].supervised
    BY <1>3, <2>2 DEF CaseHost, CaseWait, Calm, Fades, Alike
  <2>3. Ports \subseteq Role
    BY DEF Ports, Role
  <2> QED
    BY <1>0, <1>1, <1>2, <2>1, <2>2, <2>3 DEF UninstallIsClean
<1>4. CASE CaseSupervise
  <2>1. launcher.provider # "native"
    BY <1>1, <1>4 DEF CaseSupervise, UninstallIsClean
  <2> QED
    BY <1>0, <1>1, <1>4, <2>1 DEF CaseSupervise, UninstallIsClean
<1>5. CaseHost \/ CaseWait \/ CaseSupervise
  <2>1. ~CasePass /\ ~CaseRemove /\ ~CaseFail /\ ~CaseCleanup /\ ~CaseBegin /\ ~CaseDie
    BY <1>0, <1>1 DEF CasePass, CaseRemove, CaseFail, CaseCleanup, CaseBegin, CaseDie, PassOn, EarlyOk,
       FailOver, CleanOn, Begins, Dies, GoesOn, Ends, Going, Failing
  <2>2. \A r \in Role : /\ ~CaseStopped(r) /\ ~CaseTerm(r) /\ ~CaseReap(r)
                        /\ ~CaseStart(r) /\ ~CaseSpawn(r) /\ ~CaseNote(r)
    BY <1>1 DEF CaseStopped, CaseTerm, CaseReap, CaseStart, CaseSpawn, CaseNote, StopOn, CleanOn,
       StartOn, Terms, Reaps, Begets, Notes, Stays, AtStop, AtStart, Going, Failing
  <2> QED
    BY <2>1, <2>2 DEF Cases
<1> QED
  BY <1>3, <1>4, <1>5


-----------------------------------------------------------------------------
(***************************************************************************)
(* The invariant, and what follows from it.                                *)
(***************************************************************************)
\* On a host where the launcher has never run, nothing is amiss.
LEMMA InvInit == Init => Inv
<1> SUFFICES ASSUME Init PROVE Inv
  OBVIOUS
<1>1. launcher = Idle /\ ~launcher.on /\ launcher.result = "none" /\ launcher.run = 0
  BY DEF Init, Idle
<1>2. \A p \in Pid : /\ proc[p].name = "none" /\ proc[p].port = "none"
                     /\ ~proc[p].supervised /\ proc[p] = NoProcess
  BY NoProcessFields DEF Init
<1>3. ~Going /\ ~Failing /\ \A result \in {"ok", "err", "killed"} : ~Ended(result)
  BY <1>1 DEF Going, Failing, Ended
<1>4. LauncherFits
  BY <1>1, <1>3, IdleType DEF LauncherFits, GoingNative, GoingOpenShell, Idle
<1>5. HostFits
  <2>1. proc \in [Pid -> Process]
    BY NoProcessFields DEF Init
  <2>2. FilesFit(files)
    BY NoFilesFit DEF Init
  <2>3. pidfile \in [Role -> {Absent, Torn} \cup Pid]
    BY DEF Init
  <2>4. waiting = {} /\ anchors = {} /\ unit = "none" /\ driver = "none" /\ faults = 0 /\ 0 \in 0..MaxFaults
    BY ProvisionAssumption DEF Init
  <2>5. \A p \in Pid : proc[p].port \notin Role \cup {"starting"}
    BY <1>2 DEF Role
  <2> QED
    BY <2>1, <2>2, <2>3, <2>4, <2>5 DEF HostFits, FilesFit
<1>6. Cleaned
  <2>1. anchors = {} /\ discarded = 0 /\ anchors \ {files.ca} = {}
    BY DEF Init
  <2>2. Cardinality(anchors \ {files.ca}) = 0
    BY <2>1, FS_EmptySet
  <2> QED
    BY <1>1, <1>3, <2>1, <2>2 DEF Cleaned, GoingOpenShell
<1>7. Supervised /\ Accounted /\ Handled /\ OldGone /\ OwnKnown /\ OwnStarted
  BY <1>1, <1>2, <1>3 DEF Supervised, Accounted, Ours, Handled, GoingOpenShell, Stopping, Minding, OldGone, AfterStop,
     Role, OwnKnown, Earlier, OwnStarted, GoingNative
<1>8. OwnStopped /\ Written /\ Drivers /\ UninstallIsClean
  BY <1>3 DEF OwnStopped, FailedRunStopsItsOwn, Written, SuccessIsConsistent, Drivers, GoingOpenShell,
     UninstallIsClean
<1> QED
  BY <1>4, <1>5, <1>6, <1>7, <1>8 DEF Inv

\* Every step preserves the invariant.
LEMMA InvStep == Inv /\ [Next]_vars => Inv'
<1> SUFFICES ASSUME Inv, [Next]_vars PROVE Inv'
  OBVIOUS
<1>0. /\ LauncherFits /\ HostFits /\ Cleaned /\ Supervised /\ Accounted /\ Handled
      /\ OldGone /\ OwnKnown /\ OwnStarted /\ OwnStopped /\ Written /\ Drivers
      /\ UninstallIsClean
  BY DEF Inv
<1>1. Cases /\ Moves
  BY <1>0, StepCases, CasesMove
<1>2. LauncherFits' /\ launcher' \in LauncherType
  BY <1>0, <1>1, LauncherStep DEF Moves
<1>3. HostFits'
  BY <1>0, HostFitsStep
<1>4. Accounted' /\ Handled' /\ OldGone' /\ OwnKnown'
  BY <1>0, <1>1, <1>2, AccountedStep, HandledStep, OldGoneStep, OwnKnownStep
<1>5. Supervised'
  BY <1>0, <1>1, <1>2, <1>4, SupervisedStep
<1>6. OwnStarted'
  BY <1>0, <1>1, <1>2, <1>4, OwnStartedStep
<1>7. OwnStopped'
  BY <1>0, <1>1, <1>2, OwnStoppedStep
<1>8. Cleaned'
  BY <1>0, <1>1, <1>2, CleanedStep
<1>9. Written'
  BY <1>0, <1>1, <1>2, <1>4, WrittenStep
<1>10. Drivers'
  BY <1>0, <1>1, <1>2, DriversKept
<1>11. UninstallIsClean'
  BY <1>0, <1>1, UninstallStep
<1> QED
  BY <1>2, <1>3, <1>4, <1>5, <1>6, <1>7, <1>8, <1>9, <1>10, <1>11 DEF Inv

\* The invariant holds of every run of the launcher.
THEOREM Invariance == Spec => []Inv
BY InvInit, InvStep, PTL DEF Spec

\* The state has its types: in particular a run never leaves its plan, and no
\* two processes listen on one port.
THEOREM TypeCorrect == Spec => []TypeOK
<1>1. Inv => TypeOK
  <2> SUFFICES ASSUME Inv PROVE TypeOK
    OBVIOUS
  <2>0. LauncherFits /\ HostFits /\ Cleaned
    BY DEF Inv
  <2>1. launcher \in LauncherType /\ launcher.run \in Run
    BY <2>0 DEF LauncherFits, LauncherType
  <2>2. launcher.on => launcher.step \in DOMAIN Plan(launcher)
    <3>1. Len(Plan(launcher)) = LastStep /\ DOMAIN Plan(launcher) = 1..Len(Plan(launcher))
      <4>1. Len(NativePlan) = 13 /\ Len(OpenShellPlan) = 21 /\ Len(CleanupPlan) = 4
        BY NativeSteps, OpenShellSteps, CleanupSteps
      <4>2. DOMAIN NativePlan = 1..13
        BY DEF NativePlan
      <4>3. DOMAIN OpenShellPlan = 1..21
        BY DEF OpenShellPlan
      <4>4. DOMAIN CleanupPlan = 1..4
        BY DEF CleanupPlan
      <4> QED
        BY <4>1, <4>2, <4>3, <4>4 DEF Plan, LastStep, LastOf
    <3>2. launcher.on => launcher.step \in 1..LastStep
      BY <2>0 DEF LauncherFits
    <3> QED
      BY <3>1, <3>2
  <2>3. discarded \in Nat
    BY <2>0 DEF Cleaned
  <2>4. ASSUME NEW r \in Role PROVE Cardinality({p \in Pid : proc[p].port = r}) <= 1
    <3> DEFINE S == {p \in Pid : proc[p].port = r}
    <3>1. CASE S = {}
      BY <3>1, FS_EmptySet
    <3>2. ASSUME NEW p \in S PROVE Cardinality(S) <= 1
      <4>1. S = {p}
        BY <2>0, <2>4, <3>2 DEF HostFits
      <4>2. Cardinality({p}) = 1
        BY FS_Singleton
      <4> HIDE DEF S
      <4> QED
        BY <4>1, <4>2
    <3> QED
      BY <3>1, <3>2
  <2> QED
    BY <2>0, <2>1, <2>2, <2>3, <2>4 DEF TypeOK, HostFits, LauncherType
<1> QED
  BY <1>1, Invariance, PTL

\* What runs leave on the host can be found again: processes by their PID files,
\* and no more trusted roots than CAs were deleted or expired.
THEOREM HostStaysAccounted == Spec => []HostIsAccounted
<1>1. Inv => HostIsAccounted
  <2> SUFFICES ASSUME Inv PROVE HostIsAccounted
    OBVIOUS
  <2>1. IsFiniteSet(anchors)
    <3>1. anchors \subseteq 0..MaxRuns /\ IsFiniteSet(0..MaxRuns)
      BY ProvisionAssumption, FS_Interval DEF Inv, HostFits, Run
    <3> QED
      BY <3>1, FS_Subset
  <2>2. /\ Cardinality(anchors) <= 1 + Cardinality(anchors \ {files.ca})
        /\ Cardinality(anchors) \in Nat /\ Cardinality(anchors \ {files.ca}) \in Nat
    BY <2>1, RootsCount
  <2>3. discarded \in Nat /\ Cardinality(anchors \ {files.ca}) <= discarded
    BY DEF Inv, Cleaned
  <2> QED
    BY <2>2, <2>3 DEF Inv, HostIsAccounted, RootsDoNotPileUp
<1> QED
  BY <1>1, Invariance, PTL

\* When a run succeeds no service of an earlier run that the launcher knows is
\* left, and a provision leaves files of one run and a service that uses them.
THEOREM SuccessStaysSound == Spec => []SuccessIsSound
<1>1. Inv => SuccessIsSound
  <2> SUFFICES ASSUME Inv PROVE SuccessIsSound
    OBVIOUS
  <2>1. SuccessIsConsistent
    BY DEF Inv, Written
  <2>2. ASSUME Ended("ok"), NEW p \in Pid, proc[p].name = "service", ~proc[p].lost
        PROVE  \/ proc[p].run = launcher.run
               \/ proc[p].supervised /\ (\/ launcher.provider = "openshell"
                                         \/ launcher.start = "systemd")
    <3>1. CASE proc[p].supervised
      <4>1. unit = "enabled"
        BY <3>1 DEF Inv, Supervised
      <4>2. launcher.provider \in {"native", "openshell"}
        BY DEF Inv, LauncherFits, LauncherType
      <4> QED
        BY <2>2, <3>1, <4>1, <4>2 DEF Inv, Supervised
    <3>2. CASE ~proc[p].supervised
      <4>1. "service" \in Stopped /\ Known(p, "service")
        BY <2>2, <3>2 DEF Stopped, Known
      <4> QED
        BY <2>2, <4>1 DEF Inv, OldGone
    <3> QED
      BY <3>1, <3>2
  <2> QED
    BY <2>1, <2>2 DEF SuccessIsSound, NoOldServiceSurvives
<1> QED
  BY <1>1, Invariance, PTL

\* A failed OpenShell provision leaves none of the processes it started running
\* unsignalled, but for a registry that zot.pid names and a service whose PID file a
\* foreground launcher removed.
THEOREM FailedRunsStopTheirOwn == Spec => []FailedRunStopsItsOwn
<1>1. Inv => FailedRunStopsItsOwn
  BY DEF Inv, OwnStopped
<1> QED
  BY <1>1, Invariance, PTL

\* After a successful uninstall every service, and for OpenShell every gateway, still
\* running is lost or supervised; after a native one there is no unit and none is
\* supervised.
THEOREM UninstallStaysClean == Spec => []UninstallIsClean
<1>1. Inv => UninstallIsClean
  BY DEF Inv
<1> QED
  BY <1>1, Invariance, PTL

\* State is deleted only when its users are stopped: no service, and for an
\* OpenShell run no gateway and no VM driver, that the launcher still finds.
THEOREM StateIsDeletedLast == Spec => StateOutlivesItsUsers
<1> DEFINE Deletes == /\ At("clean", "enter") /\ launcher' # launcher
                      /\ <<pidfile, files>>' # <<pidfile, files>>
<1>1. Inv /\ [Next]_vars =>
        [Deletes =>
            /\ \A p \in Pid : proc[p].name \in Ports => proc[p].lost \/ proc[p].supervised
            /\ launcher.provider = "openshell" => driver # "running"]_vars
  <2> SUFFICES ASSUME Inv, [Next]_vars, At("clean", "enter")
               PROVE  /\ \A p \in Pid : proc[p].name \in Ports => proc[p].lost \/ proc[p].supervised
                      /\ launcher.provider = "openshell" => driver # "running"
    OBVIOUS
  <2>1. LauncherFits /\ OldGone /\ OwnKnown /\ Drivers
    BY DEF Inv
  <2>2. Going /\ launcher.on /\ launcher.step = CleanAt /\ launcher.sub = "enter"
    BY <2>1, CleanPlace
  <2>3. launcher.provider = "openshell" => driver # "running"
    BY <2>1, <2>2 DEF Drivers, GoingOpenShell, CleanAt
  <2>4. ASSUME NEW p \in Pid, proc[p].name \in Ports, ~proc[p].lost, ~proc[p].supervised PROVE FALSE
    BY <2>1, <2>2, <2>4, NoneKnown DEF Known
  <2> QED
    BY <2>3, <2>4
<1> QED
  BY <1>1, Invariance, PTL DEF Spec, StateOutlivesItsUsers

=============================================================================
