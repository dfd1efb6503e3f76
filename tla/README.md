# TLA+ models of openbox-sandbox

This directory holds TLA+ models of the OpenBox sandbox service, its governed
dispatcher, its two runtimes, its launcher and its release tool, the TLC configurations that check them on small instances,
and TLAPS proofs of the invariants that matter most for every size of the
constants. All definitions are translated from the Rust code; `PROJECT.json`
maps each one to its lines.

## The system

| Part | Source | State | Operations | What makes it hard |
|---|---|---|---|---|
| Governed dispatcher | `src/dispatcher/mod.rs`, `types.rs` | terminal cache, gate | `execute`, `reconcile_pending` | at-most-once over crashes; a late effect after the executor gave up; failing writes |
| Dispatch record store | `src/dispatcher/store.rs` | one JSON file per command, directory lock | load, write, lock | a failed write that happened all the same |
| Service boundary | `src/service/boundary.rs` | owned entries, preparations, active operations, drain flag | Create, WaitReady, PrepareExec, CommitExec, Delete, WaitDeleted, BeginDrain, Cancel, `reconcile_startup` | handlers interleave at every await and pass entries among themselves |
| Service record store | `src/service/store.rs` | one JSON file per sandbox | write, remove, load | as above |
| TLS server | `src/service/server.rs`, `auth.rs` | connection tasks, permits, shutdown token | accept, handle, drain | shutdown against open connections |
| Native runtime | `src/native/` | workspace directories, child processes, readers, proxy | the five operations of the trait | readers, exit, timeout and cancellation race; a root that is pruned; descendants that outlive a kill |
| OpenShell adapter | `src/openshell/` | none but the call in flight; the gateway's sandbox | the five operations of the trait | calls abandoned in flight, wrong or late answers, stream order, budgets |
| Runtime contract | `src/runtime_contract/` | typestate handles | the trait `SandboxRuntime` | what each failure proves |
| Protocol | `src/protocol/` | none | frames, identities | lengths and limits |
| Launcher | `packaging/launcher/` | generated files, PID files, systemd unit, processes, trusted roots; downloaded assets | provision, clean rerun, teardown, uninstall, update | a crash between two steps, stale PID files, releases cut while assets are fetched |
| Release tool | `packaging/release/` | releases on the hub | publish | the gates before, and the order of, publication |

A client asks the dispatcher to execute a command. The dispatcher writes a
record, asks governance, and on ALLOW calls the host executor, on CONSTRAIN a
sandbox runtime. In production that runtime is a client of the service
boundary, which in turn calls one of the two providers behind the same runtime
trait. Each of the two layers keeps durable records and assumes that every step
may be its last.

The launcher sets all of this up on a host: it fetches the assets that the
release tool published, generates certificates and configuration, and starts
registry, gateway and service.

The correctness of the whole rests on these promises, one group for each layer:

* dispatcher: a command runs once at most and where the verdict said; what a
  caller is told (`NotDispatched`, `Completed`, `ConfirmedAbsent`) is true; a
  sandbox that may exist is on record until it is reported gone;
* boundary: a sandbox that may exist has a durable record and, while the service
  runs, an entry that its caller can clean up; an entry is in one place; a
  command is executed once, fenced by its record; recovery after a crash ends;
* server: every connection gives its permit back; an operation identifier names
  one operation; shutdown reaches the work in progress and leaves none behind;
* runtimes: a definite failure proves what it says, the command starts once at
  most and under the policy that was asked for, output keeps its limits, every
  operation returns;
* launcher: what it started it can find again; state is deleted after its users
  are stopped; what a successful run leaves is of one run and one release;
* release tool: what is visible is whole, and the tag never loses a release
  before its successor was uploaded.

## Modules

| Module | Contents |
|---|---|
| `Boundary` | the service boundary, its record store, the provider as seen through the runtime trait, crashes and startup reconciliation |
| `MCBoundary` | symmetry for TLC; three configurations |
| `BoundaryProofs` | TLAPS proofs about `Boundary` |
| `Dispatcher` | the dispatcher, its record store, the executors as seen through their traits, crashes of processes |
| `MCDispatcher` | symmetry for TLC |
| `DispatcherProofs` | TLAPS proofs about `Dispatcher` |
| `Server` | the TLS server's connections and shutdown, and the registry of active operations |
| `MCServer` | two configurations |
| `ServerProofs` | TLAPS proofs about `Server` |
| `SandboxRuntime` | abstract: what the runtime trait promises for one identifier |
| `OpenShell`, `MCOpenShell` | the OpenShell adapter and its gateway; implements `SandboxRuntime` |
| `OpenShellProofs` | TLAPS proofs about `OpenShell`, its refinement of `SandboxRuntime` included |
| `Native`, `MCNative` | the native runtime, its processes and its proxy; implements `SandboxRuntime` |
| `NativeProofs` | TLAPS proofs about `Native`, its refinement of `SandboxRuntime` included |
| `Provision`, `MCProvision` | the launcher's runs on one host, for both providers; two configurations |
| `ProvisionProofs` | TLAPS proofs about `Provision` |
| `Release` | `obs-release publish` and the hub |
| `Assets`, `MCAssets` | extends `Release`: how provision and update fetch and verify assets; two configurations |
| `AssetsProofs` | TLAPS proofs about `Release` and `Assets` together |

### Boundary

An operation slot `o \in Op` is one request handler; `pc[o]` names the await it
stands at, `req[o]` its request, `held[o]` the lifecycle of the `OwnedEntry` it
has taken out of the map (`take_owned`) and has not put back (`put_owned`). An
action is what the handler does between two awaits, so TLC explores every
interleaving the async runtime allows. `owned` and `prepared` are the maps of
the same names, `disk` the record files, `woken` the `Notified` futures of
`lifecycle_changed` that have fired. The process is `down`, `reconciling` or
`serving`: `main.rs` binds the listener after `reconcile_startup` succeeded.

A store operation that reports an error may or may not have taken effect: the
rename precedes the directory sync. Capability tokens are abstracted to whether
they match. `box` is the sandbox at the provider: `absent`, `live`,
`deleting` after the provider accepted a deletion, or `stray`: there, although the
provider has reported it absent. `late` is a Create whose call was dropped with its
budget or with the process: `open` until it is applied, `seen` once absence was
reported in the meantime; what is applied then is a stray. `Foreign` are identifiers
under which somebody else's sandbox already exists.

The code takes a report of absence as final: it removes the record and the entry, and
answers `TerminallyAbsent`. A stray, and a Create that is applied after the report, are
therefore in nobody's custody, and a restart does not find them. The model has them; the
properties speak of what `Exists`, which ends with the report, and say so.

Left out: the byte format and file modes, the text of responses, `health` and
`drain_status` (they only read). The `active` map with `Cancel` is in `Server`;
here cancellation is the early end of a wait and a failed provider call.

### Dispatcher

`gate` and the exclusive `flock` admit one operation at a time on a state
directory, over all processes; `lock`, `pc`, `mode`, `cur`, `res` are that
operation. `disk` are the records, `cache` the terminal cache of each process.
`inflight` and `ran` are the world: a command that was sent to an executor may
run at any later moment, also after the dispatcher timed out or crashed. An
executor answers `NotDispatched` only if the command has not run and will not,
and `Completed` only if it ran. `told` is the history of answers, marked by
whether they rest on the record (`by = "record"`) or were given because nothing
could be read (`by = "nothing"`). `box` and `late` are as in `Boundary`: a cleanup that
was confirmed is as true as the report of `wait_deleted`, and the properties end there.

No liveness is claimed of the dispatcher. `governance.evaluate` (`mod.rs:321`),
`host.execute` (`mod.rs:410`) and the runtime's calls are awaited while the directory
lock is held, the first two without a deadline of the dispatcher, so the lock may be held
for ever; and a cleanup that the boundary answers with `LifecycleConflict`
(`boundary.rs:762`) stays pending for ever.

Left out: validation of the command and its digest (refused before any state
changes), the content of results, and the answer `execute` gives if its task
panicked.

### Server

A slot `c \in Conn` is one connection task; `conn[c]` names the await it stands
at, from the handshake over `handle` to the response. `active` maps an operation
identifier to the connection whose token is registered for it. A request that
repeats an identifier is refused, but its token has then replaced the token of
the operation that runs: the registered token is an `Orphan`, and no Cancel or
shutdown reaches that operation. `client[c]` is what the connection knows of its
client: `CancelOnLeave` cancels what is registered for the identifier at that
moment, once. `queue` is the FIFO queue of the tokio `Mutex` around `active`, its
head the one that has the lock: `AskLock` joins it, an action with `WithLock` uses
the lock and hands it on. A handler that finds the lock free uses it in the same
poll (`lock[c] = "inside"`), so its client cannot be seen to leave in between; one
that was queued can lose its poller, because `server.rs:205-209` awaits
`cancel_operation` alone. `run` is the place of
`SandboxTlsServer::run`; `AcceptFails` is its early return, which aborts the
tasks with their `JoinSet`. Identifiers may be repeated by any client.

What an operation does while it works is `Boundary`'s subject. Certificates and
the caller registry only decide whether a connection fails.

### SandboxRuntime

The contract of the trait for one request-owned identifier: the handle the
caller holds (`CreatedSandbox`, `ReadySandbox`, a consumed one, or the state of
a `CreateFailure`), whether this request ever made a sandbox (`owned`), how often
its command was handed over (`runs`), what exec reported and whether a deletion
was confirmed. `NotCreated` and `Conflict` may be answered only if no sandbox was
made, `NotDispatched` only if nothing ran, a confirmed deletion only if the
sandbox is gone. A create that stayed in doubt (`PossiblyCreated`) may still
commit afterwards, also after an absence was observed: that is the one hole the
contract has. Nobody closes it: the records of the boundary and the dispatcher cover such
a create until absence is reported and no longer. `Commit`, `Lose` and
`Run` are steps of the provider, allowed while the outcome is open.

`OpenShell!ImplementsContract` and `Native!ImplementsContract` instantiate it
with `op` and `owned` mapped to the state of the adapter and check its `Spec` as
a property of theirs: each step of a runtime is a step of the contract or
stutters.

### OpenShell

`pc` names the await of the one operation in progress, `call` and `answer` its
RPC. The gateway applies a call when it likes, answers with success, an error,
something malformed, or about another sandbox, or not at all; a call dropped by
`OperationBudget::run` joins `late` and may be applied any time later. `budget`
is what ended the operation's budget. `box` is what the gateway has under the
name: sandboxes change state by themselves, disappear, and may be replaced by
somebody else's. `coll` is the `OutputCollector` of exec.rs, in bytes.

Left out: configuration, the wire form of policies (compared as a whole), TLS.

### Native

One workspace: its directory and its root (which the system may prune or replace
by a link), the profile on disk (which provisioning may replace), the runner
process and what it forked, the two pipes with their reader tasks, the select of
exec, and the egress proxy with its connections. Counting and checking are two
steps of a reader, so that the readers interleave between `fetch_add` and
`load`. `Bubblewrap` distinguishes the two runners: the processes of bubblewrap die with
it and, with an allow-list, share the network, so that a command may connect without the
proxy (`Bypass`); those of Seatbelt may outlive it and reach the proxy only. exec reads the
profile again for its network access, after it was verified (`ExecNetwork`). `StaleLoads`
says whether a `Relaxed` load may miss an addition of the other reader, which it cannot on
x86-64. `absent` says what an Ok of `wait_deleted` rests on: a lookup that did not find the
directory (`seen`), or one that failed (`blind`), since `Path::exists()` is false on every
error of `stat`. The contract's confirmed deletion is the former.

Left out: the text of profiles, name resolution and the bytes of the proxy's
protocol, the violation monitor (it reads the system log afterwards).

### Provision

`launcher` is the run in progress. A run walks through the plan of its provider,
which lists the steps of `native_provision::run` or
`openshell_provision::run_inner` in their order; each step is an action (several
where it stops a process, since signals, polls and removals are visible to the
host in between), and the failure of an OpenShell step leads into `CleanupPlan`.
`proc` are the processes by PID with the run, configuration and certificates
they were started with. PIDs are reused, also by unrelated processes. Files
carry the number of the run that wrote them, so that properties can ask whether
they belong together. The launcher may be killed or interrupted between any two
steps; a foreground run leaves a launcher `waiting` for its service, which may
act long after a later run began.

`lost` marks a process that the code itself can no longer name: a child whose PID file
could not be written, a service whose file a foreground launcher of an earlier run removed,
a gateway whose file a native clean removed. The properties except these and say so, and
the hazards list where that happens. `driver` is `missed` when pgrep or ps did not show a
VM driver that runs: `stop_scoped_vm_drivers` then succeeds. A registry CA in its final day
may be replaced in any run; `discarded` counts those that were, and those deleted with the
state. `Override` is what `OPENBOX_PROVIDER` may say to an
uninstall; without it `service.json` decides, and one that names no provider, as after a
torn write, counts as openshell.

Left out: `status` and `verify` (they read), the content of files, the warm-up
sandboxes but for the VM driver they leave, prompts and flags that only choose
text.

### Release and Assets

`hub` are the releases and drafts with their tag, build and completeness.
`publish` runs its gates, uploads a draft under a staging tag, deletes the old
release, retags and un-drafts; each call may fail, each result is looked at or
ignored as in publish.rs, and the tool may be killed between two calls. `flaw`
is what is wrong with a build, so that skipping a gate shows.

`Assets` adds the launcher's working directory: a file is the build it came from
and whether it is whole, and a transfer may break off or succeed with a part. A
command walks through its plan, while `publish` may cut releases at any time.

## Runs

All configurations are named after the module they instantiate. Deadlock
checking is on for the boundary and the dispatcher. It is off for the server, which
can lock itself up (`server_shutdown`), for the runtimes, which serve one identifier and are then done, and for the launcher and
the release tool, whose operators may stop issuing commands.

| Run | Instance | Checks | Result |
|---|---|---|---|
| `boundary` | 1 own and 1 foreign sandbox, 1 caller, 2 operations, drained stops | `TypeOK`, `DurableCoverage`, `Custody`, `FencedOnce`, `NoLostWakeup`, `ForeignNeverExecuted` | hold |
| `boundary_live` | 1 sandbox, 2 operations, 1 crash, fairness | `DurableCoverage`, `Custody`, `FencedOnce`, `HandlersFinish`, `RecoveryCompletes` | hold |
| `boundary_duplicate` | two Create requests for one identifier | `DurableCoverage` | violated |
| `dispatcher` | 2 commands, 1 process, 1 crash | `TypeOK`, `EffectsAreGoverned`, `AnswersAreTrue`, `CacheIsFresh`, `RecordIsFinal` | hold |
| `server` | 2 connections, 2 permits, 2 operation identifiers, fairness | `TypeOK`, `DrainReachesWork`, `PermitsAreKept`, `ShutdownEndsOrLocks` | hold |
| `server_shutdown` | the same | `ShutdownEnds` | violated |
| `openshell` | streams of 1 and 2 bytes, 2 combined, chunks up to 3, 2 sandbox ids, fairness | `TypeOK`, `CompletedWithinLimits`, `RunsUnderLoadedPolicy`, `ImplementsContract`, `OperationsReturn` | hold |
| `native` | 2 bytes per stream and combined, 2 connections (1 allowed), 1 concurrent, 1 retained, bubblewrap on x86-64, fairness | `TypeOK`, `OutputIsSound`, `EvidenceIsFinal`, `ImplementsContract`, `OperationsReturn` | hold |
| `provision` | 2 runs, 3 PIDs, 1 fault, both providers, any `OPENBOX_PROVIDER` | `TypeOK`, `HostIsAccounted`, `SuccessIsSound`, `FailedRunStopsItsOwn`, `UninstallIsClean`, `StateOutlivesItsUsers` | hold |
| `provision_uninstall` | 3 runs without a fault | `UninstallStopsTheGateway` | violated |
| `supply_chain` | 3 builds, 2 commands, 2 faults | `TypeOK`, `PublishIsSound`, `CommandsUseOneRelease`, `ReplacedOnlyByUpload` | hold |
| `assets_native` | 2 builds, 2 commands, 2 faults | `NativeUsesVerified` | violated |

Some of these are conjunctions of named parts, each with its own comment and, in
the proof modules, its own theorem:

| Property | Parts |
|---|---|
| `Custody` | `SandboxReachable`, `OneClaim`, `RecordKeepsCaller`, `ReleasedIsAbsent` |
| `FencedOnce` | `ExecAtMostOnce`, `ExecFenced` |
| `EffectsAreGoverned` | `AtMostOnce`, `VerdictObeyed`, `EffectIsRecorded`, `CleanupRetained` |
| `AnswersAreTrue` | `DeniedNeverRuns`, `CompletedDidRun`, `ClearedIsAbsent` |
| `DrainReachesWork` | `OneOperationPerId`, `NoWorkOutlivesDrain`, `StopIsQuiet` |
| `OutputIsSound` | `KeptWithinLimits`, `CompletedIsWhole` |
| `HostIsAccounted` | `Accounted`, `RootsDoNotPileUp` |
| `SuccessIsSound` | `NoOldServiceSurvives`, `SuccessIsConsistent` |
| `PublishIsSound` | `PublishedIsWhole`, `PublishOutcomeIsTrue` |
| `CommandsUseOneRelease` | `OpenShellUsesOneRelease`, `UpdateIsOneRelease`, `InstalledIsWhole` |

### What the violations show

* `boundary_duplicate`: Create checks the owned map, then writes and calls the
  provider. Two Create requests for one identifier both pass the check; the one
  that the provider refuses removes the record although the other's sandbox
  exists. Request identifiers are random, so it takes a client that repeats a
  Create on a second connection.
* `server_shutdown`: when its client leaves, a connection awaits
  `cancel_operation`, which locks the registry, and does not poll its handler until
  that is done. If the handler is already queued for the lock, it is handed the lock
  and never runs: the registry stays locked, for every request and for
  `cancel_all_operations`. `ShutdownEndsOrLocks` shows that, with clients that go on
  and operations that end, this is the only way a shutdown can hang.
* `provision_uninstall`: `obs uninstall` reads the provider from `service.json`.
  After an OpenShell provision and then a native one on the same host it runs the
  native teardown, which does not look at `gateway.pid`, and then deletes the
  state root with that file: the gateway keeps running and nothing names it.
* `assets_native`: the policy of a native provision is fetched with the result
  ignored. A transfer that breaks off leaves part of a file, nothing compares it
  with the manifest, and the run goes ahead with it.

### Known disagreements that no run is about

While modelling, these further differences between code and text were seen. The
models have the behaviour; the properties are stated so that they hold with it.

* `README.md:97` against `boundary.rs:606`: a Delete that used up its deadline
  after writing `DeletePending` puts the entry back Ready, and it can be
  executed in.
* `runtime_contract/error.rs:94` against `boundary.rs:350`: `CreatePossible` is
  durable before the provider answers Conflict, and `Unowned` is written
  afterwards, best effort. A crash in between makes the next startup delete a
  sandbox of somebody else.
* `dispatcher/types.rs:459` against `dispatcher/mod.rs:285`: a record that cannot
  be read is answered `NotDispatched`, also if the command ran.
* `dispatcher/types.rs:510` against `dispatcher/mod.rs:372`: a sandbox selection
  that could not be written is answered `PendingReconciliation`, and no record is
  pending.
* `server.rs:167`: after the drain timeout the connection tasks are joined
  without a limit, and a task in the handshake, in `read_request` or in
  `write_response` has neither a budget nor an operation to cancel. A silent
  client keeps shutdown waiting. `ShutdownEndsOrLocks` has that every client goes on
  and every operation ends as its premise; the latter is not certain either, since
  under Seatbelt an exec may never return (next item).
* `native/mod.rs:410`: the pipe readers are awaited without a limit. Under
  Seatbelt (`Bubblewrap = FALSE`) a descendant that holds a pipe keeps exec
  waiting past its deadline: `Native!OperationsReturn` fails in that instance. One that
  closed its pipes runs on after the sandbox was deleted.
* `native/mod.rs:529`: `Path::exists()` is false on every error of `stat`, so
  `wait_deleted` may confirm an absence it has not seen, while
  `runtime_contract/runtime.rs:47` has it wait for terminal absence.
* `native/mod.rs:576-581` runs bubblewrap with the host's network when there is a proxy;
  `README.md:117-118` says so. What a command reaches directly is in no evidence.
* `openshell/operations.rs:115` with `budget.rs:41-47`: a create that is dropped with its
  budget may be applied after its absence was reported, when `boundary.rs:664-676` has
  removed the record and `dispatcher/mod.rs:656` has confirmed the cleanup. Nothing names
  that sandbox.
* `native/mod.rs:656`: on a weakly ordered CPU (`StaleLoads = TRUE`) both readers
  may miss the other's last addition and together keep more than the combined
  limit.
* `release/src/publish.rs:189`: when retag or un-draft fails, the message that
  the previous release is still current is wrong: it has been deleted.
  `PublishOutcomeIsTrue` says nothing of these two failures.
* `README.md:51` ("Removes everything the launcher created") against
  `native_provision.rs:113-121`: a native uninstall leaves the certificates, the metadata
  and the VM state of an OpenShell gateway, which lie outside the two roots; neither
  uninstall takes the registry CA out of the trust store of the host.
* `packaging/launcher/README.md:89` (teardown signals only processes whose identity
  matches) against `openshell_provision.rs:1250-1253`, where `stop_zot` signals any process
  with the PID, and `native_provision.rs:529-531`, where SIGKILL follows without a second
  look at the process.
* `openshell_provision.rs:1189-1203`: without pgrep, or when it or ps fails, VM drivers are
  passed over and the state is deleted under them.
* `openshell_provision.rs:1423-1449`: a CA in its final day is replaced without a removal
  of the state; on macOS its root stays trusted beside the new one.
* `openshell_provision.rs:1573-1581`: when curl cannot be run, the registry that was just
  started is neither signalled nor handed to the cleanup; `zot.pid` still names it.
* `README.md:78` and `:87-89` (each asset is checked) against `provision.rs:216-223`: zot is
  renamed to its final name before it is checked. A launcher that dies in between leaves a
  file that `provision.rs:339` takes for present and `openshell_provision.rs:692` only makes
  executable. `OpenShellUsesOneRelease` leaves zot out.
* `update.rs:178-191`: the staged copy is not synced before the rename, so a host that goes
  down may leave a truncated launcher. `Assets` has kills of the command only.

### Bounds

`MaxCrashes` bounds crashes: one crash of the service loses all memory, and a
second one during reconciliation is like the first, since reconciliation keeps
nothing. `boundary_live` has the crash and one sandbox; `boundary` has two and, in place
of the crash, drained stops, which leave whatever records the last operations left to the
reconciliation of both. The two together, with 3.5 million states, give the same result.
The dispatcher's one process may crash at any step of one of its commands. `MaxCreates`
bounds the Create requests for one identifier. It is 1 where the invariants are
checked, because callers draw identifiers at random and use each once
(`RequestOwnedId::generate`), and 2 in `boundary_duplicate`. Two operations are a
holder and a competitor or waiter. That callers are kept apart
(`RecordKeepsCaller`) says little with one caller: with two the instance has 4.8
million states and the same result, and the theorems have no bound on any of these. The
foreign identifier shares the operation slots and the token a commit may spoil.
The dispatcher has one operation at a time, so a second process would matter for its
cache only (`CacheIsFresh` is false then), and a second command for `reconcile_all` only;
the theorems have no bound on either. Two connections put an
operation beside its duplicate, a Cancel or another operation, and each against
shutdown; with a third connection, refused for want of a permit, the instance has
4.3 million states and the same result. The server's state is finite without a bound.

In `openshell` the sum of the stream limits exceeds the combined one, so that each
of the three can be the one crossed, and a chunk may exceed its own limit; two
sandbox identities let a name be taken over once. In `native` each stream alone
may fill the combined limit and one connection more than is served or retained
may come. `provision` needs two runs for whatever one leaves to the next, three
PIDs for registry, gateway and service, one of which can be taken over by an
unrelated process, and one fault (a killed launcher, a failing process) at any
step of either, and both values of `OPENBOX_PROVIDER`; 2.5 million states. `supply_chain` has three builds for a release
cut between two downloads and once more, and two faults, so that a failed call may
meet a broken transfer; 3.0 million states. `boundary` has 1.7 million, `dispatcher` 4.7
million and `native` 0.8 million. A create is in doubt once per identifier, and may be
applied before, between and after any of the steps that follow.

### Fairness

The handlers of the boundary run on an executor that polls ready tasks, and each of
their provider calls has a deadline: weak fairness of `Step`. A waiter's timer
is ready in every `select!` once its deadline passed: strong fairness of
`AcquireGiveUp`. That a deletion asked for again and again is accepted and
confirmed, that the disk accepts a removal at last, and that an operator restarts
the service, are assumptions about the
environment (strong fairness), without which no cleanup can be promised. The dispatcher
has no liveness run, for the reasons given above.
The server's own steps, its drain timeout and its joins are weakly fair, the
steps that wait for a client or for the runtime are not; `ShutdownEndsOrLocks`
names the conditions on both as its premise. Deadlock checking is off there because
the registry's lock can really be lost. Nothing is assumed of callers, and crashes are bounded by
`MaxCrashes`.

In the runtimes the task of the operation and the reader tasks are weakly fair
(they are polled when ready) and the deadline comes, since every operation is
given one. Nothing is assumed of the gateway, the command, its descendants or its
connections. `Provision` and `Assets` state safety only.

## Proofs

`tlapm` checks the proof modules to the last leaf. The theorems hold for every
value of the constants that the named assumption of the module allows: every set
of identifiers, callers, operations, commands, processes and connections, every
limit, and every bound on crashes, faults, builds and chunk sizes. Where a theorem
needs more than that, it says so in an `ASSUME` of its own.

**`BoundaryProofs`.** None of the safety invariants is inductive by itself: that
`DurableCoverage` survives a removal depends on who holds the entry, that on
what a Create may rely on, and that on which places of the code hold what. They
are proved in layers, each inductive relative to those before it, with one step
per action:

1. `TypeOK` and `Shape`: operations, what they hold and the process state fit
   together; a process that does not serve owns nothing.
2. `Ownership` = `OneClaim`, `Fresh`, `Alive`: an entry has one holder, nothing
   was done for an identifier before its Create, only `CleanupOnly` entries may
   stand for a sandbox that is being deleted.
3. `Execution` = `Spent`, `Fenced`, `Belongs`, `Gone`: after its command an
   entry is `CleanupOnly` wherever it is; a command runs behind its durable
   fence; records name the caller of their Create; what was released stays so.
   Beside it `Strangers`: an identifier under which somebody else's sandbox
   exists never gets an entry in a state from which a command can be committed,
   which gives `ForeignNeverExecuted`.
4. `Recovery` = `DurableCoverage`, `Pending`: the record of a sandbox, and of a Create
   that may still be applied, lasts until its absence was reported, and reconciliation does
   not forget one of which it was not.
5. `SandboxReachable`; and, independent of 2 to 5, `NoLostWakeup`.

Layers 2 to 5 assume `MaxCreates = 1`, which `boundary_duplicate` shows to be
necessary for `DurableCoverage`. `TypeCorrect` and `WakeupsAreKept` need no such
assumption.

**`DispatcherProofs`.** One inductive invariant, again in layers: `Places`
(which command an operation is at), `Fresh` (nobody is answered from a record
that is not there yet, or while the command is executed), `Progress` (what has
happened outside at each place), `Effects`, `Retained` (what `Exists` is pending on
disk), `Truth` (records, caches, results under way and answers are true). A command that
is `Unmade` has neither a sandbox nor a Create in flight; after `CreatePossible` and
`Crash` no step but those of the provider may make one appear, and a report of absence
ends what `Exists` (`NoneAppears`, `Vanished`). `DeniedNeverRuns` is about the
past, so it needs `Fresh` and `Truth` to speak of every answer given and every
cached result, also in other processes. The only assumption is
`DispatcherAssumption`. `RecordIsFinal`, an action property, follows from the
same invariant. `CacheIsFresh` is proved on top of it, for one process: the cache
is updated after the write and whether or not the write succeeded, so the proof
also needs that a result which is about to be cached as pending is pending on disk
(`FinishIsFresh`), and that nobody has a cached result of a command whose record is
not terminal (`Fresh`). With two processes it is false: the cache of one is not
told what the other reconciles.

**`ServerProofs`.** `Types`, `LockTypes`, `Shape` (a connection that handles a request has
one), `Phase` (the drain flag is set before tasks are joined, a process that
ended has no connection), `Permits` (the open connections are finitely many and
counted by the permits), `OneOperationPerId` and `NoWorkOutlivesDrain` are
inductive together. The bound of `TypeOK` on permits follows from `Permits`, not
from the actions: giving a permit back stays in range because the connection
that gives it is open. `NoWorkOutlivesDrain` needs the registry: what works is
registered, so `cancel_all_operations` finds it. The assumption is
`ServerAssumption`, and the set of connections need not be finite.

**`OpenShellProofs`.** The invariant says what is known at each awaited call:
`HandleFits` (which handle the caller is left with), `MadeOnce` (our create was
applied once at most, and a create still in flight after its future was dropped
belongs to a caller told `PossiblyCreated`), `ProviderIsOurs` (the identity in the
handle is that of our sandbox and of no later one), `AbsenceIsFinal`,
`StartsOnce`, `LoadedFirst` (from readiness on, a sandbox with that identity has
its policy loaded) and `CollectorBounded`. `RunsUnderLoadedPolicy` is only as good
as the comparison of identities: the argument goes through `ProviderIsOurs`,
because the name alone may have been taken over. The assumptions are
`LimitsAssumption` and `BoundsAssumption`.

**`NativeProofs`.** `Lifecycle` and `StartsOnce`
are about the operation; `Conserved` says where every byte is (written = in the pipe
+ counted, counted = kept + about to be checked, unless the reader overflowed), which
is what makes the combined limit and `CompletedIsWhole` inductive while the two
readers interleave; `EndsEmpty` says that a reader ends at an empty pipe nobody can
write to; `ProxyScoped` that a proxy serves only while its exec is running, which is what
makes `EvidenceIsFinal` inductive; `Counted` bounds the proxy's connections and decisions. The assumption is
`NativeAssumption`; both kinds of runner and both kinds of CPU are covered, and the
properties that hold for one of them only carry that as their premise.

**Refinement.** For both runtimes every action is first summarised by what it does
to the state the contract sees (`StepCases`), then each summary is shown to be a step
of `SandboxRuntime` or a stutter under the mapping of `ImplementsContract`, with the
invariant supplying the guards: that `NotCreated` is answered only if nothing was
made is `MadeOnce`, that `NotDispatched` is answered only if nothing ran is
`StartsOnce`, that a confirmed deletion is final is `AbsenceIsFinal` with
`ProviderIsOurs`. For the native runtime a deletion counts as confirmed if the lookup
worked (`absent = "seen"`).

**`AssetsProofs`.** The release half follows the one entry a build has on the hub
from the gates to the tag (`HubShape`, `Uploads`, `Follows`, `Untouched`); the
launcher's half says what a command has compared with which manifest by the time it
stands at a step of its plan (`Verified`, `Compared`). The halves meet in that a
build is never uploaded twice, so a build number identifies the bytes. The
assumptions are `ReleaseAssumption` and `AssetsAssumption`.

**`ProvisionProofs`.** A property of a host after several runs depends on how far
the present run has got, so the invariant `Inv` speaks of places in the plans.
`LauncherFits` says what the record of a run may hold at each step;
`HostFits` that a port has one listener. `Accounted` is inductive only with
`Handled` (the PID file of the process that is being stopped names it or is gone;
the one being written belongs to a child of this run) and with `OldGone` and
`OwnKnown`: once a role was stopped no process of it that the launcher knows is of
an earlier run, and before the run spawns one there is none of its own. So the PID
file that a start overwrites names nobody, and the state that a clean removes has
no users. `OwnStarted` and `OwnStopped` follow what an OpenShell run has put on
record into the cleanup after a failure; they need that no PID file of a service
names a gateway, and that a gateway is lost only together with a signal.
`Written` says which files are of this run at each step, `Supervised` that a native
run removes the unit before anything else, `Drivers` that no VM driver runs from
teardown to warm-up but one that the search has missed. `Cleaned` counts the trusted roots
other than the CA in use: each was paid for by a removal of the state or by a renewal. A
clean marks the processes of the other provider's roles as lost, and only those: that none
of its own is left is `OldGone`, not the clean's doing.

The actions, about fifty, are summarised before the invariant is looked at: `Moves` lists
how the record of the run may change, `Cases` adds the processes and PID files, and
`StepCases` shows that every action is one of fifteen cases; each part of the
invariant is preserved by the cases. Parts about files, unit, roots and drivers use
`Writers` (who may change a variable) and `Doers` (a run gets past a step only by
that step's own action). The assumption is `ProvisionAssumption`.

Only model-checked: the liveness properties (`HandlersFinish`, `RecoveryCompletes`,
`ShutdownEndsOrLocks` and both `OperationsReturn`),
since fairness and ENABLED are out of the prover's reach. Every safety property of
a passing run is a theorem.

## Not modelled

* Protocol framing (`protocol/`): frames, identities and messages are pure
  encodings; a refused frame is a connection of `Server` that fails.
* Validation of names, limits, policies and configuration (`runtime_contract/`,
  `config.rs`, `openshell/config.rs`): refused before any state changes.
* `test_client/`, `test_support/` and the tests.
* The launcher's `status`, `verify`, help, plans and postures; they read and print.
* The composition of dispatcher, client and boundary: the client in production is
  not in this repository. A cleanup retried after the service restarted and
  reconciled gets `LifecycleConflict` (`boundary.rs:762`) and stays pending at the
  dispatcher; this is a hazard without a property.

## Plan

What is left is the composition of dispatcher and boundary over an unreliable
client, which would show what becomes of a cleanup after `LifecycleConflict`
and of a create applied after its absence was reported, and an abstract
specification of the launcher's lifecycle (installed, running, absent) that
`Provision` could be shown to implement.
