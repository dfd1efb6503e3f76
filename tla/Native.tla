------------------------------- MODULE Native -------------------------------
(***************************************************************************)
(* The native runtime (native/mod.rs, proxy.rs) for one request-owned      *)
(* workspace: creation, readiness, one execution under bubblewrap or       *)
(* Seatbelt, and removal.  During an execution the exec task, the two pipe *)
(* readers, the sandboxed processes and the connections of the egress      *)
(* proxy run concurrently.  The operating system may prune the workspace   *)
(* root, provisioning may replace the profile, and the service may crash.  *)
(***************************************************************************)
EXTENDS Naturals, FiniteSets

CONSTANTS
    StreamBytes, CombinedBytes, ChunkBytes,  \* OutputLimits, one ceiling for both streams
    Bubblewrap,     \* the runner is bwrap, else Seatbelt: its processes die with the runner
                    \* and with the service, and share the network where there is a proxy
    StaleLoads,     \* a Relaxed load may miss what the other reader counted (not on x86-64)
    Conns, Allowed, \* connections the command may open, and those to an allowlisted target
    MaxConcurrent, MaxRetained,  \* MAX_CONCURRENT_CONNECTIONS, MAX_RETAINED_DECISIONS
    MaxBytes        \* bound: bytes the command writes to a stream

ASSUME NativeAssumption ==
    /\ {StreamBytes, CombinedBytes, ChunkBytes} \subseteq Nat \ {0}
    /\ {Bubblewrap, StaleLoads} \subseteq BOOLEAN
    /\ {MaxConcurrent, MaxRetained, MaxBytes} \subseteq Nat
    /\ IsFiniteSet(Conns) /\ Allowed \subseteq Conns

VARIABLES
    pc, handle, verdict, absent,   \* the awaited step, and what the caller holds and was told
    fired,                         \* cancellation, deadline and command timeout that have come
    root, ws, made,                \* workspace root, the request's directory, our mkdir succeeded
    profile,                       \* the profile on disk
    proc, kids, runs,              \* the runner, what it left behind, and how often it was spawned
    outcome,                       \* WaitOutcome
    pipe, wrote, count, rd, notice,  \* pipes, atomic counters, readers, overflow channel
    net, listening, conn,          \* network access, accept loop, connections
    logged, relayed                \* decisions retained; connections that reached upstream

caller == <<pc, handle, verdict, absent>>
files == <<root, ws, made, profile>>
process == <<proc, kids, runs>>
output == <<pipe, wrote, count, rd, notice>>
proxy == <<net, listening, conn, logged, relayed>>
vars == <<pc, handle, verdict, absent, fired, root, ws, made, profile,
          proc, kids, runs, outcome, pipe, wrote, count, rd, notice,
          net, listening, conn, logged, relayed>>

Streams == {"out", "err"}
Other(s) == IF s = "out" THEN "err" ELSE "out"
OpOf == [idle |-> "idle", c_check |-> "create", c_root |-> "create", c_mkdir |-> "create",
         c_chmod |-> "create", r_check |-> "wait_ready", e_check |-> "exec", e_net |-> "exec",
         e_spawn |-> "exec", e_wait |-> "exec", e_kill |-> "exec", e_join |-> "exec",
         e_finish |-> "exec", d_remove |-> "delete", d_done |-> "delete", w_check |-> "wait_deleted"]
Empty == [s \in Streams |-> 0]
NewReader == [st |-> "read", n |-> 0, seen |-> 0, kept |-> 0, over |-> FALSE, broken |-> FALSE]

Init ==
    /\ pc = "idle" /\ handle = "none" /\ verdict = "none" /\ absent = "no" /\ fired = {}
    /\ root = "present" /\ ws \in {"absent", "foreign"} /\ made = FALSE
    /\ profile = "pinned"
    /\ proc = "none" /\ kids = "none" /\ runs = 0 /\ outcome = "none"
    /\ pipe = Empty /\ wrote = Empty /\ count = Empty
    /\ rd = [s \in Streams |-> NewReader] /\ notice = FALSE
    /\ net \in {"deny", "allowlist"} /\ listening = FALSE
    /\ conn = [c \in Conns |-> "none"] /\ logged = {} /\ relayed = {}

-----------------------------------------------------------------------------
(* Lifecycle *)

Step(from, to) == pc = from /\ pc' = to

\* An operation begins with its own context and ends with it.
Call(p) ==
    /\ Step("idle", p) /\ fired' \in {{}, {"cancelled"}}
    /\ handle' = IF p \in {"r_check", "e_check"} THEN "spent" ELSE handle
    /\ UNCHANGED <<verdict, absent, files, process, outcome, output, proxy>>

Create == handle = "none" /\ Call("c_check")
WaitReady == handle = "created" /\ Call("r_check")
Exec == handle = "ready" /\ Call("e_check")
Delete == handle \in {"created", "ready", "spent", "possible"} /\ Call("d_remove")
WaitDeleted == handle \in {"created", "ready", "spent", "possible"} /\ Call("w_check")

CreateReturns(h) ==
    /\ pc' = "idle" /\ handle' = h /\ fired' = {}
    /\ UNCHANGED <<verdict, absent, process, outcome, output, proxy>>

Continue == UNCHANGED <<handle, verdict, absent, fired, process, outcome, output, proxy>>

\* preflight, then profile digest, policy identity and document digest.
CreateCheck ==
    /\ pc = "c_check"
    /\ \/ fired = {} /\ profile = "pinned" /\ pc' = "c_root" /\ Continue
       \/ CreateReturns("not_created")
    /\ UNCHANGED files

\* ensure_workspace_root: a missing root is restored, anything but a directory refused.
EnsureWorkspaceRoot ==
    /\ pc = "c_root"
    /\ \/ /\ root # "link" /\ pc' = "c_mkdir" /\ root' = "present" /\ Continue
       \/ CreateReturns("not_created") /\ UNCHANGED root
    /\ UNCHANGED <<ws, made, profile>>

\* Mutant: a workspace that exists already is taken over (create_dir_all).
CreateDirAll ==
    /\ pc = "c_mkdir" /\ root # "absent"
    /\ ws' = (IF ws = "absent" THEN "own" ELSE ws) /\ made' = (ws = "absent") /\ pc' = "c_chmod"
    /\ Continue /\ UNCHANGED <<root, profile>>

CreateDir ==
    /\ pc = "c_mkdir"
    /\ \/ /\ root # "absent" /\ ws = "absent"
          /\ ws' = "own" /\ made' = TRUE /\ pc' = "c_chmod" /\ Continue
       \/ ws # "absent" /\ CreateReturns("conflict") /\ UNCHANGED <<ws, made>>
       \/ ws = "absent" /\ CreateReturns("not_created") /\ UNCHANGED <<ws, made>>
    /\ UNCHANGED <<root, profile>>

CreatePermissions ==
    /\ pc = "c_chmod" /\ UNCHANGED files
    /\ \/ ws # "absent" /\ CreateReturns("created")
       \/ CreateReturns("possible")

ReadyReturns(h) ==
    /\ pc' = "idle" /\ handle' = h /\ fired' = {}
    /\ UNCHANGED <<verdict, absent, files, process, outcome, output, proxy>>

ReadyCheck ==
    /\ pc = "r_check"
    /\ IF fired = {} /\ profile = "pinned" /\ ws # "absent"
       THEN ReadyReturns("ready") ELSE ReadyReturns("spent")

\* What is known of the absence: nothing, or that the directory was looked up and not
\* found, or that the lookup failed.
CleanupReturns(found) ==
    /\ pc' = "idle" /\ fired' = {}
    /\ absent' = IF found = "no" \/ absent = "seen" THEN absent ELSE found
    /\ UNCHANGED <<handle, verdict, root, made, profile, process, outcome, output, proxy>>

\* remove_dir_all removes the workspace or fails with the directory still there.
RemoveDirAll ==
    /\ Step("d_remove", "d_done")
    /\ \/ fired = {} /\ ws' = "absent"
       \/ UNCHANGED ws
    /\ UNCHANGED <<root, made, profile>> /\ Continue

DeleteReturns == pc = "d_done" /\ CleanupReturns("no") /\ UNCHANGED ws

\* Path::exists() is false of a directory that is gone, and on every error of stat.
DeletedCheck ==
    /\ pc = "w_check" /\ UNCHANGED ws
    /\ \/ (fired # {} \/ ws # "absent") /\ CleanupReturns("no")
       \/ fired = {} /\ CleanupReturns(IF ws = "absent" THEN "seen" ELSE "blind")

-----------------------------------------------------------------------------
(* Execution *)

\* The pipes and what was read from them go with a failed or crashed execution.
DropOutput ==
    /\ pipe' = Empty /\ wrote' = Empty /\ count' = Empty
    /\ rd' = [s \in Streams |-> NewReader] /\ notice' = FALSE

ExecReturns(v) ==
    /\ pc' = "idle" /\ verdict' = v /\ fired' = {}
    /\ IF v = "completed" THEN UNCHANGED output ELSE DropOutput
    /\ UNCHANGED <<handle, absent, files, process, outcome, net, conn, logged, relayed>>

ExecFlows == UNCHANGED <<handle, verdict, absent, fired, root, ws, made, profile, outcome, output>>

\* Everything up to spawn fails as NotDispatched.
ExecCheck ==
    /\ pc = "e_check"
    /\ \/ /\ fired = {} /\ profile = "pinned" /\ ws # "absent"
          /\ pc' = "e_net"
          /\ ExecFlows /\ UNCHANGED <<process, proxy>>
       \/ ExecReturns("not_dispatched") /\ UNCHANGED listening

\* compiled_network_access reads the profile again, then ProxyHandle::start; a proxy dropped
\* on an error path shuts down.
ExecNetwork ==
    /\ pc = "e_net"
    /\ \/ /\ net' \in IF profile = "pinned" THEN {net} ELSE {"deny", "allowlist"}
          /\ pc' = "e_spawn" /\ listening' = (net' = "allowlist")
          /\ ExecFlows /\ UNCHANGED <<process, conn, logged, relayed>>
       \/ ExecReturns("not_dispatched") /\ UNCHANGED listening

ExecSpawn ==
    /\ pc = "e_spawn"
    /\ \/ /\ pc' = "e_wait" /\ proc' = "running" /\ runs' = runs + 1
          /\ ExecFlows /\ UNCHANGED <<kids, proxy>>
       \/ ExecReturns("not_dispatched") /\ listening' = FALSE

\* Mutant: the wait does not watch the deadline.
OutcomesUnbounded ==
    CASE "cancelled" \in fired -> {"cancelled"}
      [] "timeout" \in fired   -> {"timeout"}
      [] notice                -> {"overflow"}
      [] OTHER                 -> IF proc = "exited" THEN {"exited", "failed"} ELSE {}

\* The outcomes of the biased select: the first ready branch in the order of the code wins.
Outcomes ==
    CASE "cancelled" \in fired -> {"cancelled"}
      [] "deadline" \in fired  -> {"deadline"}
      [] "timeout" \in fired   -> {"timeout"}
      [] notice                -> {"overflow"}
      [] OTHER                 -> IF proc = "exited" THEN {"exited", "failed"} ELSE {}

Select ==
    /\ pc = "e_wait"
    /\ outcome' \in Outcomes
    /\ pc' = IF outcome' = "exited" THEN "e_join" ELSE "e_kill"
    /\ UNCHANGED <<handle, verdict, absent, fired, files, process, output, proxy>>

\* What the runner leaves behind when it ends: nothing in a pid namespace.
Orphans == IF Bubblewrap THEN "none" ELSE kids

Kill ==
    /\ Step("e_kill", "e_join")
    /\ proc' = "exited" /\ kids' = Orphans
    /\ UNCHANGED <<handle, verdict, absent, fired, files, runs, outcome, output, proxy>>

\* Both readers are awaited; they end at the end of their pipes, which has no limit.
JoinReaders ==
    /\ Step("e_join", "e_finish") /\ \A s \in Streams : rd[s].st = "eof"
    /\ UNCHANGED <<handle, verdict, absent, fired, files, process, outcome, output, proxy>>

\* ProxyHandle::finish stops the accept loop and gives its connections a grace period.
StopProxy ==
    /\ pc = "e_finish" /\ listening
    /\ listening' = FALSE
    /\ UNCHANGED <<caller, fired, files, process, outcome, output, net, conn, logged, relayed>>

GraceEnds ==
    /\ pc = "e_finish" /\ ~listening /\ \E c \in Conns : conn[c] \in {"accepted", "relaying"}
    /\ conn' = [c \in Conns |-> IF conn[c] \in {"accepted", "relaying"} THEN "closed" ELSE conn[c]]
    /\ UNCHANGED <<caller, fired, files, process, outcome, output, net, listening, logged, relayed>>

Overflowed == outcome = "overflow" \/ \E s \in Streams : rd[s].over

\* Mutant: finish takes the decisions without awaiting the accept loop.
ExecFinishEarly ==
    /\ pc = "e_finish"
    /\ \/ Overflowed /\ ExecReturns("indeterminate")
       \/ ~Overflowed /\ outcome \in {"exited", "timeout"} /\ ExecReturns("completed")
       \/ ~Overflowed /\ outcome # "timeout" /\ ExecReturns("indeterminate")
    /\ listening' = FALSE

ExecFinish ==
    /\ pc = "e_finish" /\ ~listening /\ \A c \in Conns : conn[c] \notin {"accepted", "relaying"}
    /\ \/ Overflowed /\ ExecReturns("indeterminate")
       \/ ~Overflowed /\ outcome \in {"exited", "timeout"} /\ ExecReturns("completed")
       \/ ~Overflowed /\ outcome # "timeout" /\ ExecReturns("indeterminate")
    /\ UNCHANGED listening

-----------------------------------------------------------------------------
(* read_bounded: one task for each pipe *)

ReaderOnly == UNCHANGED <<caller, fired, files, process, outcome, wrote, proxy>>

Holders == proc = "running" \/ kids = "holding"
Reading(s) == pc \in {"e_wait", "e_kill", "e_join"} /\ rd[s].st = "read"

\* read and fetch_add
Read(s) ==
    /\ Reading(s)
    /\ \E n \in 1..pipe[s] :
        /\ pipe' = [pipe EXCEPT ![s] = @ - n]
        /\ count' = [count EXCEPT ![s] = @ + n]
        /\ rd' = [rd EXCEPT ![s].st = "load", ![s].n = n]
    /\ ReaderOnly /\ UNCHANGED notice

\* Mutant: each reader checks its own stream only.
CheckOwn(s) ==
    /\ rd[s].st = "load" /\ pc \in {"e_wait", "e_kill", "e_join"}
    /\ LET over == rd[s].n > ChunkBytes \/ count[s] > StreamBytes IN
        /\ rd' = [rd EXCEPT ![s].st = "read", ![s].n = 0, ![s].over = @ \/ over,
                            ![s].kept = IF over \/ rd[s].over THEN @ ELSE @ + rd[s].n]
        /\ notice' = (notice \/ over)
    /\ ReaderOnly /\ UNCHANGED <<pipe, count>>

\* The other counter is loaded and the limits are checked; bytes are kept until an overflow.
Check(s) ==
    /\ rd[s].st = "load" /\ pc \in {"e_wait", "e_kill", "e_join"}
    /\ \E v \in (IF StaleLoads THEN rd[s].seen..count[Other(s)] ELSE {count[Other(s)]}) :
        LET over == rd[s].n > ChunkBytes \/ count[s] > StreamBytes \/ count[s] + v > CombinedBytes IN
        /\ rd' = [rd EXCEPT ![s].st = "read", ![s].n = 0, ![s].seen = IF StaleLoads THEN v ELSE 0,
                            ![s].over = @ \/ over,
                            ![s].kept = IF over \/ rd[s].over THEN @ ELSE @ + rd[s].n]
        /\ notice' = (notice \/ over)
    /\ ReaderOnly /\ UNCHANGED <<pipe, count>>

EndOfPipe(s) ==
    /\ Reading(s) /\ pipe[s] = 0 /\ ~Holders
    /\ rd' = [rd EXCEPT ![s].st = "eof"]
    /\ ReaderOnly /\ UNCHANGED <<pipe, count, notice>>

\* A failed read ends the loop like the end of the pipe does.
ReadFails(s) ==
    /\ Reading(s)
    /\ rd' = [rd EXCEPT ![s].st = "eof", ![s].broken = TRUE]
    /\ ReaderOnly /\ UNCHANGED <<pipe, count, notice>>

-----------------------------------------------------------------------------
(* proxy.rs: the accept loop and serve *)

ProxyOnly == UNCHANGED <<caller, fired, files, process, outcome, output, net>>

Live == {c \in Conns : conn[c] \in {"accepted", "relaying"}}

\* Mutant: the accept loop serves one connection too many.
AcceptOneMore(c) ==
    /\ listening /\ (proc = "running" \/ kids # "none") /\ conn[c] = "none"
    /\ conn' = [conn EXCEPT ![c] = IF Cardinality(Live) <= MaxConcurrent THEN "accepted" ELSE "closed"]
    /\ ProxyOnly /\ UNCHANGED <<listening, logged, relayed>>

\* Beyond MAX_CONCURRENT_CONNECTIONS the connection is answered 503 and not served.
Accept(c) ==
    /\ listening /\ (proc = "running" \/ kids # "none") /\ conn[c] = "none"
    /\ conn' = [conn EXCEPT ![c] = IF Cardinality(Live) < MaxConcurrent THEN "accepted" ELSE "closed"]
    /\ ProxyOnly /\ UNCHANGED <<listening, logged, relayed>>

\* bwrap --share-net: the proxy is in the environment of the command, which need not use it.
Bypass(c) ==
    /\ Bubblewrap /\ net = "allowlist" /\ (proc = "running" \/ kids # "none") /\ conn[c] = "none"
    /\ conn' = [conn EXCEPT ![c] = "direct"]
    /\ ProxyOnly /\ UNCHANGED <<listening, logged, relayed>>

\* A failed accept ends the loop: nothing more is served.
AcceptFails ==
    /\ listening /\ proc = "running" /\ listening' = FALSE
    /\ ProxyOnly /\ UNCHANGED <<conn, logged, relayed>>

\* The decision is kept, while there is room, before anything goes upstream.
Serve(c) ==
    /\ conn[c] = "accepted"
    /\ logged' = IF Cardinality(logged) < MaxRetained THEN logged \cup {c} ELSE logged
    /\ conn' = [conn EXCEPT ![c] = IF c \in Allowed THEN "relaying" ELSE "closed"]
    /\ relayed' = IF c \in Allowed THEN relayed \cup {c} ELSE relayed
    /\ ProxyOnly /\ UNCHANGED listening

\* A malformed or oversized header, an unreachable target, or the end of the relay.
Close(c) ==
    /\ c \in Live
    /\ conn' = [conn EXCEPT ![c] = "closed"]
    /\ ProxyOnly /\ UNCHANGED <<listening, logged, relayed>>

-----------------------------------------------------------------------------
(* The command, the clock and the host.  A command writes or connects, not both. *)

Write(s) ==
    /\ Holders /\ pc # "idle" /\ net = "deny" /\ wrote[s] < MaxBytes
    /\ wrote' = [wrote EXCEPT ![s] = @ + 1]
    /\ pipe' = [pipe EXCEPT ![s] = @ + 1]
    /\ UNCHANGED <<caller, fired, files, process, outcome, count, rd, notice, proxy>>

ProcessOnly == UNCHANGED <<caller, fired, files, runs, outcome, output, proxy>>

\* A descendant keeps the inherited pipes, or closes them and lives on.
Fork ==
    /\ proc = "running" /\ kids = "none" /\ kids' \in {"holding", "detached"}
    /\ ProcessOnly /\ UNCHANGED proc

Exit ==
    /\ proc = "running" /\ proc' = "exited" /\ kids' = Orphans
    /\ ProcessOnly

ForkExits ==
    /\ kids # "none" /\ kids' = "none"
    /\ ProcessOnly /\ UNCHANGED proc

Fires(e) ==
    /\ e \notin fired /\ fired' = fired \cup {e}
    /\ UNCHANGED <<caller, files, process, outcome, output, proxy>>

\* Both clocks start with the wait.
DeadlineElapses == pc = "e_wait" /\ Fires("deadline")
TimeoutElapses == pc = "e_wait" /\ Fires("timeout")
CancelRequested == pc \in {"c_check", "e_check", "e_spawn", "e_wait"} /\ Fires("cancelled")

\* The host acts where an operation can still tell: an execution in its wait does not look.
HostOnly == proc # "running" /\ UNCHANGED <<caller, fired, process, outcome, output, proxy>>

\* The operating system prunes its temporary directory.
RootPruned ==
    /\ root = "present" /\ root' = "absent" /\ ws' = "absent"
    /\ HostOnly /\ UNCHANGED <<made, profile>>

RootLinked ==
    /\ handle = "none" /\ root = "absent" /\ root' = "link"
    /\ HostOnly /\ UNCHANGED <<ws, made, profile>>

ProfileReplaced ==
    /\ runs = 0 /\ profile = "pinned" /\ profile' = "other"
    /\ HostOnly /\ UNCHANGED <<root, ws, made>>

\* The service process ends: its tasks are gone, and the runner with it where it dies with
\* its parent.  What was in progress is in doubt.
Crash ==
    /\ OpOf[pc] \in {"create", "wait_ready", "exec"}
    /\ pc' = "idle" /\ fired' = {}
    /\ handle' = IF OpOf[pc] = "create" THEN "possible" ELSE handle
    /\ verdict' = IF OpOf[pc] = "exec" THEN "indeterminate" ELSE verdict
    /\ proc' = IF Bubblewrap /\ proc = "running" THEN "exited" ELSE proc
    /\ kids' = Orphans
    /\ listening' = FALSE
    /\ conn' = [c \in Conns |-> IF c \in Live THEN "closed" ELSE conn[c]]
    /\ DropOutput
    /\ UNCHANGED <<absent, files, runs, outcome, net, logged, relayed>>

-----------------------------------------------------------------------------
Executor ==
    \/ CreateCheck \/ EnsureWorkspaceRoot \/ CreateDir \/ CreatePermissions \/ ReadyCheck
    \/ RemoveDirAll \/ DeleteReturns \/ DeletedCheck
    \/ ExecCheck \/ ExecNetwork \/ ExecSpawn \/ Select \/ Kill \/ JoinReaders
    \/ StopProxy \/ GraceEnds \/ ExecFinish

Next ==
    \/ Create \/ WaitReady \/ Exec \/ Delete \/ WaitDeleted
    \/ Executor
    \/ \E s \in Streams : Read(s) \/ Check(s) \/ EndOfPipe(s) \/ ReadFails(s) \/ Write(s)
    \/ \E c \in Conns : Accept(c) \/ Serve(c) \/ Close(c) \/ Bypass(c)
    \/ AcceptFails
    \/ Fork \/ Exit \/ ForkExits
    \/ DeadlineElapses \/ TimeoutElapses \/ CancelRequested
    \/ RootPruned \/ RootLinked \/ ProfileReplaced \/ Crash

Spec == Init /\ [][Next]_vars

\* The executor and the readers are polled, and the deadline comes; the command owes nothing.
Fairness ==
    /\ WF_vars(Executor) /\ WF_vars(DeadlineElapses)
    /\ \A s \in Streams : WF_vars(Read(s)) /\ WF_vars(Check(s)) /\ WF_vars(EndOfPipe(s))

FairSpec == Spec /\ Fairness

-----------------------------------------------------------------------------
(* Properties *)

\* Type invariant; the accept loop never serves more than MAX_CONCURRENT_CONNECTIONS at once
\* and never keeps more than MAX_RETAINED_DECISIONS decisions.
TypeOK ==
    /\ pc \in DOMAIN OpOf /\ fired \subseteq {"cancelled", "deadline", "timeout"}
    /\ handle \in {"none", "created", "ready", "spent", "possible", "not_created", "conflict"}
    /\ verdict \in {"none", "completed", "not_dispatched", "indeterminate"}
    /\ {made, notice, listening} \subseteq BOOLEAN /\ absent \in {"no", "seen", "blind"}
    /\ root \in {"present", "absent", "link"} /\ ws \in {"absent", "own", "foreign"}
    /\ profile \in {"pinned", "other"} /\ net \in {"deny", "allowlist"}
    /\ proc \in {"none", "running", "exited"} /\ kids \in {"none", "holding", "detached"}
    /\ outcome \in {"none", "exited", "failed", "overflow", "timeout", "deadline", "cancelled"}
    /\ runs \in 0..1 /\ {pipe, wrote, count} \subseteq [Streams -> 0..MaxBytes]
    /\ conn \in [Conns -> {"none", "accepted", "relaying", "closed", "direct"}]
    /\ Cardinality(Live) <= MaxConcurrent /\ Cardinality(logged) <= MaxRetained

Contract == INSTANCE SandboxRuntime WITH
    op <- OpOf[pc],
    absent <- absent = "seen",
    owned <- IF ~made THEN "never" ELSE IF ws = "own" THEN "live" ELSE "gone"

\* The native runtime keeps the contract of the SandboxRuntime trait: not_created and conflict
\* prove that no workspace was made, not_dispatched that nothing was spawned, and a deletion
\* confirmed by a lookup that worked that the workspace is gone, whatever is pruned, replaced
\* or crashes meanwhile.  An Ok of wait_deleted after a stat that failed is not one of those.
ImplementsContract == Contract!Spec

\* The two readers of one execution never keep more together than the combined limit, in
\* whatever order they count and check (read_bounded), where a Relaxed load does not miss
\* what the other reader has counted.
KeptWithinLimits == ~StaleLoads => rd["out"].kept + rd["err"].kept <= CombinedBytes

\* An execution reported completed returns all that was ever written, unless a read failed:
\* the process is observed first, the pipes are drained afterwards (exec).
CompletedIsWhole ==
    verdict = "completed" => \A s \in Streams : rd[s].broken \/ rd[s].kept = wrote[s]

\* The output that exec reports: within the limits, and all there was.
OutputIsSound == KeptWithinLimits /\ CompletedIsWhole

\* When exec has returned, its evidence is final: the accept loop is over, none of its
\* connections is served any more, and each that was relayed is in the evidence unless the
\* list was full (serve, finish).  What a command under bwrap reaches without the proxy is
\* in no evidence.
EvidenceIsFinal ==
    OpOf[pc] # "exec" =>
        /\ ~listening /\ Live = {}
        /\ relayed \subseteq logged \/ Cardinality(logged) = MaxRetained

\* Every operation returns: an execution is ended by its deadline whatever the command does,
\* where the runner's processes die with it (bwrap) and so let go of the pipes.
OperationsReturn == pc # "idle" ~> pc = "idle"
=============================================================================
