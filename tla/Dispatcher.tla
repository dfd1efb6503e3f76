------------------------------ MODULE Dispatcher ------------------------------
(***************************************************************************)
(* The governed dispatcher (src/dispatcher/mod.rs) over its durable record *)
(* store (src/dispatcher/store.rs): one logical command is governed, then  *)
(* executed at most once on the host or in a fresh sandbox, and its        *)
(* sandbox is cleaned up, although any process may crash between two steps *)
(* and any write may fail.                                                 *)
(*                                                                         *)
(* Several processes may share a state directory.  An operation holds the  *)
(* exclusive lock of the directory from start to end, so one operation is  *)
(* in progress at a time, and the kernel releases the lock of a process    *)
(* that dies.  The caches are per process.  A command that fails           *)
(* validation, has another digest than its record, or resumes without a    *)
(* record is refused before anything changes and is not an action.         *)
(* The host executor, the governance client and the sandbox runtime are    *)
(* the traits the dispatcher calls, by what it may rely on.                *)
(***************************************************************************)
EXTENDS Naturals

CONSTANTS
    Dispatch,    \* identities of logical commands
    Proc,        \* processes that use the state directory
    NoDispatch,  \* no command
    NoProc,      \* no process
    MaxCrashes   \* bound: crashes of processes

ASSUME DispatcherAssumption ==
    /\ NoDispatch \notin Dispatch
    /\ NoProc \notin Proc
    /\ MaxCrashes \in Nat

VARIABLES
    disk,      \* the durable dispatch records
    cache,     \* the terminal_cache of each process
    lock,      \* the process that holds the directory lock
    pc,        \* where the operation in progress is
    mode,      \* which operation it is
    cur,       \* the command it works on
    res,       \* the result it has put together
    todo,      \* the records reconcile_all has yet to visit
    inflight,  \* the executor that was sent a command and has not run it
    ran,       \* history: runs of a command, by executor
    box,       \* the sandbox at the provider; "stray" if it was reported absent and is there
    late,      \* a Create that was given up in flight, and whether absence was reported since
    verdict,   \* history: the verdict that selected an executor
    told,      \* history: the answers given for a command
    crashes    \* bound: crashes so far

operation == <<lock, pc, mode, cur, res, todo>>
world == <<inflight, ran, box, late>>
vars == <<disk, cache, operation, world, verdict, told, crashes>>

-----------------------------------------------------------------------------
Executor == {"Host", "Sandbox"}
RecordStage == {"GovernancePending", "HostDispatchPossible",
                "SandboxCreatePossible", "SandboxReady",
                "SandboxDispatchPossible", "Terminal"}
DispatchState == {"NotDispatched", "PossiblyDispatched", "Completed"}
CleanupState == {"NotNeeded", "ConfirmedAbsent", "PendingReconciliation"}

\* A stage or an executor "none" stands for no file and no executor.  A record
\* has a cleanup_id exactly if its executor is the sandbox.
DispatchRecord == [stage : RecordStage \cup {"none"},
                   exec : Executor \cup {"none"},
                   state : DispatchState, cleanup : CleanupState]
GovernedResult == [exec : Executor \cup {"none"}, state : DispatchState,
                   cleanup : CleanupState]
\* An answer rests on the record, or was given without having read one.
Answer == [state : DispatchState, cleanup : CleanupState,
           by : {"record", "nothing"}]

Rec(stage, exec, state, cleanup) ==
    [stage |-> stage, exec |-> exec, state |-> state, cleanup |-> cleanup]
Res(exec, state, cleanup) ==
    [exec |-> exec, state |-> state, cleanup |-> cleanup]

NoRecord == Rec("none", "none", "NotDispatched", "NotNeeded")
NoResult == Res("none", "NotDispatched", "NotNeeded")
Uncached == Res("uncached", "NotDispatched", "NotNeeded")

\* The records the operations write.
new_record == Rec("GovernancePending", "none", "NotDispatched", "NotNeeded")
select_host == Rec("HostDispatchPossible", "Host", "PossiblyDispatched", "NotNeeded")
select_sandbox == Rec("SandboxCreatePossible", "Sandbox", "NotDispatched",
                      "PendingReconciliation")
sandbox_ready == Rec("SandboxReady", "Sandbox", "NotDispatched",
                     "PendingReconciliation")
sandbox_dispatch_possible == Rec("SandboxDispatchPossible", "Sandbox",
                                 "PossiblyDispatched", "PendingReconciliation")

\* Fault: the execution outcome is stored as the dispatch state.
terminal_outcome(r) ==
    Rec("Terminal", r.exec,
        IF r.state = "NotDispatched" THEN "NotExecuted" ELSE r.state, r.cleanup)

terminal(r) == Rec("Terminal", r.exec, r.state, r.cleanup)

replay_result(d) == Res(disk[d].exec, disk[d].state, disk[d].cleanup)

Outcome == {"ok", "error"}

\* A write that reports a failure may have replaced the record all the same.
write(d, r, out) ==
    \/ disk' = [disk EXCEPT ![d] = r]
    \/ out = "error" /\ UNCHANGED disk

Pc == {"idle", "governance", "host_call", "host_wait", "create_call",
       "ready_call", "ready_write", "fence_write", "exec_call", "exec_wait",
       "delete_call", "gone_call", "finish", "recon_next"}

\* Every value is one the types of store.rs and types.rs allow, and the lock is
\* held exactly while an operation is in progress.
TypeOK ==
    /\ disk \in [Dispatch -> DispatchRecord]
    /\ cache \in [Proc -> [Dispatch -> GovernedResult \cup {Uncached}]]
    /\ lock \in Proc \cup {NoProc}
    /\ pc \in Pc
    /\ mode \in {"none", "execute", "resume", "reconcile"}
    /\ cur \in Dispatch \cup {NoDispatch}
    /\ res \in GovernedResult
    /\ todo \in SUBSET Dispatch
    /\ inflight \in [Dispatch -> Executor \cup {"none"}]
    /\ ran \in [Dispatch -> [Executor -> Nat]]
    /\ box \in [Dispatch -> {"absent", "live", "deleting", "stray"}]
    /\ late \in [Dispatch -> {"none", "open", "seen"}]
    /\ verdict \in [Dispatch -> {"none", "Allow", "Constrain"}]
    /\ told \in [Dispatch -> SUBSET Answer]
    /\ crashes \in Nat
    /\ lock = NoProc <=> pc = "idle"

Init ==
    /\ disk = [d \in Dispatch |-> NoRecord]
    /\ cache = [p \in Proc |-> [d \in Dispatch |-> Uncached]]
    /\ lock = NoProc
    /\ pc = "idle"
    /\ mode = "none"
    /\ cur = NoDispatch
    /\ res = NoResult
    /\ todo = {}
    /\ inflight = [d \in Dispatch |-> "none"]
    /\ ran = [d \in Dispatch |-> [e \in Executor |-> 0]]
    /\ box = [d \in Dispatch |-> "absent"]
    /\ late = [d \in Dispatch |-> "none"]
    /\ verdict = [d \in Dispatch |-> "none"]
    /\ told = [d \in Dispatch |-> {}]
    /\ crashes = 0

-----------------------------------------------------------------------------
(***************************************************************************)
(* Building blocks.                                                        *)
(***************************************************************************)
\* Process p takes the directory lock and works on command d.
Acquire(p, m, d, at) ==
    /\ lock = NoProc
    /\ lock' = p
    /\ mode' = m
    /\ cur' = d
    /\ pc' = at

Release ==
    /\ lock' = NoProc
    /\ mode' = "none"
    /\ cur' = NoDispatch
    /\ pc' = "idle"
    /\ res' = NoResult
    /\ todo' = {}

Goto(at) == pc' = at /\ UNCHANGED <<lock, mode, cur, todo>>

Tell(d, r, by) ==
    told' = [told EXCEPT ![d] =
                @ \cup {[state |-> r.state, cleanup |-> r.cleanup, by |-> by]}]

persistence_result(exec) ==
    Res(exec, "NotDispatched",
        IF exec = "Sandbox" THEN "PendingReconciliation" ELSE "NotNeeded")

-----------------------------------------------------------------------------
(***************************************************************************)
(* execute_locked up to the choice of an executor.                         *)
(***************************************************************************)
\* Fault: a command that may have been sent to the host is tried again.
ExecuteRetries(p, d) ==
    /\ disk[d].stage \in {"none", "HostDispatchPossible"}
    /\ write(d, new_record, "ok")
    /\ Acquire(p, "execute", d, "governance")
    /\ UNCHANGED <<cache, res, todo, world, verdict, told, crashes>>

\* There is no record: the first one is written before governance is asked.
Execute(p, d) ==
    /\ disk[d].stage = "none"
    /\ write(d, new_record, "ok")
    /\ Acquire(p, "execute", d, "governance")
    /\ UNCHANGED <<cache, res, todo, world, verdict, told, crashes>>

\* The first write fails; nothing else was done.
ExecuteUnwritten(d) ==
    /\ lock = NoProc
    /\ disk[d].stage = "none"
    /\ write(d, new_record, "error")
    /\ Tell(d, persistence_result("none"), "nothing")
    /\ UNCHANGED <<cache, operation, world, verdict, crashes>>

\* The lock file cannot be opened or the record cannot be read.  A process asks
\* for one lock at a time.
ExecuteUnread(p, d) ==
    /\ lock # p
    /\ Tell(d, persistence_result("none"), "nothing")
    /\ UNCHANGED <<disk, cache, operation, world, verdict, crashes>>

ExecuteCached(p, d) ==
    /\ lock = NoProc
    /\ disk[d].stage # "none"
    /\ cache[p][d] # Uncached
    /\ Tell(d, cache[p][d], "record")
    /\ UNCHANGED <<disk, cache, operation, world, verdict, crashes>>

ExecuteReplays(p, d) ==
    /\ lock = NoProc
    /\ disk[d].stage # "none"
    /\ cache[p][d] = Uncached
    /\ disk[d].cleanup # "PendingReconciliation"
    /\ Tell(d, replay_result(d), "record")
    /\ UNCHANGED <<disk, cache, operation, world, verdict, crashes>>

\* The sandbox of an earlier attempt is cleaned up before the replay.
ExecuteResumes(p, d) ==
    /\ disk[d].stage # "none"
    /\ cache[p][d] = Uncached
    /\ disk[d].cleanup = "PendingReconciliation"
    /\ Acquire(p, "resume", d, "delete_call")
    /\ UNCHANGED <<disk, cache, res, todo, world, verdict, told, crashes>>

\* Governance is unavailable, its response is rejected, or the verdict is
\* RequireApproval, Block or Halt.
GovernanceDeclines ==
    /\ pc = "governance"
    /\ res' = Res("none", "NotDispatched", "NotNeeded")
    /\ Goto("finish")
    /\ UNCHANGED <<disk, cache, world, verdict, told, crashes>>

\* HostDispatchPossible is durable before the host is called.
GovernanceAllows ==
    /\ pc = "governance"
    /\ verdict' = [verdict EXCEPT ![cur] = "Allow"]
    /\ write(cur, select_host, "ok")
    /\ Goto("host_call")
    /\ UNCHANGED <<cache, res, world, told, crashes>>

\* SandboxCreatePossible, with the cleanup_id, is durable before the create.
GovernanceConstrains ==
    /\ pc = "governance"
    /\ verdict' = [verdict EXCEPT ![cur] = "Constrain"]
    /\ write(cur, select_sandbox, "ok")
    /\ Goto("create_call")
    /\ UNCHANGED <<cache, res, world, told, crashes>>

\* The executor was selected but its record could not be written.
AllowFails ==
    /\ pc = "governance"
    /\ verdict' = [verdict EXCEPT ![cur] = "Allow"]
    /\ write(cur, select_host, "error")
    /\ Tell(cur, persistence_result("Host"), "record")
    /\ Release
    /\ UNCHANGED <<cache, world, crashes>>

ConstrainFails ==
    /\ pc = "governance"
    /\ verdict' = [verdict EXCEPT ![cur] = "Constrain"]
    /\ write(cur, select_sandbox, "error")
    /\ Tell(cur, persistence_result("Sandbox"), "record")
    /\ Release
    /\ UNCHANGED <<cache, world, crashes>>

-----------------------------------------------------------------------------
(***************************************************************************)
(* The executors.  A command that was sent may run at any later time, even *)
(* after the dispatcher gave up waiting, but in a sandbox only while that  *)
(* exists.  Only an executor that knows that it has not run the command    *)
(* and will not run it says NotDispatched.                                 *)
(***************************************************************************)
Send(e) == inflight' = [inflight EXCEPT ![cur] = e]

Run(d) ==
    /\ inflight[d] # "none"
    /\ inflight[d] = "Sandbox" => box[d] # "absent"
    /\ ran' = [ran EXCEPT ![d][inflight[d]] = @ + 1]
    /\ inflight' = [inflight EXCEPT ![d] = "none"]
    /\ UNCHANGED <<disk, cache, operation, box, late, verdict, told, crashes>>

\* What an executor answers about the command that it was sent.
Returns(e, state) ==
    \/ state = "Completed" /\ ran[cur][e] # 0 /\ UNCHANGED inflight
    \/ state = "PossiblyDispatched" /\ UNCHANGED inflight
    \/ /\ state = "NotDispatched"
       /\ inflight[cur] = e
       /\ inflight' = [inflight EXCEPT ![cur] = "none"]

HostCall ==
    /\ pc = "host_call"
    /\ Send("Host")
    /\ Goto("host_wait")
    /\ UNCHANGED <<disk, cache, res, ran, box, late, verdict, told, crashes>>

\* Fault: a host that does not answer in time counts as not dispatched.
HostTimeoutDenied ==
    /\ pc = "host_wait"
    /\ \E state \in DispatchState :
        /\ Returns("Host", state)
        /\ res' = Res("Host", IF state = "Completed" THEN state ELSE "NotDispatched",
                      "NotNeeded")
    /\ Goto("finish")
    /\ UNCHANGED <<disk, cache, ran, box, late, verdict, told, crashes>>

execute_host ==
    /\ pc = "host_wait"
    /\ \E state \in DispatchState :
        /\ Returns("Host", state)
        /\ res' = Res("Host", state, "NotNeeded")
    /\ Goto("finish")
    /\ UNCHANGED <<disk, cache, ran, box, late, verdict, told, crashes>>

-----------------------------------------------------------------------------
(***************************************************************************)
(* execute_sandbox.                                                        *)
(***************************************************************************)
CreateOk ==
    /\ pc = "create_call"
    /\ box' = [box EXCEPT ![cur] = "live"]
    /\ Goto("ready_call")
    /\ UNCHANGED <<disk, cache, res, inflight, ran, late, verdict, told, crashes>>

\* The create failed with a cleanup target: the sandbox may exist, or be made later, since
\* the call is dropped with its budget.
CreatePossible ==
    /\ pc = "create_call"
    /\ \/ box' \in {box, [box EXCEPT ![cur] = "live"]} /\ UNCHANGED late
       \/ late' = [late EXCEPT ![cur] = "open"] /\ UNCHANGED box
    /\ res' = Res("Sandbox", "NotDispatched", "PendingReconciliation")
    /\ Goto("delete_call")
    /\ UNCHANGED <<disk, cache, inflight, ran, verdict, told, crashes>>

\* The create failed without a cleanup target: there is nothing to clean up.
CreateNothing ==
    /\ pc = "create_call"
    /\ res' = Res("Sandbox", "NotDispatched", "NotNeeded")
    /\ Goto("finish")
    /\ UNCHANGED <<disk, cache, world, verdict, told, crashes>>

\* Not ready, or ready under another policy: the sandbox is cleaned up.
WaitReady ==
    /\ pc = "ready_call"
    /\ \/ Goto("ready_write") /\ UNCHANGED res
       \/ /\ Goto("delete_call")
          /\ res' = Res("Sandbox", "NotDispatched", "PendingReconciliation")
    /\ UNCHANGED <<disk, cache, world, verdict, told, crashes>>

WriteReady ==
    /\ pc = "ready_write"
    /\ write(cur, sandbox_ready, "ok")
    /\ Goto("fence_write")
    /\ UNCHANGED <<cache, res, world, verdict, told, crashes>>

\* SandboxDispatchPossible is durable before the command is sent.
WriteDispatchPossible ==
    /\ pc = "fence_write"
    /\ write(cur, sandbox_dispatch_possible, "ok")
    /\ Goto("exec_call")
    /\ UNCHANGED <<cache, res, world, verdict, told, crashes>>

\* A record that cannot be written ends the attempt.
WriteFails ==
    /\ pc \in {"ready_write", "fence_write"}
    /\ write(cur, IF pc = "ready_write" THEN sandbox_ready
                                       ELSE sandbox_dispatch_possible, "error")
    /\ res' = Res("Sandbox", "NotDispatched", "PendingReconciliation")
    /\ Goto("delete_call")
    /\ UNCHANGED <<cache, world, verdict, told, crashes>>

ExecCall ==
    /\ pc = "exec_call"
    /\ Send("Sandbox")
    /\ Goto("exec_wait")
    /\ UNCHANGED <<disk, cache, res, ran, box, late, verdict, told, crashes>>

ExecReturns ==
    /\ pc = "exec_wait"
    /\ \E state \in DispatchState :
        /\ Returns("Sandbox", state)
        /\ res' = Res("Sandbox", state, "PendingReconciliation")
    /\ Goto("delete_call")
    /\ UNCHANGED <<disk, cache, ran, box, late, verdict, told, crashes>>

-----------------------------------------------------------------------------
(***************************************************************************)
(* cleanup, finish and reconciliation.                                     *)
(***************************************************************************)
\* The result of the delete is ignored: only a report of absence counts.
CleanupDelete ==
    /\ pc = "delete_call"
    /\ \/ UNCHANGED box
       \/ box[cur] = "live" /\ box' = [box EXCEPT ![cur] = "deleting"]
       \/ box[cur] = "stray" /\ box' = [box EXCEPT ![cur] = "absent"]
    /\ Goto("gone_call")
    /\ UNCHANGED <<disk, cache, res, inflight, ran, late, verdict, told, crashes>>

\* wait_deleted reports absence: the sandbox is gone, or it is there and was not seen.  A
\* Create that is still in flight is not seen either.
WaitDeletedOk ==
    /\ box[cur] # "deleting"
    /\ box' = [box EXCEPT ![cur] = IF @ = "absent" THEN "absent" ELSE "stray"]
    /\ late' = [late EXCEPT ![cur] = IF @ = "open" THEN "seen" ELSE @]

CleanupConfirmed ==
    /\ pc = "gone_call"
    /\ mode = "execute"
    /\ WaitDeletedOk
    /\ res' = [res EXCEPT !.cleanup = "ConfirmedAbsent"]
    /\ Goto("finish")
    /\ UNCHANGED <<disk, cache, inflight, ran, verdict, told, crashes>>

CleanupPending ==
    /\ pc = "gone_call"
    /\ mode = "execute"
    /\ res' = [res EXCEPT !.cleanup = "PendingReconciliation"]
    /\ Goto("finish")
    /\ UNCHANGED <<disk, cache, world, verdict, told, crashes>>

\* The terminal record may fail to be written; the cache has the result anyway.
finish ==
    /\ pc = "finish"
    /\ \E out \in Outcome : write(cur, terminal(res), out)
    /\ cache' = [cache EXCEPT ![lock][cur] = res]
    /\ Tell(cur, res, "record")
    /\ Release
    /\ UNCHANGED <<world, verdict, crashes>>

\* After a record was visited: a resumed command is answered from its record as
\* it is in memory, reconcile_all goes on to the next record.
Visited(r) ==
    \/ mode = "resume" /\ Tell(cur, r, "record") /\ Release
    \/ mode = "reconcile" /\ Goto("recon_next") /\ UNCHANGED <<told, res>>

\* Fault: the whole record is put together anew.
ReconcileRewrites ==
    /\ pc = "gone_call"
    /\ mode \in {"resume", "reconcile"}
    /\ WaitDeletedOk
    /\ \E out \in Outcome :
        write(cur, terminal(Res("Sandbox", "NotDispatched", "ConfirmedAbsent")), out)
    /\ Visited([replay_result(cur) EXCEPT !.cleanup = "ConfirmedAbsent"])
    /\ UNCHANGED <<cache, inflight, ran, verdict, crashes>>

\* Fault: the cached result is not updated.
ReconcileUncached ==
    /\ pc = "gone_call"
    /\ mode \in {"resume", "reconcile"}
    /\ WaitDeletedOk
    /\ \E out \in Outcome :
        write(cur, [disk[cur] EXCEPT !.cleanup = "ConfirmedAbsent"], out)
    /\ Visited([replay_result(cur) EXCEPT !.cleanup = "ConfirmedAbsent"])
    /\ UNCHANGED <<cache, inflight, ran, verdict, crashes>>

reconcile_record ==
    /\ pc = "gone_call"
    /\ mode \in {"resume", "reconcile"}
    /\ WaitDeletedOk
    /\ \E out \in Outcome :
        write(cur, [disk[cur] EXCEPT !.cleanup = "ConfirmedAbsent"], out)
    /\ cache' = IF cache[lock][cur] = Uncached
                  THEN cache
                  ELSE [cache EXCEPT ![lock][cur].cleanup = "ConfirmedAbsent"]
    /\ Visited([replay_result(cur) EXCEPT !.cleanup = "ConfirmedAbsent"])
    /\ UNCHANGED <<inflight, ran, verdict, crashes>>

ReconcileFails ==
    /\ pc = "gone_call"
    /\ mode \in {"resume", "reconcile"}
    /\ Visited(replay_result(cur))
    /\ UNCHANGED <<disk, cache, world, verdict, crashes>>

\* reconcile_all: every record is loaded once, under the lock.
reconcile_all(p) ==
    /\ Acquire(p, "reconcile", NoDispatch, "recon_next")
    /\ todo' = {d \in Dispatch : disk[d].cleanup = "PendingReconciliation"}
    /\ UNCHANGED <<disk, cache, res, world, verdict, told, crashes>>

ReconcileNext(d) ==
    /\ pc = "recon_next"
    /\ d \in todo
    /\ todo' = todo \ {d}
    /\ cur' = d
    /\ pc' = "delete_call"
    /\ UNCHANGED <<disk, cache, lock, mode, res, world, verdict, told, crashes>>

ReconcileDone ==
    /\ pc = "recon_next"
    /\ todo = {}
    /\ Release
    /\ UNCHANGED <<disk, cache, world, verdict, told, crashes>>

-----------------------------------------------------------------------------
\* The cache of process p is lost; its operation ends and its lock is released.  The
\* provider may still apply a Create that was in flight.
Crash(p) ==
    /\ crashes < MaxCrashes
    /\ crashes' = crashes + 1
    /\ cache' = [cache EXCEPT ![p] = [d \in Dispatch |-> Uncached]]
    /\ IF lock = p THEN Release ELSE UNCHANGED operation
    /\ \/ UNCHANGED late
       \/ lock = p /\ pc = "create_call" /\ late' = [late EXCEPT ![cur] = "open"]
    /\ UNCHANGED <<disk, inflight, ran, box, verdict, told>>

\* The provider finishes a deletion it accepted.
ProviderReap(d) ==
    /\ box[d] = "deleting"
    /\ box' = [box EXCEPT ![d] = "absent"]
    /\ UNCHANGED <<disk, cache, operation, inflight, ran, late, verdict, told, crashes>>

\* The provider applies a Create whose caller is gone.
ProviderLate(d) ==
    /\ late[d] # "none" /\ box[d] = "absent"
    /\ box' = [box EXCEPT ![d] = IF late[d] = "open" THEN "live" ELSE "stray"]
    /\ late' = [late EXCEPT ![d] = "none"]
    /\ UNCHANGED <<disk, cache, operation, inflight, ran, verdict, told, crashes>>

-----------------------------------------------------------------------------
Submit ==
    \/ \E d \in Dispatch : ExecuteUnwritten(d)
    \/ \E p \in Proc, d \in Dispatch :
        \/ Execute(p, d) \/ ExecuteUnread(p, d) \/ ExecuteCached(p, d)
        \/ ExecuteReplays(p, d) \/ ExecuteResumes(p, d)
    \/ \E p \in Proc : reconcile_all(p)

Step ==
    \/ GovernanceDeclines \/ GovernanceAllows \/ GovernanceConstrains
    \/ AllowFails \/ ConstrainFails
    \/ HostCall \/ execute_host
    \/ CreateOk \/ CreatePossible \/ CreateNothing
    \/ WaitReady \/ WriteReady \/ WriteDispatchPossible \/ WriteFails
    \/ ExecCall \/ ExecReturns
    \/ CleanupDelete \/ CleanupConfirmed \/ CleanupPending \/ finish
    \/ reconcile_record \/ ReconcileFails
    \/ \E d \in Dispatch : ReconcileNext(d)
    \/ ReconcileDone

Next ==
    \/ Submit
    \/ Step
    \/ \E p \in Proc : Crash(p)
    \/ \E d \in Dispatch : Run(d) \/ ProviderReap(d) \/ ProviderLate(d)

Spec == Init /\ [][Next]_vars

-----------------------------------------------------------------------------
(***************************************************************************)
(* Safety.                                                                 *)
(***************************************************************************)
\* A command runs once at most, on whichever executor, over all calls,
\* processes and crashes.
AtMostOnce == \A d \in Dispatch : ran[d]["Host"] + ran[d]["Sandbox"] <= 1

\* The executor is the one the verdict selected: a constrained command never
\* reaches the host, an allowed one never creates a sandbox.
VerdictObeyed ==
    \A d \in Dispatch :
        /\ ran[d]["Host"] # 0 \/ inflight[d] = "Host" => verdict[d] = "Allow"
        /\ box[d] # "absent" \/ late[d] # "none" => verdict[d] = "Constrain"

\* Once a command may have been sent, its record says so: whoever replays it
\* after a crash does not claim that it was not dispatched.
EffectIsRecorded ==
    \A d \in Dispatch :
        inflight[d] # "none" \/ ran[d]["Host"] + ran[d]["Sandbox"] > 0 =>
            disk[d].state # "NotDispatched"

\* A command for which an answer that rests on the record said NotDispatched
\* has not run and never will.
DeniedNeverRuns ==
    \A d \in Dispatch :
        (\E a \in told[d] : a.by = "record" /\ a.state = "NotDispatched") =>
            ran[d]["Host"] + ran[d]["Sandbox"] = 0 /\ inflight[d] = "none"

\* A command that was reported Completed did run.
CompletedDidRun ==
    \A d \in Dispatch :
        (\E a \in told[d] : a.state = "Completed") =>
            ran[d]["Host"] + ran[d]["Sandbox"] = 1

\* The sandbox exists, or a Create for it may still be applied, and wait_deleted has not
\* reported it absent.  The code takes that report as final.
Exists(d) == box[d] \in {"live", "deleting"} \/ late[d] = "open"

\* A sandbox that exists, or may still be created, is on record as one to reconcile until it
\* was reported absent, whatever crashed and whichever write failed: reconcile_all finds it.
CleanupRetained ==
    \A d \in Dispatch :
        Exists(d) =>
            disk[d].cleanup = "PendingReconciliation" /\ disk[d].exec = "Sandbox"

\* What happens outside is governed and on record: one executor, once, the one of the
\* verdict, with a record that a restart can act on.
EffectsAreGoverned == AtMostOnce /\ VerdictObeyed /\ EffectIsRecorded /\ CleanupRetained

\* A command whose answer on record said that nothing is left to clean up never had a
\* sandbox, or its sandbox was reported absent before.
ClearedIsAbsent ==
    \A d \in Dispatch :
        (\E a \in told[d] :
            a.by = "record" /\ a.cleanup # "PendingReconciliation") =>
            ~Exists(d)

\* What a caller is told of its command is true, then and later; of its sandbox, as true as
\* the report of absence it rests on.
AnswersAreTrue == DeniedNeverRuns /\ CompletedDidRun /\ ClearedIsAbsent

\* A terminal record is final: later operations only confirm its cleanup.
RecordIsFinal ==
    [][\A d \in Dispatch :
        disk[d].stage = "Terminal" =>
            disk'[d] \in {disk[d], [disk[d] EXCEPT !.cleanup = "ConfirmedAbsent"]}]_vars

\* A cached result is not behind the record: with one process, a cleanup that is
\* confirmed on disk is not reported as pending from the cache.
CacheIsFresh ==
    \A p \in Proc, d \in Dispatch :
        cache[p][d].cleanup = "PendingReconciliation" =>
            disk[d].cleanup = "PendingReconciliation"
=============================================================================
