--------------------------- MODULE DispatcherProofs ---------------------------
(***************************************************************************)
(* Proofs about Dispatcher, for any number of commands, processes and      *)
(* crashes.  The inductive invariant Inv is a conjunction of layers:       *)
(*                                                                         *)
(*   TypeOK, Places  types, and which operation may be where;              *)
(*   Fresh           before its first record, and while it is executed,    *)
(*                   nobody has an answer about a command from its record; *)
(*   Progress        what has happened outside at each place;              *)
(*   Effects         one effect at most, of the right executor, on record; *)
(*   Retained        a sandbox is on record from before its creation to    *)
(*                   the report of its absence;                            *)
(*   Truth           records, caches and answers are true.                 *)
(*                                                                         *)
(* There is one lemma per layer, with one step per action.  Actions that   *)
(* write a record use what the write leaves (Changed) and what the answer  *)
(* adds (Added), and a frame lemma for the layer.                          *)
(***************************************************************************)
EXTENDS Dispatcher, TLAPS

-----------------------------------------------------------------------------
\* The command of an operation, and what an operation may be doing.
Places ==
    /\ pc \notin {"idle", "recon_next"} => cur \in Dispatch
    /\ pc \in {"delete_call", "gone_call"} => mode # "none"
    /\ pc = "recon_next" <=> mode = "reconcile" /\ pc \notin {"delete_call", "gone_call"}
    /\ pc \notin {"idle", "recon_next", "delete_call", "gone_call"} => mode = "execute"
    /\ pc = "idle" => mode = "none"
    /\ mode # "reconcile" => todo = {}

\* Command d is being executed.
Executing(d) == mode = "execute" /\ cur = d

\* No executor was sent command d.
Quiet(d) == inflight[d] = "none" /\ ran[d]["Host"] = 0 /\ ran[d]["Sandbox"] = 0

\* Nobody was told anything about d that rests on its record.
Untold(d) ==
    /\ \A a \in told[d] : a.by = "nothing"
    /\ \A p \in Proc : cache[p][d] = Uncached

\* Command d has no sandbox and none is being made.
Unmade(d) == box[d] = "absent" /\ late[d] = "none"

\* Until its first record a command is unknown; while it is executed nobody
\* else is answered from its record.
FreshOf(d) ==
    /\ disk[d].stage = "none" =>
        disk[d] = NoRecord /\ Quiet(d) /\ Untold(d) /\ Unmade(d)
    /\ Executing(d) => Untold(d) /\ disk[d].stage \notin {"none", "Terminal"}
Fresh == \A d \in Dispatch : FreshOf(d)

\* What has happened outside when the operation is at its place.
Progress ==
    /\ pc \in {"governance", "host_call", "create_call", "ready_call",
               "ready_write", "fence_write", "exec_call"} => Quiet(cur)
    /\ pc \in {"governance", "host_call", "host_wait", "create_call"} =>
        Unmade(cur)
    /\ pc \in {"host_call", "host_wait"} => verdict[cur] = "Allow"
    /\ pc \in {"create_call", "ready_call", "ready_write", "fence_write",
               "exec_call", "exec_wait"} => verdict[cur] = "Constrain"
    /\ pc \in {"host_call", "host_wait", "exec_call", "exec_wait"} =>
        disk[cur].state = "PossiblyDispatched"

\* A command that was sent is sent once, to the executor of its verdict, and
\* its record says so.
EffectsOf(d) ==
    /\ ran[d]["Host"] + ran[d]["Sandbox"] <= 1
    /\ inflight[d] # "none" => ran[d]["Host"] = 0 /\ ran[d]["Sandbox"] = 0
    /\ ~Quiet(d) => disk[d].state # "NotDispatched"
    /\ ran[d]["Host"] # 0 \/ inflight[d] = "Host" => verdict[d] = "Allow"
    /\ ~Unmade(d) => verdict[d] = "Constrain"
Effects == \A d \in Dispatch : EffectsOf(d)

\* A record that is to be reconciled names a sandbox.
Pending(r) == r.cleanup = "PendingReconciliation" /\ r.exec = "Sandbox"

\* A sandbox is on record as pending from before its creation to the report of its absence.
RetainedOf(d) ==
    /\ Exists(d) \/ d \in todo => Pending(disk[d])
    /\ disk[d].cleanup = "PendingReconciliation" => disk[d].exec = "Sandbox"
RetainedAt ==
    /\ pc \in {"create_call", "ready_call", "ready_write", "fence_write",
               "exec_call", "exec_wait", "delete_call", "gone_call"} =>
        Pending(disk[cur])
    /\ pc \in {"delete_call", "gone_call"} => cur \notin todo
    /\ mode = "execute" /\ pc \in {"delete_call", "gone_call"} => res.exec = "Sandbox"
    /\ pc = "finish" /\ Exists(cur) => Pending(res)
    /\ pc = "finish" /\ res.cleanup = "PendingReconciliation" => res.exec = "Sandbox"
Retained == (\A d \in Dispatch : RetainedOf(d)) /\ RetainedAt

\* r is true of what was done for command d.
Truthful(d, r) ==
    /\ r.state = "NotDispatched" => Quiet(d)
    /\ r.state = "Completed" => ran[d]["Host"] + ran[d]["Sandbox"] = 1
Clear(d, r) == r.cleanup # "PendingReconciliation" => ~Exists(d)

\* Records, cached results, results being put together and answers are true.
RecordTrue(d) ==
    disk[d].state = "Completed" => ran[d]["Host"] + ran[d]["Sandbox"] = 1
CachedTrue(p, d) ==
    cache[p][d] # Uncached => Truthful(d, cache[p][d]) /\ Clear(d, cache[p][d])
AnswersTrue(d) ==
    \A a \in told[d] :
        /\ a.by = "record" => Truthful(d, a) /\ Clear(d, a)
        /\ a.by = "nothing" => a.state = "NotDispatched"
ResultTrue ==
    mode = "execute" /\ pc \in {"delete_call", "gone_call", "finish"} =>
        Truthful(cur, res)
Truth ==
    /\ \A d \in Dispatch : RecordTrue(d) /\ AnswersTrue(d)
    /\ \A p \in Proc, d \in Dispatch : CachedTrue(p, d)
    /\ ResultTrue

\* The inductive invariant.
Inv == TypeOK /\ Places /\ Fresh /\ Progress /\ Effects /\ Retained /\ Truth

\* What a write of record r for command d leaves: r or the record before it.
Changed(d, r) ==
    /\ disk' \in [Dispatch -> DispatchRecord]
    /\ \A e \in Dispatch : e # d => disk'[e] = disk[e]
    /\ disk'[d] \in {disk[d], r}

\* What telling adds.
Added(d, r, by) ==
    /\ told' \in [Dispatch -> SUBSET Answer]
    /\ \A e \in Dispatch : e # d => told'[e] = told[e]
    /\ told'[d] = told[d] \cup {[state |-> r.state, cleanup |-> r.cleanup, by |-> by]}

\* No sandbox comes to exist that did not before, and that of c does not after the step.
NoneAppears == \A e \in Dispatch : Exists(e)' => Exists(e)
Vanished(c) == \A e \in Dispatch : e = c => ~Exists(e)'

-----------------------------------------------------------------------------
\* The constant records and results have their types.
LEMMA Constants ==
    /\ {NoRecord, new_record, select_host, select_sandbox, sandbox_ready,
        sandbox_dispatch_possible} \subseteq DispatchRecord
    /\ NoResult \in GovernedResult
    /\ \A e \in Executor \cup {"none"} : persistence_result(e) \in GovernedResult
    /\ \A r \in GovernedResult : terminal(r) \in DispatchRecord
BY DEF NoRecord, new_record, select_host, select_sandbox, sandbox_ready,
       sandbox_dispatch_possible, NoResult, persistence_result, terminal, Rec,
       Res, DispatchRecord, GovernedResult, RecordStage, DispatchState,
       CleanupState, Executor

\* A write changes one record, to the new one unless it reports a failure.
LEMMA Written ==
    ASSUME TypeOK, NEW d \in Dispatch, NEW r \in DispatchRecord, NEW out,
           write(d, r, out)
    PROVE  Changed(d, r) /\ (out # "error" => disk'[d] = r)
BY DEF TypeOK, write, Changed

\* Telling a result adds one answer for one command.
LEMMA Told ==
    ASSUME TypeOK, NEW d \in Dispatch, NEW r, r.state \in DispatchState,
           r.cleanup \in CleanupState, NEW by \in {"record", "nothing"},
           Tell(d, r, by)
    PROVE  Added(d, r, by)
BY DEF TypeOK, Tell, Added, Answer

\* Execute writes the first record.
LEMMA ExecuteWrites ==
    ASSUME TypeOK, Places, NEW p \in Proc, NEW d \in Dispatch, Execute(p, d)
    PROVE  /\ d \in Dispatch
           /\ Changed(d, new_record)
           /\ disk'[d] = new_record
<1>1. d \in Dispatch /\ new_record \in DispatchRecord
  BY Constants DEF Execute, Places
<1>2. Changed(d, new_record) /\ disk'[d] = new_record
  BY <1>1, Written DEF Execute
<1> QED BY <1>1, <1>2

\* A first write that fails may leave the first record.
LEMMA ExecuteUnwrittenWrites ==
    ASSUME TypeOK, Places, NEW d \in Dispatch, ExecuteUnwritten(d)
    PROVE  /\ d \in Dispatch
           /\ Changed(d, new_record)
           /\ Added(d, persistence_result("none"), "nothing")
<1>1. d \in Dispatch /\ new_record \in DispatchRecord
  BY Constants DEF ExecuteUnwritten, Places
<1>2. Changed(d, new_record)
  BY <1>1, Written DEF ExecuteUnwritten
<1>3. persistence_result("none").state \in DispatchState /\ persistence_result("none").cleanup \in CleanupState
  BY Constants DEF Executor, GovernedResult
<1>4. Added(d, persistence_result("none"), "nothing")
  BY <1>1, <1>3, Told DEF ExecuteUnwritten
<1> QED BY <1>1, <1>2, <1>4

\* The fence of the host.
LEMMA GovernanceAllowsWrites ==
    ASSUME TypeOK, Places, GovernanceAllows
    PROVE  /\ cur \in Dispatch
           /\ Changed(cur, select_host)
           /\ disk'[cur] = select_host
<1>1. cur \in Dispatch /\ select_host \in DispatchRecord
  BY Constants DEF GovernanceAllows, Places
<1>2. Changed(cur, select_host) /\ disk'[cur] = select_host
  BY <1>1, Written DEF GovernanceAllows
<1> QED BY <1>1, <1>2

\* The fence of the sandbox.
LEMMA GovernanceConstrainsWrites ==
    ASSUME TypeOK, Places, GovernanceConstrains
    PROVE  /\ cur \in Dispatch
           /\ Changed(cur, select_sandbox)
           /\ disk'[cur] = select_sandbox
<1>1. cur \in Dispatch /\ select_sandbox \in DispatchRecord
  BY Constants DEF GovernanceConstrains, Places
<1>2. Changed(cur, select_sandbox) /\ disk'[cur] = select_sandbox
  BY <1>1, Written DEF GovernanceConstrains
<1> QED BY <1>1, <1>2

\* A fence of the host that is not written, or is.
LEMMA AllowFailsWrites ==
    ASSUME TypeOK, Places, AllowFails
    PROVE  /\ cur \in Dispatch
           /\ Changed(cur, select_host)
           /\ Added(cur, persistence_result("Host"), "record")
<1>1. cur \in Dispatch /\ select_host \in DispatchRecord
  BY Constants DEF AllowFails, Places
<1>2. Changed(cur, select_host)
  BY <1>1, Written DEF AllowFails
<1>3. persistence_result("Host").state \in DispatchState /\ persistence_result("Host").cleanup \in CleanupState
  BY Constants DEF Executor, GovernedResult
<1>4. Added(cur, persistence_result("Host"), "record")
  BY <1>1, <1>3, Told DEF AllowFails
<1> QED BY <1>1, <1>2, <1>4

\* A fence of the sandbox that is not written, or is.
LEMMA ConstrainFailsWrites ==
    ASSUME TypeOK, Places, ConstrainFails
    PROVE  /\ cur \in Dispatch
           /\ Changed(cur, select_sandbox)
           /\ Added(cur, persistence_result("Sandbox"), "record")
<1>1. cur \in Dispatch /\ select_sandbox \in DispatchRecord
  BY Constants DEF ConstrainFails, Places
<1>2. Changed(cur, select_sandbox)
  BY <1>1, Written DEF ConstrainFails
<1>3. persistence_result("Sandbox").state \in DispatchState /\ persistence_result("Sandbox").cleanup \in CleanupState
  BY Constants DEF Executor, GovernedResult
<1>4. Added(cur, persistence_result("Sandbox"), "record")
  BY <1>1, <1>3, Told DEF ConstrainFails
<1> QED BY <1>1, <1>2, <1>4

\* The record of a sandbox that is ready.
LEMMA WriteReadyWrites ==
    ASSUME TypeOK, Places, WriteReady
    PROVE  /\ cur \in Dispatch
           /\ Changed(cur, sandbox_ready)
           /\ disk'[cur] = sandbox_ready
<1>1. cur \in Dispatch /\ sandbox_ready \in DispatchRecord
  BY Constants DEF WriteReady, Places
<1>2. Changed(cur, sandbox_ready) /\ disk'[cur] = sandbox_ready
  BY <1>1, Written DEF WriteReady
<1> QED BY <1>1, <1>2

\* The fence of the command in the sandbox.
LEMMA WriteDispatchPossibleWrites ==
    ASSUME TypeOK, Places, WriteDispatchPossible
    PROVE  /\ cur \in Dispatch
           /\ Changed(cur, sandbox_dispatch_possible)
           /\ disk'[cur] = sandbox_dispatch_possible
<1>1. cur \in Dispatch /\ sandbox_dispatch_possible \in DispatchRecord
  BY Constants DEF WriteDispatchPossible, Places
<1>2. Changed(cur, sandbox_dispatch_possible) /\ disk'[cur] = sandbox_dispatch_possible
  BY <1>1, Written DEF WriteDispatchPossible
<1> QED BY <1>1, <1>2

\* The terminal record, and the answer.
LEMMA FinishWrites ==
    ASSUME TypeOK, Places, finish
    PROVE  /\ cur \in Dispatch
           /\ Changed(cur, terminal(res))
           /\ Added(cur, res, "record")
<1>1. cur \in Dispatch /\ terminal(res) \in DispatchRecord
  BY Constants DEF finish, Places, TypeOK
<1>2. Changed(cur, terminal(res))
  BY <1>1, Written DEF finish, Outcome
<1>3. res.state \in DispatchState /\ res.cleanup \in CleanupState
  BY DEF TypeOK, GovernedResult
<1>4. Added(cur, res, "record")
  BY <1>1, <1>3, Told DEF finish
<1> QED BY <1>1, <1>2, <1>4

\* A stage of the sandbox that is not written, or is.
LEMMA WriteFailsWrites ==
    ASSUME TypeOK, Places, WriteFails
    PROVE  /\ cur \in Dispatch
           /\ \/ pc = "ready_write" /\ Changed(cur, sandbox_ready)
              \/ pc = "fence_write" /\ Changed(cur, sandbox_dispatch_possible)
<1>1. cur \in Dispatch
  BY DEF WriteFails, Places
<1>2. CASE pc = "ready_write"
  BY <1>1, <1>2, Written, Constants DEF WriteFails
<1>3. CASE pc = "fence_write"
  BY <1>1, <1>3, Written, Constants DEF WriteFails
<1> QED BY <1>1, <1>2, <1>3 DEF WriteFails

\* An answer for a command whose record was loaded.
LEMMA ReplayType ==
    ASSUME TypeOK, NEW d \in Dispatch
    PROVE  /\ replay_result(d).state = disk[d].state
           /\ replay_result(d).cleanup = disk[d].cleanup
           /\ disk[d].state \in DispatchState /\ disk[d].cleanup \in CleanupState
           /\ [disk[d] EXCEPT !.cleanup = "ConfirmedAbsent"] \in DispatchRecord
           /\ [replay_result(d) EXCEPT !.cleanup = "ConfirmedAbsent"].state = disk[d].state
           /\ [replay_result(d) EXCEPT !.cleanup = "ConfirmedAbsent"].cleanup
                = "ConfirmedAbsent"
<1>1. disk[d] \in DispatchRecord
  BY DEF TypeOK
<1>2. /\ disk[d].state \in DispatchState /\ disk[d].cleanup \in CleanupState
      /\ [disk[d] EXCEPT !.cleanup = "ConfirmedAbsent"] \in DispatchRecord
  BY <1>1 DEF DispatchRecord, CleanupState
<1>3. /\ replay_result(d).state = disk[d].state
      /\ replay_result(d).cleanup = disk[d].cleanup
  BY DEF replay_result, Res
<1>4. /\ [replay_result(d) EXCEPT !.cleanup = "ConfirmedAbsent"].state = disk[d].state
      /\ [replay_result(d) EXCEPT !.cleanup = "ConfirmedAbsent"].cleanup
           = "ConfirmedAbsent"
  BY DEF replay_result, Res
<1> QED BY <1>2, <1>3, <1>4

\* A visited record is answered for, or left for the next.
LEMMA VisitedTells ==
    ASSUME TypeOK, NEW r, r.state \in DispatchState, r.cleanup \in CleanupState,
           cur \in Dispatch, Visited(r)
    PROVE  \/ mode = "resume" /\ Added(cur, r, "record") /\ Release
           \/ mode = "reconcile" /\ Goto("recon_next") /\ UNCHANGED <<told, res>>
BY Told DEF Visited

\* The confirmation of a cleanup, written or not.
LEMMA ReconcileRecordWrites ==
    ASSUME TypeOK, Places, reconcile_record
    PROVE  /\ cur \in Dispatch
           /\ Changed(cur, [disk[cur] EXCEPT !.cleanup = "ConfirmedAbsent"])
           /\ \E r : /\ r.state = disk[cur].state
                     /\ r.cleanup = "ConfirmedAbsent"
                     /\ \/ mode = "resume" /\ Added(cur, r, "record") /\ Release
                        \/ /\ mode = "reconcile" /\ Goto("recon_next")
                           /\ UNCHANGED <<told, res>>
<1>1. cur \in Dispatch
  BY DEF reconcile_record, Places
<1>2. Changed(cur, [disk[cur] EXCEPT !.cleanup = "ConfirmedAbsent"])
  BY <1>1, Written, ReplayType DEF reconcile_record
<1> DEFINE r == [replay_result(cur) EXCEPT !.cleanup = "ConfirmedAbsent"]
<1>3. r.state = disk[cur].state /\ r.cleanup = "ConfirmedAbsent"
  BY <1>1, ReplayType
<1>4. r.state \in DispatchState /\ r.cleanup \in CleanupState
  BY <1>1, <1>3, ReplayType DEF CleanupState
<1>5. Visited(r)
  BY DEF reconcile_record
<1> HIDE DEF r
<1>6. \/ mode = "resume" /\ Added(cur, r, "record") /\ Release
      \/ mode = "reconcile" /\ Goto("recon_next") /\ UNCHANGED <<told, res>>
  BY <1>1, <1>4, <1>5, VisitedTells
<1> QED BY <1>1, <1>2, <1>3, <1>6

\* A cleanup that stays pending is answered as it is on record.
LEMMA ReconcileFailsTells ==
    ASSUME TypeOK, Places, ReconcileFails
    PROVE  /\ cur \in Dispatch
           /\ \E r : /\ r.state = disk[cur].state
                     /\ r.cleanup = disk[cur].cleanup
                     /\ \/ mode = "resume" /\ Added(cur, r, "record") /\ Release
                        \/ /\ mode = "reconcile" /\ Goto("recon_next")
                           /\ UNCHANGED <<told, res>>
<1>1. cur \in Dispatch
  BY DEF ReconcileFails, Places
<1> DEFINE r == replay_result(cur)
<1>2. /\ r.state = disk[cur].state /\ r.cleanup = disk[cur].cleanup
      /\ r.state \in DispatchState /\ r.cleanup \in CleanupState
  BY <1>1, ReplayType
<1>3. Visited(r)
  BY DEF ReconcileFails
<1> HIDE DEF r
<1>4. \/ mode = "resume" /\ Added(cur, r, "record") /\ Release
      \/ mode = "reconcile" /\ Goto("recon_next") /\ UNCHANGED <<told, res>>
  BY <1>1, <1>2, <1>3, VisitedTells
<1> QED BY <1>1, <1>2, <1>4

\* The fields of the records that are written and of the answers without one.
LEMMA Fields ==
    /\ /\ new_record.stage = "GovernancePending" /\ new_record.exec = "none"
       /\ new_record.state = "NotDispatched" /\ new_record.cleanup = "NotNeeded"
    /\ /\ select_host.stage = "HostDispatchPossible" /\ select_host.exec = "Host"
       /\ select_host.state = "PossiblyDispatched" /\ select_host.cleanup = "NotNeeded"
    /\ /\ select_sandbox.stage = "SandboxCreatePossible"
       /\ select_sandbox.state = "NotDispatched" /\ Pending(select_sandbox)
    /\ /\ sandbox_ready.stage = "SandboxReady"
       /\ sandbox_ready.state = "NotDispatched" /\ Pending(sandbox_ready)
    /\ /\ sandbox_dispatch_possible.stage = "SandboxDispatchPossible"
       /\ sandbox_dispatch_possible.state = "PossiblyDispatched"
       /\ Pending(sandbox_dispatch_possible)
    /\ \A e : persistence_result(e).state = "NotDispatched"
    /\ persistence_result("Host").cleanup = "NotNeeded"
    /\ persistence_result("Sandbox").cleanup = "PendingReconciliation"
    /\ persistence_result("none").cleanup = "NotNeeded"
BY DEF new_record, select_host, select_sandbox, sandbox_ready,
       sandbox_dispatch_possible, persistence_result, Rec, Res, Pending

\* The fields of a terminal record are those of the result.
LEMMA TerminalFields ==
    ASSUME NEW r
    PROVE  /\ terminal(r).stage = "Terminal" /\ terminal(r).exec = r.exec
           /\ terminal(r).state = r.state /\ terminal(r).cleanup = r.cleanup
BY DEF terminal, Rec

\* A write for command c disturbs Effects at c only.
LEMMA EffectsFrame ==
    ASSUME NEW c \in Dispatch, Effects, UNCHANGED <<ran, inflight, box, late>>,
           \A e \in Dispatch : e # c => disk'[e] = disk[e] /\ verdict'[e] = verdict[e],
           Quiet(c) \/ disk'[c].state # "NotDispatched",
           verdict'[c] = verdict[c] \/ (Quiet(c) /\ Unmade(c))
    PROVE  Effects'
<1> SUFFICES ASSUME NEW e \in Dispatch PROVE EffectsOf(e)'
  BY DEF Effects
<1>1. EffectsOf(e)
  BY DEF Effects
<1>2. CASE e # c
  BY <1>1, <1>2 DEF EffectsOf, Quiet, Unmade
<1>3. CASE e = c /\ Quiet(c)
  BY <1>1, <1>3 DEF EffectsOf, Quiet, Unmade
<1>4. CASE e = c /\ ~Quiet(c)
  BY <1>1, <1>4 DEF EffectsOf, Quiet, Unmade
<1> QED BY <1>2, <1>3, <1>4

\* A write for command c disturbs RetainedOf at c only.
LEMMA RetainedFrame ==
    ASSUME NEW c \in Dispatch, \A d \in Dispatch : RetainedOf(d), NoneAppears,
           \A e \in Dispatch : e # c => disk'[e] = disk[e],
           todo' \subseteq todo, c \notin todo',
           Vanished(c) \/ Pending(disk'[c]),
           disk'[c].cleanup = "PendingReconciliation" => disk'[c].exec = "Sandbox"
    PROVE  \A d \in Dispatch : RetainedOf(d)'
BY DEF RetainedOf, Pending, NoneAppears, Vanished

\* A write for command c disturbs RecordTrue at c only.
LEMMA RecordsFrame ==
    ASSUME NEW c \in Dispatch, Truth, UNCHANGED ran,
           \A e \in Dispatch : e # c => disk'[e] = disk[e],
           \/ disk'[c].state = disk[c].state
           \/ disk'[c].state = "Completed" => ran[c]["Host"] + ran[c]["Sandbox"] = 1
    PROVE  \A d \in Dispatch : RecordTrue(d)'
BY DEF Truth, RecordTrue

\* An answer for command c that is true leaves all answers true.
LEMMA AnswersFrame ==
    ASSUME NEW c \in Dispatch, NEW r, NEW by, Truth, UNCHANGED ran, NoneAppears,
           \A e \in Dispatch : Quiet(e) => Quiet(e)',
           Added(c, r, by),
           by = "record" => Truthful(c, r) /\ (Clear(c, r) \/ Vanished(c)),
           by = "nothing" => r.state = "NotDispatched"
    PROVE  \A d \in Dispatch : AnswersTrue(d)'
<1> DEFINE new == [state |-> r.state, cleanup |-> r.cleanup, by |-> by]
<1> SUFFICES ASSUME NEW d \in Dispatch, NEW a \in told'[d]
             PROVE  /\ a.by = "record" => Truthful(d, a)' /\ Clear(d, a)'
                    /\ a.by = "nothing" => a.state = "NotDispatched"
  BY DEF AnswersTrue
<1>1. a \in told[d] \/ (d = c /\ a = new)
  BY DEF Added
<1>2. CASE a \in told[d]
  <2>1. /\ a.by = "record" => Truthful(d, a) /\ Clear(d, a)
        /\ a.by = "nothing" => a.state = "NotDispatched"
    BY <1>2 DEF Truth, AnswersTrue
  <2> QED BY <2>1 DEF Truthful, Clear, NoneAppears, Vanished
<1>3. CASE d = c /\ a = new
  <2>1. a.by = by /\ a.state = r.state /\ a.cleanup = r.cleanup
    BY <1>3
  <2> QED BY <1>3, <2>1 DEF Truthful, Clear, NoneAppears, Vanished
<1> QED BY <1>1, <1>2, <1>3

\* No new answer leaves all answers true.
LEMMA AnswersSame ==
    ASSUME Truth, UNCHANGED <<ran, told>>, NoneAppears,
           \A e \in Dispatch : Quiet(e) => Quiet(e)'
    PROVE  \A d \in Dispatch : AnswersTrue(d)'
BY DEF Truth, AnswersTrue, Truthful, Clear, NoneAppears

\* A cached result that is true leaves the caches true.
LEMMA CacheFrame ==
    ASSUME Truth, UNCHANGED ran, NoneAppears,
           \A e \in Dispatch : Quiet(e) => Quiet(e)',
           \A p \in Proc, e \in Dispatch :
              \/ cache'[p][e] = cache[p][e]
              \/ Truthful(e, cache'[p][e]) /\ (Clear(e, cache'[p][e]) \/ Vanished(e))
    PROVE  \A p \in Proc, d \in Dispatch : CachedTrue(p, d)'
<1> SUFFICES ASSUME NEW p \in Proc, NEW d \in Dispatch, cache'[p][d] # Uncached
             PROVE  Truthful(d, cache[p][d])' /\ Clear(d, cache[p][d])'
  BY DEF CachedTrue, Uncached
<1>1. Truthful(d, cache'[p][d]) /\ (Clear(d, cache'[p][d]) \/ Vanished(d))
  BY DEF Truth, CachedTrue
<1> QED BY <1>1 DEF Truthful, Clear, NoneAppears, Vanished

-----------------------------------------------------------------------------
\* The types are kept by every step.
LEMMA TypeStep ==
    ASSUME TypeOK, Places, [Next]_vars
    PROVE  TypeOK'
<1> USE DEF operation, world, TypeOK, Places, Pc, NoResult, Uncached, Res,
        DispatchRecord, GovernedResult, Answer, RecordStage, DispatchState,
        CleanupState, Executor
<1>1. ASSUME NEW p \in Proc, NEW d \in Dispatch, Execute(p, d) PROVE TypeOK'
  <2>1. /\ d \in Dispatch
        /\ Changed(d, new_record)
        /\ disk'[d] = new_record
    <3> HIDE DEF TypeOK, Places, Res
    <3> QED BY <1>1, ExecuteWrites
  <2> QED BY <1>1, <2>1, DispatcherAssumption DEF Execute, Acquire,
             new_record, Rec, Changed, Added
<1>2. ASSUME NEW d \in Dispatch, ExecuteUnwritten(d) PROVE TypeOK'
  <2>1. /\ d \in Dispatch
        /\ Changed(d, new_record)
        /\ Added(d, persistence_result("none"), "nothing")
    <3> HIDE DEF TypeOK, Places, Res
    <3> QED BY <1>2, ExecuteUnwrittenWrites
  <2> QED BY <1>2, <2>1 DEF ExecuteUnwritten, persistence_result, new_record,
             Rec, Res, Changed, Added
<1>3. ASSUME NEW p \in Proc, NEW d \in Dispatch, ExecuteUnread(p, d) PROVE TypeOK'
  BY <1>3 DEF ExecuteUnread, Tell, persistence_result, Res
<1>4. ASSUME NEW p \in Proc, NEW d \in Dispatch, ExecuteCached(p, d) PROVE TypeOK'
  BY <1>4 DEF ExecuteCached, Tell
<1>5. ASSUME NEW p \in Proc, NEW d \in Dispatch, ExecuteReplays(p, d) PROVE TypeOK'
  BY <1>5 DEF ExecuteReplays, Tell, replay_result, Res
<1>6. ASSUME NEW p \in Proc, NEW d \in Dispatch, ExecuteResumes(p, d) PROVE TypeOK'
  BY <1>6, DispatcherAssumption DEF ExecuteResumes, Acquire
<1>7. ASSUME NEW p \in Proc, reconcile_all(p) PROVE TypeOK'
  BY <1>7, DispatcherAssumption DEF reconcile_all, Acquire
<1>8. ASSUME GovernanceDeclines PROVE TypeOK'
  BY <1>8 DEF GovernanceDeclines, Goto, Res
<1>9. ASSUME GovernanceAllows PROVE TypeOK'
  <2>1. /\ cur \in Dispatch
        /\ Changed(cur, select_host)
        /\ disk'[cur] = select_host
    <3> HIDE DEF TypeOK, Places, Res
    <3> QED BY <1>9, GovernanceAllowsWrites
  <2> QED BY <1>9, <2>1 DEF GovernanceAllows, Goto, select_host, Rec, Changed,
             Added
<1>10. ASSUME GovernanceConstrains PROVE TypeOK'
  <2>1. /\ cur \in Dispatch
        /\ Changed(cur, select_sandbox)
        /\ disk'[cur] = select_sandbox
    <3> HIDE DEF TypeOK, Places, Res
    <3> QED BY <1>10, GovernanceConstrainsWrites
  <2> QED BY <1>10, <2>1 DEF GovernanceConstrains, Goto, select_sandbox, Rec,
             Changed, Added
<1>11. ASSUME AllowFails PROVE TypeOK'
  <2>1. /\ cur \in Dispatch
        /\ Changed(cur, select_host)
        /\ Added(cur, persistence_result("Host"), "record")
    <3> HIDE DEF TypeOK, Places, Res
    <3> QED BY <1>11, AllowFailsWrites
  <2> QED BY <1>11, <2>1 DEF AllowFails, persistence_result, Release,
             select_host, Rec, Res, NoResult, Changed, Added
<1>12. ASSUME ConstrainFails PROVE TypeOK'
  <2>1. /\ cur \in Dispatch
        /\ Changed(cur, select_sandbox)
        /\ Added(cur, persistence_result("Sandbox"), "record")
    <3> HIDE DEF TypeOK, Places, Res
    <3> QED BY <1>12, ConstrainFailsWrites
  <2> QED BY <1>12, <2>1 DEF ConstrainFails, persistence_result, Release,
             select_sandbox, Rec, Res, NoResult, Changed, Added
<1>13. ASSUME HostCall PROVE TypeOK'
  BY <1>13 DEF HostCall, Goto, Send
<1>14. ASSUME execute_host PROVE TypeOK'
  <2>1. PICK state \in DispatchState : Returns("Host", state)
    BY <1>14 DEF execute_host
  <2>2. inflight' \in [Dispatch -> Executor \cup {"none"}]
    BY <2>1 DEF Returns
  <2>3. res' \in GovernedResult
    BY <1>14 DEF execute_host
  <2> QED BY <1>14, <2>2, <2>3 DEF execute_host, Goto
<1>15. ASSUME CreateOk PROVE TypeOK'
  BY <1>15 DEF CreateOk, Goto
<1>16. ASSUME CreatePossible PROVE TypeOK'
  BY <1>16 DEF CreatePossible, Goto, Res
<1>17. ASSUME CreateNothing PROVE TypeOK'
  BY <1>17 DEF CreateNothing, Goto, Res
<1>18. ASSUME WaitReady PROVE TypeOK'
  BY <1>18 DEF WaitReady, Goto, Res
<1>19. ASSUME WriteReady PROVE TypeOK'
  <2>1. /\ cur \in Dispatch
        /\ Changed(cur, sandbox_ready)
        /\ disk'[cur] = sandbox_ready
    <3> HIDE DEF TypeOK, Places, Res
    <3> QED BY <1>19, WriteReadyWrites
  <2> QED BY <1>19, <2>1 DEF WriteReady, Goto, sandbox_ready, Rec, Changed,
             Added
<1>20. ASSUME WriteDispatchPossible PROVE TypeOK'
  <2>1. /\ cur \in Dispatch
        /\ Changed(cur, sandbox_dispatch_possible)
        /\ disk'[cur] = sandbox_dispatch_possible
    <3> HIDE DEF TypeOK, Places, Res
    <3> QED BY <1>20, WriteDispatchPossibleWrites
  <2> QED BY <1>20, <2>1 DEF WriteDispatchPossible, Goto,
             sandbox_dispatch_possible, Rec, Changed, Added
<1>21. ASSUME WriteFails PROVE TypeOK'
  <2>1. /\ cur \in Dispatch
        /\ \/ pc = "ready_write" /\ Changed(cur, sandbox_ready)
           \/ pc = "fence_write" /\ Changed(cur, sandbox_dispatch_possible)
    <3> HIDE DEF TypeOK, Places, Res
    <3> QED BY <1>21, WriteFailsWrites
  <2> QED BY <1>21, <2>1 DEF WriteFails, Goto, sandbox_ready,
             sandbox_dispatch_possible, Rec, Res, Changed, Added
<1>22. ASSUME ExecCall PROVE TypeOK'
  BY <1>22 DEF ExecCall, Goto, Send
<1>23. ASSUME ExecReturns PROVE TypeOK'
  <2>1. PICK state \in DispatchState : Returns("Sandbox", state)
    BY <1>23 DEF ExecReturns
  <2>2. inflight' \in [Dispatch -> Executor \cup {"none"}]
    BY <2>1 DEF Returns
  <2>3. res' \in GovernedResult
    BY <1>23 DEF ExecReturns
  <2> QED BY <1>23, <2>2, <2>3 DEF ExecReturns, Goto
<1>24. ASSUME CleanupDelete PROVE TypeOK'
  BY <1>24 DEF CleanupDelete, Goto
<1>25. ASSUME CleanupConfirmed PROVE TypeOK'
  BY <1>25 DEF CleanupConfirmed, Goto, WaitDeletedOk
<1>26. ASSUME CleanupPending PROVE TypeOK'
  BY <1>26 DEF CleanupPending, Goto
<1>27. ASSUME finish PROVE TypeOK'
  <2>1. /\ cur \in Dispatch
        /\ Changed(cur, terminal(res))
        /\ Added(cur, res, "record")
    <3> HIDE DEF TypeOK, Places, Res
    <3> QED BY <1>27, FinishWrites
  <2> QED BY <1>27, <2>1 DEF finish, Release, terminal, Rec, Res, NoResult,
             Changed, Added
<1>28. ASSUME reconcile_record PROVE TypeOK'
  <2> HIDE DEF operation, world, TypeOK, Places, Pc, NoResult, Uncached, Res, DispatchRecord, GovernedResult, Answer, RecordStage, DispatchState, CleanupState, Executor
  <2>1. /\ cur \in Dispatch
        /\ Changed(cur, [disk[cur] EXCEPT !.cleanup = "ConfirmedAbsent"])
        /\ \E r : /\ r.state = disk[cur].state
                  /\ r.cleanup = "ConfirmedAbsent"
                  /\ \/ mode = "resume" /\ Added(cur, r, "record") /\ Release
                     \/ /\ mode = "reconcile" /\ Goto("recon_next")
                        /\ UNCHANGED <<told, res>>
    BY <1>28, ReconcileRecordWrites
  <2>2. disk' \in [Dispatch -> DispatchRecord]
    BY <2>1 DEF Changed
  <2>3. cache' \in [Proc -> [Dispatch -> GovernedResult \cup {Uncached}]]
    <3>1. CASE cache[lock][cur] = Uncached
      BY <1>28, <3>1 DEF reconcile_record, TypeOK
    <3>2. CASE cache[lock][cur] # Uncached
      <4>1. lock \in Proc
        BY <1>28 DEF reconcile_record, TypeOK
      <4>2. cache[lock][cur] \in GovernedResult
        BY <2>1, <3>2, <4>1 DEF TypeOK
      <4>3. [cache[lock][cur] EXCEPT !.cleanup = "ConfirmedAbsent"] \in GovernedResult
        BY <4>2 DEF GovernedResult, CleanupState
      <4>4. cache' = [cache EXCEPT ![lock][cur].cleanup = "ConfirmedAbsent"]
        BY <1>28, <3>2 DEF reconcile_record
      <4> QED BY <2>1, <4>1, <4>3, <4>4 DEF TypeOK
    <3> QED BY <3>1, <3>2
  <2>4. told' \in [Dispatch -> SUBSET Answer]
    BY <2>1 DEF Added, TypeOK
  <2>5. /\ lock' \in Proc \cup {NoProc} /\ pc' \in Pc /\ res' \in GovernedResult
        /\ mode' \in {"none", "execute", "resume", "reconcile"}
        /\ cur' \in Dispatch \cup {NoDispatch} /\ todo' \in SUBSET Dispatch
        /\ lock' = NoProc <=> pc' = "idle"
    <3>1. CASE Release
      BY <3>1, Constants DEF Release, Pc
    <3>2. CASE Goto("recon_next") /\ UNCHANGED res
      BY <1>28, <3>2 DEF reconcile_record, Goto, TypeOK, Pc
    <3> QED BY <2>1, <3>1, <3>2
  <2>6. /\ box' \in [Dispatch -> {"absent", "live", "deleting", "stray"}]
        /\ late' \in [Dispatch -> {"none", "open", "seen"}]
    BY <1>28 DEF reconcile_record, WaitDeletedOk, TypeOK
  <2> QED BY <1>28, <2>2, <2>3, <2>4, <2>5, <2>6 DEF reconcile_record, TypeOK
<1>29. ASSUME ReconcileFails PROVE TypeOK'
  <2>1. /\ cur \in Dispatch
        /\ \E r : /\ r.state = disk[cur].state
                  /\ r.cleanup = disk[cur].cleanup
                  /\ \/ mode = "resume" /\ Added(cur, r, "record") /\ Release
                     \/ /\ mode = "reconcile" /\ Goto("recon_next")
                        /\ UNCHANGED <<told, res>>
    <3> HIDE DEF TypeOK, Places, Res
    <3> QED BY <1>29, ReconcileFailsTells
  <2> QED BY <1>29, <2>1 DEF ReconcileFails, Release, Goto, Res, NoResult,
             Changed, Added
<1>30. ASSUME NEW d \in Dispatch, ReconcileNext(d) PROVE TypeOK'
  BY <1>30 DEF ReconcileNext
<1>31. ASSUME ReconcileDone PROVE TypeOK'
  BY <1>31 DEF ReconcileDone, Release, NoResult, Res
<1>32. ASSUME NEW p \in Proc, Crash(p) PROVE TypeOK'
  <2>1. late' \in [Dispatch -> {"none", "open", "seen"}]
    BY <1>32 DEF Crash
  <2>2. cache' \in [Proc -> [Dispatch -> GovernedResult \cup {Uncached}]]
    BY <1>32 DEF Crash
  <2>3. CASE lock = p
    BY <1>32, <2>1, <2>2, <2>3 DEF Crash, Release, NoResult, Res
  <2>4. CASE lock # p
    BY <1>32, <2>1, <2>2, <2>4 DEF Crash
  <2> QED BY <2>3, <2>4
<1>33. ASSUME NEW d \in Dispatch, Run(d) PROVE TypeOK'
  BY <1>33 DEF Run
<1>34. ASSUME NEW d \in Dispatch, ProviderReap(d) PROVE TypeOK'
  BY <1>34 DEF ProviderReap
<1>36. ASSUME NEW d \in Dispatch, ProviderLate(d) PROVE TypeOK'
  BY <1>36 DEF ProviderLate
<1>35. ASSUME UNCHANGED vars PROVE TypeOK'
  BY <1>35 DEF vars
<1> HIDE DEF operation, world, TypeOK, Places, Pc, NoResult, Uncached, Res,
        DispatchRecord, GovernedResult, Answer, RecordStage, DispatchState,
        CleanupState, Executor
<1> QED BY [Next]_vars, <1>1, <1>2, <1>3, <1>4, <1>5, <1>6, <1>7, <1>8, <1>9,
         <1>10, <1>11, <1>12, <1>13, <1>14, <1>15, <1>16, <1>17, <1>18, <1>19,
         <1>20, <1>21, <1>22, <1>23, <1>24, <1>25, <1>26, <1>27, <1>28, <1>29,
         <1>30, <1>31, <1>32, <1>33, <1>34, <1>35, <1>36
       DEF Next, Submit, Step

\* Places is kept by every step.
LEMMA PlacesStep ==
    ASSUME TypeOK, Places, [Next]_vars
    PROVE  Places'
<1> USE DEF operation, world, TypeOK, Places, Pc
<1>1. ASSUME NEW p \in Proc, NEW d \in Dispatch, Execute(p, d) PROVE Places'
  <2>1. /\ d \in Dispatch
        /\ Changed(d, new_record)
        /\ disk'[d] = new_record
    <3> HIDE DEF TypeOK, Places
    <3> QED BY <1>1, ExecuteWrites
  <2> QED BY <1>1, <2>1 DEF Execute, Acquire, new_record, Rec, Changed, Added
<1>2. ASSUME NEW d \in Dispatch, ExecuteUnwritten(d) PROVE Places'
  <2>1. /\ d \in Dispatch
        /\ Changed(d, new_record)
        /\ Added(d, persistence_result("none"), "nothing")
    <3> HIDE DEF TypeOK, Places
    <3> QED BY <1>2, ExecuteUnwrittenWrites
  <2> QED BY <1>2, <2>1 DEF ExecuteUnwritten, persistence_result, new_record,
             Rec, Res, Changed, Added
<1>3. ASSUME NEW p \in Proc, NEW d \in Dispatch, ExecuteUnread(p, d) PROVE Places'
  BY <1>3 DEF ExecuteUnread, Tell, persistence_result, Res
<1>4. ASSUME NEW p \in Proc, NEW d \in Dispatch, ExecuteCached(p, d) PROVE Places'
  BY <1>4 DEF ExecuteCached, Tell
<1>5. ASSUME NEW p \in Proc, NEW d \in Dispatch, ExecuteReplays(p, d) PROVE Places'
  BY <1>5 DEF ExecuteReplays, Tell, replay_result, Res
<1>6. ASSUME NEW p \in Proc, NEW d \in Dispatch, ExecuteResumes(p, d) PROVE Places'
  BY <1>6, DispatcherAssumption DEF ExecuteResumes, Acquire
<1>7. ASSUME NEW p \in Proc, reconcile_all(p) PROVE Places'
  BY <1>7, DispatcherAssumption DEF reconcile_all, Acquire
<1>8. ASSUME GovernanceDeclines PROVE Places'
  BY <1>8 DEF GovernanceDeclines, Goto, Res
<1>9. ASSUME GovernanceAllows PROVE Places'
  <2>1. /\ cur \in Dispatch
        /\ Changed(cur, select_host)
        /\ disk'[cur] = select_host
    <3> HIDE DEF TypeOK, Places
    <3> QED BY <1>9, GovernanceAllowsWrites
  <2> QED BY <1>9, <2>1 DEF GovernanceAllows, Goto, select_host, Rec, Changed,
             Added
<1>10. ASSUME GovernanceConstrains PROVE Places'
  <2>1. /\ cur \in Dispatch
        /\ Changed(cur, select_sandbox)
        /\ disk'[cur] = select_sandbox
    <3> HIDE DEF TypeOK, Places
    <3> QED BY <1>10, GovernanceConstrainsWrites
  <2> QED BY <1>10, <2>1 DEF GovernanceConstrains, Goto, select_sandbox, Rec,
             Changed, Added
<1>11. ASSUME AllowFails PROVE Places'
  <2>1. /\ cur \in Dispatch
        /\ Changed(cur, select_host)
        /\ Added(cur, persistence_result("Host"), "record")
    <3> HIDE DEF TypeOK, Places
    <3> QED BY <1>11, AllowFailsWrites
  <2> QED BY <1>11, <2>1 DEF AllowFails, persistence_result, Release,
             select_host, Rec, Res, NoResult, Changed, Added
<1>12. ASSUME ConstrainFails PROVE Places'
  <2>1. /\ cur \in Dispatch
        /\ Changed(cur, select_sandbox)
        /\ Added(cur, persistence_result("Sandbox"), "record")
    <3> HIDE DEF TypeOK, Places
    <3> QED BY <1>12, ConstrainFailsWrites
  <2> QED BY <1>12, <2>1 DEF ConstrainFails, persistence_result, Release,
             select_sandbox, Rec, Res, NoResult, Changed, Added
<1>13. ASSUME HostCall PROVE Places'
  BY <1>13 DEF HostCall, Goto, Send
<1>14. ASSUME execute_host PROVE Places'
  BY <1>14 DEF execute_host, Goto, Returns, Res
<1>15. ASSUME CreateOk PROVE Places'
  BY <1>15 DEF CreateOk, Goto
<1>16. ASSUME CreatePossible PROVE Places'
  BY <1>16 DEF CreatePossible, Goto, Res
<1>17. ASSUME CreateNothing PROVE Places'
  BY <1>17 DEF CreateNothing, Goto, Res
<1>18. ASSUME WaitReady PROVE Places'
  BY <1>18 DEF WaitReady, Goto, Res
<1>19. ASSUME WriteReady PROVE Places'
  <2>1. /\ cur \in Dispatch
        /\ Changed(cur, sandbox_ready)
        /\ disk'[cur] = sandbox_ready
    <3> HIDE DEF TypeOK, Places
    <3> QED BY <1>19, WriteReadyWrites
  <2> QED BY <1>19, <2>1 DEF WriteReady, Goto, sandbox_ready, Rec, Changed,
             Added
<1>20. ASSUME WriteDispatchPossible PROVE Places'
  <2>1. /\ cur \in Dispatch
        /\ Changed(cur, sandbox_dispatch_possible)
        /\ disk'[cur] = sandbox_dispatch_possible
    <3> HIDE DEF TypeOK, Places
    <3> QED BY <1>20, WriteDispatchPossibleWrites
  <2> QED BY <1>20, <2>1 DEF WriteDispatchPossible, Goto,
             sandbox_dispatch_possible, Rec, Changed, Added
<1>21. ASSUME WriteFails PROVE Places'
  <2>1. /\ cur \in Dispatch
        /\ \/ pc = "ready_write" /\ Changed(cur, sandbox_ready)
           \/ pc = "fence_write" /\ Changed(cur, sandbox_dispatch_possible)
    <3> HIDE DEF TypeOK, Places
    <3> QED BY <1>21, WriteFailsWrites
  <2> QED BY <1>21, <2>1 DEF WriteFails, Goto, sandbox_ready,
             sandbox_dispatch_possible, Rec, Res, Changed, Added
<1>22. ASSUME ExecCall PROVE Places'
  BY <1>22 DEF ExecCall, Goto, Send
<1>23. ASSUME ExecReturns PROVE Places'
  BY <1>23 DEF ExecReturns, Goto, Returns, Res
<1>24. ASSUME CleanupDelete PROVE Places'
  BY <1>24 DEF CleanupDelete, Goto
<1>25. ASSUME CleanupConfirmed PROVE Places'
  BY <1>25 DEF CleanupConfirmed, Goto, WaitDeletedOk
<1>26. ASSUME CleanupPending PROVE Places'
  BY <1>26 DEF CleanupPending, Goto
<1>27. ASSUME finish PROVE Places'
  <2>1. /\ cur \in Dispatch
        /\ Changed(cur, terminal(res))
        /\ Added(cur, res, "record")
    <3> HIDE DEF TypeOK, Places
    <3> QED BY <1>27, FinishWrites
  <2> QED BY <1>27, <2>1 DEF finish, Release, terminal, Rec, Res, NoResult,
             Changed, Added
<1>28. ASSUME reconcile_record PROVE Places'
  <2>1. /\ cur \in Dispatch
        /\ Changed(cur, [disk[cur] EXCEPT !.cleanup = "ConfirmedAbsent"])
        /\ \E r : /\ r.state = disk[cur].state
                  /\ r.cleanup = "ConfirmedAbsent"
                  /\ \/ mode = "resume" /\ Added(cur, r, "record") /\ Release
                     \/ /\ mode = "reconcile" /\ Goto("recon_next")
                        /\ UNCHANGED <<told, res>>
    <3> HIDE DEF TypeOK, Places
    <3> QED BY <1>28, ReconcileRecordWrites
  <2> QED BY <1>28, <2>1 DEF reconcile_record, WaitDeletedOk, Release, Goto,
             Res, NoResult, Changed, Added
<1>29. ASSUME ReconcileFails PROVE Places'
  <2>1. /\ cur \in Dispatch
        /\ \E r : /\ r.state = disk[cur].state
                  /\ r.cleanup = disk[cur].cleanup
                  /\ \/ mode = "resume" /\ Added(cur, r, "record") /\ Release
                     \/ /\ mode = "reconcile" /\ Goto("recon_next")
                        /\ UNCHANGED <<told, res>>
    <3> HIDE DEF TypeOK, Places
    <3> QED BY <1>29, ReconcileFailsTells
  <2> QED BY <1>29, <2>1 DEF ReconcileFails, Release, Goto, Res, NoResult,
             Changed, Added
<1>30. ASSUME NEW d \in Dispatch, ReconcileNext(d) PROVE Places'
  BY <1>30 DEF ReconcileNext
<1>31. ASSUME ReconcileDone PROVE Places'
  BY <1>31 DEF ReconcileDone, Release, NoResult, Res
<1>32. ASSUME NEW p \in Proc, Crash(p) PROVE Places'
  BY <1>32 DEF Crash, Release, NoResult, Res
<1>33. ASSUME NEW d \in Dispatch, Run(d) PROVE Places'
  BY <1>33 DEF Run
<1>34. ASSUME NEW d \in Dispatch, ProviderReap(d) PROVE Places'
  BY <1>34 DEF ProviderReap
<1>36. ASSUME NEW d \in Dispatch, ProviderLate(d) PROVE Places'
  BY <1>36 DEF ProviderLate
<1>35. ASSUME UNCHANGED vars PROVE Places'
  BY <1>35 DEF vars
<1> HIDE DEF operation, world, TypeOK, Places, Pc
<1> QED BY [Next]_vars, <1>1, <1>2, <1>3, <1>4, <1>5, <1>6, <1>7, <1>8, <1>9,
         <1>10, <1>11, <1>12, <1>13, <1>14, <1>15, <1>16, <1>17, <1>18, <1>19,
         <1>20, <1>21, <1>22, <1>23, <1>24, <1>25, <1>26, <1>27, <1>28, <1>29,
         <1>30, <1>31, <1>32, <1>33, <1>34, <1>35, <1>36
       DEF Next, Submit, Step

\* Fresh is kept by every step: a resumed or reconciled command has a record
\* that is pending, so it is not one without a record.
LEMMA FreshStep ==
    ASSUME TypeOK, Places, Fresh, Retained, [Next]_vars
    PROVE  Fresh'
<1> USE DEF operation, world, TypeOK, Places, Fresh, FreshOf, Unmade, Exists, Executing,
        Quiet, Untold, NoRecord, DispatchRecord, Executor, Rec
<1>1. ASSUME NEW p \in Proc, NEW d \in Dispatch, Execute(p, d) PROVE Fresh'
  <2>1. /\ d \in Dispatch
        /\ Changed(d, new_record)
        /\ disk'[d] = new_record
    <3> HIDE DEF TypeOK, Places, Rec
    <3> QED BY <1>1, ExecuteWrites
  <2> QED BY <1>1, <2>1 DEF Execute, Acquire, new_record, Rec, Changed, Added
<1>2. ASSUME NEW d \in Dispatch, ExecuteUnwritten(d) PROVE Fresh'
  <2> HIDE DEF operation, world, TypeOK, Places, Fresh, FreshOf, Unmade, Exists, Executing, Quiet, Untold, NoRecord, DispatchRecord, Executor, Rec
  <2>1. /\ d \in Dispatch
        /\ Changed(d, new_record)
        /\ Added(d, persistence_result("none"), "nothing")
    BY <1>2, ExecuteUnwrittenWrites
  <2>2. mode = "none" /\ UNCHANGED <<mode, cur, cache, inflight, ran, box, late>>
    BY <1>2 DEF ExecuteUnwritten, operation, world, TypeOK, Places
  <2>3. SUFFICES ASSUME NEW e \in Dispatch PROVE FreshOf(e)'
    BY DEF Fresh
  <2>4. CASE e # d
    BY <2>1, <2>2, <2>4 DEF Fresh, FreshOf, Unmade, Executing, Quiet, Untold, Changed, Added
  <2>5. CASE e = d
    <3>1. /\ disk[d] = NoRecord /\ Quiet(d) /\ Untold(d) /\ Unmade(d)
      BY <1>2 DEF ExecuteUnwritten, Fresh, FreshOf
    <3>2. disk'[d] = disk[d] \/ disk'[d].stage # "none"
      BY <2>1, Fields DEF Changed
    <3>3. Untold(d)'
      BY <2>1, <2>2, <3>1 DEF Untold, Added
    <3> QED BY <2>2, <2>5, <3>1, <3>2, <3>3 DEF FreshOf, Unmade, Executing, Quiet
  <2> QED BY <2>4, <2>5
<1>3. ASSUME NEW p \in Proc, NEW d \in Dispatch, ExecuteUnread(p, d) PROVE Fresh'
  BY <1>3 DEF ExecuteUnread, Tell, persistence_result, Res
<1>4. ASSUME NEW p \in Proc, NEW d \in Dispatch, ExecuteCached(p, d) PROVE Fresh'
  BY <1>4 DEF ExecuteCached, Tell
<1>5. ASSUME NEW p \in Proc, NEW d \in Dispatch, ExecuteReplays(p, d) PROVE Fresh'
  BY <1>5 DEF ExecuteReplays, Tell, replay_result, Res
<1>6. ASSUME NEW p \in Proc, NEW d \in Dispatch, ExecuteResumes(p, d) PROVE Fresh'
  BY <1>6, DispatcherAssumption DEF ExecuteResumes, Acquire
<1>7. ASSUME NEW p \in Proc, reconcile_all(p) PROVE Fresh'
  BY <1>7, DispatcherAssumption DEF reconcile_all, Acquire
<1>8. ASSUME GovernanceDeclines PROVE Fresh'
  BY <1>8 DEF GovernanceDeclines, Goto, Res
<1>9. ASSUME GovernanceAllows PROVE Fresh'
  <2>1. /\ cur \in Dispatch
        /\ Changed(cur, select_host)
        /\ disk'[cur] = select_host
    <3> HIDE DEF TypeOK, Places, Rec
    <3> QED BY <1>9, GovernanceAllowsWrites
  <2> QED BY <1>9, <2>1 DEF GovernanceAllows, Goto, select_host, Rec, Changed,
             Added
<1>10. ASSUME GovernanceConstrains PROVE Fresh'
  <2>1. /\ cur \in Dispatch
        /\ Changed(cur, select_sandbox)
        /\ disk'[cur] = select_sandbox
    <3> HIDE DEF TypeOK, Places, Rec
    <3> QED BY <1>10, GovernanceConstrainsWrites
  <2> QED BY <1>10, <2>1 DEF GovernanceConstrains, Goto, select_sandbox, Rec,
             Changed, Added
<1>11. ASSUME AllowFails PROVE Fresh'
  <2> HIDE DEF operation, world, TypeOK, Places, Fresh, FreshOf, Unmade, Exists, Executing, Quiet, Untold, NoRecord, DispatchRecord, Executor, Rec
  <2>1. /\ cur \in Dispatch
        /\ Changed(cur, select_host)
        /\ Added(cur, persistence_result("Host"), "record")
    BY <1>11, AllowFailsWrites
  <2>2. UNCHANGED <<inflight, ran, box, late, cache>> /\ mode' # "execute" /\ mode = "execute"
    BY <1>11 DEF AllowFails, world, Release, Places
  <2>3. disk'[cur].stage # "none"
    BY <2>1, <2>2, Fields DEF Changed, Fresh, FreshOf, Executing
  <2>4. SUFFICES ASSUME NEW e \in Dispatch PROVE FreshOf(e)'
    BY DEF Fresh
  <2> QED BY <2>1, <2>2, <2>3, <2>4
          DEF Fresh, FreshOf, Unmade, Executing, Quiet, Untold, Changed, Added
<1>12. ASSUME ConstrainFails PROVE Fresh'
  <2> HIDE DEF operation, world, TypeOK, Places, Fresh, FreshOf, Unmade, Exists, Executing, Quiet, Untold, NoRecord, DispatchRecord, Executor, Rec
  <2>1. /\ cur \in Dispatch
        /\ Changed(cur, select_sandbox)
        /\ Added(cur, persistence_result("Sandbox"), "record")
    BY <1>12, ConstrainFailsWrites
  <2>2. UNCHANGED <<inflight, ran, box, late, cache>> /\ mode' # "execute" /\ mode = "execute"
    BY <1>12 DEF ConstrainFails, world, Release, Places
  <2>3. disk'[cur].stage # "none"
    BY <2>1, <2>2, Fields DEF Changed, Fresh, FreshOf, Executing
  <2>4. SUFFICES ASSUME NEW e \in Dispatch PROVE FreshOf(e)'
    BY DEF Fresh
  <2> QED BY <2>1, <2>2, <2>3, <2>4
          DEF Fresh, FreshOf, Unmade, Executing, Quiet, Untold, Changed, Added
<1>13. ASSUME HostCall PROVE Fresh'
  BY <1>13 DEF HostCall, Goto, Send
<1>14. ASSUME execute_host PROVE Fresh'
  BY <1>14 DEF execute_host, Goto, Returns, Res
<1>15. ASSUME CreateOk PROVE Fresh'
  BY <1>15 DEF CreateOk, Goto
<1>16. ASSUME CreatePossible PROVE Fresh'
  BY <1>16 DEF CreatePossible, Goto, Res
<1>17. ASSUME CreateNothing PROVE Fresh'
  BY <1>17 DEF CreateNothing, Goto, Res
<1>18. ASSUME WaitReady PROVE Fresh'
  BY <1>18 DEF WaitReady, Goto, Res
<1>19. ASSUME WriteReady PROVE Fresh'
  <2>1. /\ cur \in Dispatch
        /\ Changed(cur, sandbox_ready)
        /\ disk'[cur] = sandbox_ready
    <3> HIDE DEF TypeOK, Places, Rec
    <3> QED BY <1>19, WriteReadyWrites
  <2> QED BY <1>19, <2>1 DEF WriteReady, Goto, sandbox_ready, Rec, Changed,
             Added
<1>20. ASSUME WriteDispatchPossible PROVE Fresh'
  <2>1. /\ cur \in Dispatch
        /\ Changed(cur, sandbox_dispatch_possible)
        /\ disk'[cur] = sandbox_dispatch_possible
    <3> HIDE DEF TypeOK, Places, Rec
    <3> QED BY <1>20, WriteDispatchPossibleWrites
  <2> QED BY <1>20, <2>1 DEF WriteDispatchPossible, Goto,
             sandbox_dispatch_possible, Rec, Changed, Added
<1>21. ASSUME WriteFails PROVE Fresh'
  <2>1. /\ cur \in Dispatch
        /\ \/ pc = "ready_write" /\ Changed(cur, sandbox_ready)
           \/ pc = "fence_write" /\ Changed(cur, sandbox_dispatch_possible)
    <3> HIDE DEF TypeOK, Places, Rec
    <3> QED BY <1>21, WriteFailsWrites
  <2> QED BY <1>21, <2>1 DEF WriteFails, Goto, sandbox_ready,
             sandbox_dispatch_possible, Rec, Res, Changed, Added
<1>22. ASSUME ExecCall PROVE Fresh'
  BY <1>22 DEF ExecCall, Goto, Send
<1>23. ASSUME ExecReturns PROVE Fresh'
  BY <1>23 DEF ExecReturns, Goto, Returns, Res
<1>24. ASSUME CleanupDelete PROVE Fresh'
  BY <1>24 DEF CleanupDelete, Goto
<1>25. ASSUME CleanupConfirmed PROVE Fresh'
  BY <1>25 DEF CleanupConfirmed, Goto, WaitDeletedOk
<1>26. ASSUME CleanupPending PROVE Fresh'
  BY <1>26 DEF CleanupPending, Goto
<1>27. ASSUME finish PROVE Fresh'
  <2>1. /\ cur \in Dispatch
        /\ Changed(cur, terminal(res))
        /\ Added(cur, res, "record")
    <3> HIDE DEF TypeOK, Places, Rec
    <3> QED BY <1>27, FinishWrites
  <2> QED BY <1>27, <2>1 DEF finish, Release, terminal, Rec, Res, NoResult,
             Changed, Added
<1>28. ASSUME reconcile_record PROVE Fresh'
  <2> HIDE DEF operation, world, TypeOK, Places, Fresh, FreshOf, Unmade, Exists, Executing, Quiet, Untold, NoRecord, DispatchRecord, Executor, Rec
  <2>1. /\ cur \in Dispatch
        /\ Changed(cur, [disk[cur] EXCEPT !.cleanup = "ConfirmedAbsent"])
        /\ \E r : /\ r.state = disk[cur].state
                  /\ r.cleanup = "ConfirmedAbsent"
                  /\ \/ mode = "resume" /\ Added(cur, r, "record") /\ Release
                     \/ /\ mode = "reconcile" /\ Goto("recon_next")
                        /\ UNCHANGED <<told, res>>
    BY <1>28, ReconcileRecordWrites
  <2>2. UNCHANGED <<inflight, ran>> /\ Pending(disk[cur]) /\ mode # "execute"
    BY <1>28 DEF reconcile_record, world, Retained, RetainedAt
  <2>3. mode' # "execute"
    BY <2>1 DEF Release, Goto
  <2>4. /\ \A e \in Dispatch \ {cur} : disk'[e] = disk[e] /\ told'[e] = told[e]
        /\ \A e \in Dispatch \ {cur}, p \in Proc : cache'[p][e] = cache[p][e]
        /\ disk'[cur].stage = disk[cur].stage
        /\ \A e \in Dispatch \ {cur} : box'[e] = box[e] /\ late'[e] = late[e]
    BY <1>28, <2>1 DEF reconcile_record, WaitDeletedOk, Changed, Added, TypeOK, DispatchRecord
  <2>5. disk[cur].stage # "none"
    BY <2>1, <2>2 DEF Fresh, FreshOf, NoRecord, Rec, Pending
  <2>6. SUFFICES ASSUME NEW e \in Dispatch PROVE FreshOf(e)'
    BY DEF Fresh
  <2> QED BY <2>1, <2>2, <2>3, <2>4, <2>5, <2>6
          DEF Fresh, FreshOf, Unmade, Executing, Quiet, Untold
<1>29. ASSUME ReconcileFails PROVE Fresh'
  <2> HIDE DEF operation, world, TypeOK, Places, Fresh, FreshOf, Unmade, Exists, Executing, Quiet, Untold, NoRecord, DispatchRecord, Executor, Rec
  <2>1. /\ cur \in Dispatch
        /\ \E r : /\ r.state = disk[cur].state
                  /\ r.cleanup = disk[cur].cleanup
                  /\ \/ mode = "resume" /\ Added(cur, r, "record") /\ Release
                     \/ /\ mode = "reconcile" /\ Goto("recon_next")
                        /\ UNCHANGED <<told, res>>
    BY <1>29, ReconcileFailsTells
  <2>2. UNCHANGED <<inflight, ran, box, late>> /\ Pending(disk[cur]) /\ mode # "execute"
    BY <1>29 DEF ReconcileFails, world, Retained, RetainedAt
  <2>3. mode' # "execute"
    BY <2>1 DEF Release, Goto
  <2>4. /\ \A e \in Dispatch \ {cur} : disk'[e] = disk[e] /\ told'[e] = told[e]
        /\ \A e \in Dispatch \ {cur}, p \in Proc : cache'[p][e] = cache[p][e]
        /\ disk'[cur].stage = disk[cur].stage
    BY <1>29, <2>1 DEF ReconcileFails, Added, TypeOK, DispatchRecord
  <2>5. disk[cur].stage # "none"
    BY <2>1, <2>2 DEF Fresh, FreshOf, NoRecord, Rec, Pending
  <2>6. SUFFICES ASSUME NEW e \in Dispatch PROVE FreshOf(e)'
    BY DEF Fresh
  <2> QED BY <2>1, <2>2, <2>3, <2>4, <2>5, <2>6
          DEF Fresh, FreshOf, Unmade, Executing, Quiet, Untold
<1>30. ASSUME NEW d \in Dispatch, ReconcileNext(d) PROVE Fresh'
  BY <1>30 DEF ReconcileNext
<1>31. ASSUME ReconcileDone PROVE Fresh'
  BY <1>31 DEF ReconcileDone, Release, NoResult, Res
<1>32. ASSUME NEW p \in Proc, Crash(p) PROVE Fresh'
  BY <1>32 DEF Crash, Release, NoResult, Res
<1>33. ASSUME NEW d \in Dispatch, Run(d) PROVE Fresh'
  BY <1>33 DEF Run
<1>34. ASSUME NEW d \in Dispatch, ProviderReap(d) PROVE Fresh'
  BY <1>34 DEF ProviderReap
<1>36. ASSUME NEW d \in Dispatch, ProviderLate(d) PROVE Fresh'
  BY <1>36 DEF ProviderLate
<1>35. ASSUME UNCHANGED vars PROVE Fresh'
  BY <1>35 DEF vars
<1> HIDE DEF operation, world, TypeOK, Places, Fresh, FreshOf, Unmade, Exists, Executing,
        Quiet, Untold, NoRecord, DispatchRecord, Executor, Rec
<1> QED BY [Next]_vars, <1>1, <1>2, <1>3, <1>4, <1>5, <1>6, <1>7, <1>8, <1>9,
         <1>10, <1>11, <1>12, <1>13, <1>14, <1>15, <1>16, <1>17, <1>18, <1>19,
         <1>20, <1>21, <1>22, <1>23, <1>24, <1>25, <1>26, <1>27, <1>28, <1>29,
         <1>30, <1>31, <1>32, <1>33, <1>34, <1>35, <1>36
       DEF Next, Submit, Step

\* Progress is kept by every step.
LEMMA ProgressStep ==
    ASSUME TypeOK, Places, Fresh, Progress, [Next]_vars
    PROVE  Progress'
<1> USE DEF operation, world, TypeOK, Places, Fresh, FreshOf, Unmade, Exists, Executing,
        Progress, Quiet, NoRecord, DispatchRecord, Executor, Rec
<1>1. ASSUME NEW p \in Proc, NEW d \in Dispatch, Execute(p, d) PROVE Progress'
  <2>1. /\ d \in Dispatch
        /\ Changed(d, new_record)
        /\ disk'[d] = new_record
    <3> HIDE DEF TypeOK, Places, Rec
    <3> QED BY <1>1, ExecuteWrites
  <2> QED BY <1>1, <2>1 DEF Execute, Acquire, new_record, Rec, Changed, Added
<1>2. ASSUME NEW d \in Dispatch, ExecuteUnwritten(d) PROVE Progress'
  <2>1. /\ d \in Dispatch
        /\ Changed(d, new_record)
        /\ Added(d, persistence_result("none"), "nothing")
    <3> HIDE DEF TypeOK, Places, Rec
    <3> QED BY <1>2, ExecuteUnwrittenWrites
  <2> QED BY <1>2, <2>1 DEF ExecuteUnwritten, persistence_result, new_record,
             Rec, Res, Changed, Added
<1>3. ASSUME NEW p \in Proc, NEW d \in Dispatch, ExecuteUnread(p, d) PROVE Progress'
  BY <1>3 DEF ExecuteUnread, Tell, persistence_result, Res
<1>4. ASSUME NEW p \in Proc, NEW d \in Dispatch, ExecuteCached(p, d) PROVE Progress'
  BY <1>4 DEF ExecuteCached, Tell
<1>5. ASSUME NEW p \in Proc, NEW d \in Dispatch, ExecuteReplays(p, d) PROVE Progress'
  BY <1>5 DEF ExecuteReplays, Tell, replay_result, Res
<1>6. ASSUME NEW p \in Proc, NEW d \in Dispatch, ExecuteResumes(p, d) PROVE Progress'
  BY <1>6, DispatcherAssumption DEF ExecuteResumes, Acquire
<1>7. ASSUME NEW p \in Proc, reconcile_all(p) PROVE Progress'
  BY <1>7, DispatcherAssumption DEF reconcile_all, Acquire
<1>8. ASSUME GovernanceDeclines PROVE Progress'
  BY <1>8 DEF GovernanceDeclines, Goto, Res
<1>9. ASSUME GovernanceAllows PROVE Progress'
  <2>1. /\ cur \in Dispatch
        /\ Changed(cur, select_host)
        /\ disk'[cur] = select_host
    <3> HIDE DEF TypeOK, Places, Rec
    <3> QED BY <1>9, GovernanceAllowsWrites
  <2> QED BY <1>9, <2>1 DEF GovernanceAllows, Goto, select_host, Rec, Changed,
             Added
<1>10. ASSUME GovernanceConstrains PROVE Progress'
  <2>1. /\ cur \in Dispatch
        /\ Changed(cur, select_sandbox)
        /\ disk'[cur] = select_sandbox
    <3> HIDE DEF TypeOK, Places, Rec
    <3> QED BY <1>10, GovernanceConstrainsWrites
  <2> QED BY <1>10, <2>1 DEF GovernanceConstrains, Goto, select_sandbox, Rec,
             Changed, Added
<1>11. ASSUME AllowFails PROVE Progress'
  <2>1. /\ cur \in Dispatch
        /\ Changed(cur, select_host)
        /\ Added(cur, persistence_result("Host"), "record")
    <3> HIDE DEF TypeOK, Places, Rec
    <3> QED BY <1>11, AllowFailsWrites
  <2> QED BY <1>11, <2>1 DEF AllowFails, persistence_result, Release,
             select_host, Rec, Res, NoResult, Changed, Added
<1>12. ASSUME ConstrainFails PROVE Progress'
  <2>1. /\ cur \in Dispatch
        /\ Changed(cur, select_sandbox)
        /\ Added(cur, persistence_result("Sandbox"), "record")
    <3> HIDE DEF TypeOK, Places, Rec
    <3> QED BY <1>12, ConstrainFailsWrites
  <2> QED BY <1>12, <2>1 DEF ConstrainFails, persistence_result, Release,
             select_sandbox, Rec, Res, NoResult, Changed, Added
<1>13. ASSUME HostCall PROVE Progress'
  BY <1>13 DEF HostCall, Goto, Send
<1>14. ASSUME execute_host PROVE Progress'
  BY <1>14 DEF execute_host, Goto, Returns, Res
<1>15. ASSUME CreateOk PROVE Progress'
  BY <1>15 DEF CreateOk, Goto
<1>16. ASSUME CreatePossible PROVE Progress'
  BY <1>16 DEF CreatePossible, Goto, Res
<1>17. ASSUME CreateNothing PROVE Progress'
  BY <1>17 DEF CreateNothing, Goto, Res
<1>18. ASSUME WaitReady PROVE Progress'
  BY <1>18 DEF WaitReady, Goto, Res
<1>19. ASSUME WriteReady PROVE Progress'
  <2>1. /\ cur \in Dispatch
        /\ Changed(cur, sandbox_ready)
        /\ disk'[cur] = sandbox_ready
    <3> HIDE DEF TypeOK, Places, Rec
    <3> QED BY <1>19, WriteReadyWrites
  <2> QED BY <1>19, <2>1 DEF WriteReady, Goto, sandbox_ready, Rec, Changed,
             Added
<1>20. ASSUME WriteDispatchPossible PROVE Progress'
  <2>1. /\ cur \in Dispatch
        /\ Changed(cur, sandbox_dispatch_possible)
        /\ disk'[cur] = sandbox_dispatch_possible
    <3> HIDE DEF TypeOK, Places, Rec
    <3> QED BY <1>20, WriteDispatchPossibleWrites
  <2> QED BY <1>20, <2>1 DEF WriteDispatchPossible, Goto,
             sandbox_dispatch_possible, Rec, Changed, Added
<1>21. ASSUME WriteFails PROVE Progress'
  <2>1. /\ cur \in Dispatch
        /\ \/ pc = "ready_write" /\ Changed(cur, sandbox_ready)
           \/ pc = "fence_write" /\ Changed(cur, sandbox_dispatch_possible)
    <3> HIDE DEF TypeOK, Places, Rec
    <3> QED BY <1>21, WriteFailsWrites
  <2> QED BY <1>21, <2>1 DEF WriteFails, Goto, sandbox_ready,
             sandbox_dispatch_possible, Rec, Res, Changed, Added
<1>22. ASSUME ExecCall PROVE Progress'
  BY <1>22 DEF ExecCall, Goto, Send
<1>23. ASSUME ExecReturns PROVE Progress'
  BY <1>23 DEF ExecReturns, Goto, Returns, Res
<1>24. ASSUME CleanupDelete PROVE Progress'
  BY <1>24 DEF CleanupDelete, Goto
<1>25. ASSUME CleanupConfirmed PROVE Progress'
  BY <1>25 DEF CleanupConfirmed, Goto, WaitDeletedOk
<1>26. ASSUME CleanupPending PROVE Progress'
  BY <1>26 DEF CleanupPending, Goto
<1>27. ASSUME finish PROVE Progress'
  <2>1. /\ cur \in Dispatch
        /\ Changed(cur, terminal(res))
        /\ Added(cur, res, "record")
    <3> HIDE DEF TypeOK, Places, Rec
    <3> QED BY <1>27, FinishWrites
  <2> QED BY <1>27, <2>1 DEF finish, Release, terminal, Rec, Res, NoResult,
             Changed, Added
<1>28. ASSUME reconcile_record PROVE Progress'
  <2>1. /\ cur \in Dispatch
        /\ Changed(cur, [disk[cur] EXCEPT !.cleanup = "ConfirmedAbsent"])
        /\ \E r : /\ r.state = disk[cur].state
                  /\ r.cleanup = "ConfirmedAbsent"
                  /\ \/ mode = "resume" /\ Added(cur, r, "record") /\ Release
                     \/ /\ mode = "reconcile" /\ Goto("recon_next")
                        /\ UNCHANGED <<told, res>>
    <3> HIDE DEF TypeOK, Places, Rec
    <3> QED BY <1>28, ReconcileRecordWrites
  <2> QED BY <1>28, <2>1 DEF reconcile_record, WaitDeletedOk, Release, Goto,
             Res, NoResult, Changed, Added
<1>29. ASSUME ReconcileFails PROVE Progress'
  <2>1. /\ cur \in Dispatch
        /\ \E r : /\ r.state = disk[cur].state
                  /\ r.cleanup = disk[cur].cleanup
                  /\ \/ mode = "resume" /\ Added(cur, r, "record") /\ Release
                     \/ /\ mode = "reconcile" /\ Goto("recon_next")
                        /\ UNCHANGED <<told, res>>
    <3> HIDE DEF TypeOK, Places, Rec
    <3> QED BY <1>29, ReconcileFailsTells
  <2> QED BY <1>29, <2>1 DEF ReconcileFails, Release, Goto, Res, NoResult,
             Changed, Added
<1>30. ASSUME NEW d \in Dispatch, ReconcileNext(d) PROVE Progress'
  BY <1>30 DEF ReconcileNext
<1>31. ASSUME ReconcileDone PROVE Progress'
  BY <1>31 DEF ReconcileDone, Release, NoResult, Res
<1>32. ASSUME NEW p \in Proc, Crash(p) PROVE Progress'
  BY <1>32 DEF Crash, Release, NoResult, Res
<1>33. ASSUME NEW d \in Dispatch, Run(d) PROVE Progress'
  BY <1>33 DEF Run
<1>34. ASSUME NEW d \in Dispatch, ProviderReap(d) PROVE Progress'
  BY <1>34 DEF ProviderReap
<1>36. ASSUME NEW d \in Dispatch, ProviderLate(d) PROVE Progress'
  BY <1>36 DEF ProviderLate
<1>35. ASSUME UNCHANGED vars PROVE Progress'
  BY <1>35 DEF vars
<1> HIDE DEF operation, world, TypeOK, Places, Fresh, FreshOf, Unmade, Exists, Executing,
        Progress, Quiet, NoRecord, DispatchRecord, Executor, Rec
<1> QED BY [Next]_vars, <1>1, <1>2, <1>3, <1>4, <1>5, <1>6, <1>7, <1>8, <1>9,
         <1>10, <1>11, <1>12, <1>13, <1>14, <1>15, <1>16, <1>17, <1>18, <1>19,
         <1>20, <1>21, <1>22, <1>23, <1>24, <1>25, <1>26, <1>27, <1>28, <1>29,
         <1>30, <1>31, <1>32, <1>33, <1>34, <1>35, <1>36
       DEF Next, Submit, Step

\* Effects is kept by every step: a command is sent only while it is quiet and
\* its record says that it may have been dispatched.
LEMMA EffectsStep ==
    ASSUME TypeOK, Places, Fresh, Progress, Effects, Truth, [Next]_vars
    PROVE  Effects'
<1> USE DEF operation, world, TypeOK, Places, Fresh, FreshOf, Unmade, Exists, Progress,
        Effects, EffectsOf, Quiet, DispatchRecord, Executor, NoRecord, Rec
<1>1. ASSUME NEW p \in Proc, NEW d \in Dispatch, Execute(p, d) PROVE Effects'
  <2> HIDE DEF operation, world, TypeOK, Places, Fresh, FreshOf, Unmade, Exists, Progress, Effects, EffectsOf, Quiet, DispatchRecord, Executor, NoRecord, Rec
  <2>1. /\ d \in Dispatch
        /\ Changed(d, new_record)
        /\ disk'[d] = new_record
    BY <1>1, ExecuteWrites
  <2>2. Quiet(d)
    BY <1>1 DEF Execute, Fresh, FreshOf
  <2>3. UNCHANGED <<ran, inflight, box, late, verdict>>
    BY <1>1 DEF Execute, world
  <2>4. \A e \in Dispatch : e # d => disk'[e] = disk[e] /\ verdict'[e] = verdict[e]
    BY <1>1, <2>1, <2>3 DEF Execute, Changed, TypeOK
  <2> QED BY <2>1, <2>2, <2>3, <2>4, EffectsFrame
<1>2. ASSUME NEW d \in Dispatch, ExecuteUnwritten(d) PROVE Effects'
  <2> HIDE DEF operation, world, TypeOK, Places, Fresh, FreshOf, Unmade, Exists, Progress, Effects, EffectsOf, Quiet, DispatchRecord, Executor, NoRecord, Rec
  <2>1. /\ d \in Dispatch
        /\ Changed(d, new_record)
        /\ Added(d, persistence_result("none"), "nothing")
    BY <1>2, ExecuteUnwrittenWrites
  <2>2. Quiet(d)
    BY <1>2 DEF ExecuteUnwritten, Fresh, FreshOf
  <2>3. UNCHANGED <<ran, inflight, box, late, verdict>>
    BY <1>2 DEF ExecuteUnwritten, world
  <2>4. \A e \in Dispatch : e # d => disk'[e] = disk[e] /\ verdict'[e] = verdict[e]
    BY <1>2, <2>1, <2>3 DEF ExecuteUnwritten, Changed, TypeOK
  <2> QED BY <2>1, <2>2, <2>3, <2>4, EffectsFrame
<1>3. ASSUME NEW p \in Proc, NEW d \in Dispatch, ExecuteUnread(p, d) PROVE Effects'
  BY <1>3 DEF ExecuteUnread, Tell, persistence_result, Res
<1>4. ASSUME NEW p \in Proc, NEW d \in Dispatch, ExecuteCached(p, d) PROVE Effects'
  BY <1>4 DEF ExecuteCached, Tell
<1>5. ASSUME NEW p \in Proc, NEW d \in Dispatch, ExecuteReplays(p, d) PROVE Effects'
  BY <1>5 DEF ExecuteReplays, Tell, replay_result, Res
<1>6. ASSUME NEW p \in Proc, NEW d \in Dispatch, ExecuteResumes(p, d) PROVE Effects'
  BY <1>6, DispatcherAssumption DEF ExecuteResumes, Acquire
<1>7. ASSUME NEW p \in Proc, reconcile_all(p) PROVE Effects'
  BY <1>7, DispatcherAssumption DEF reconcile_all, Acquire
<1>8. ASSUME GovernanceDeclines PROVE Effects'
  BY <1>8 DEF GovernanceDeclines, Goto, Res
<1>9. ASSUME GovernanceAllows PROVE Effects'
  <2> HIDE DEF operation, world, TypeOK, Places, Fresh, FreshOf, Unmade, Exists, Progress, Effects, EffectsOf, Quiet, DispatchRecord, Executor, NoRecord, Rec
  <2>1. /\ cur \in Dispatch
        /\ Changed(cur, select_host)
        /\ disk'[cur] = select_host
    BY <1>9, GovernanceAllowsWrites
  <2>2. Quiet(cur) /\ Unmade(cur)
    BY <1>9 DEF GovernanceAllows, Progress
  <2>3. UNCHANGED <<ran, inflight, box, late>>
    BY <1>9 DEF GovernanceAllows, world
  <2>4. \A e \in Dispatch : e # cur => disk'[e] = disk[e] /\ verdict'[e] = verdict[e]
    BY <1>9, <2>1, <2>3 DEF GovernanceAllows, Changed, TypeOK
  <2> QED BY <2>1, <2>2, <2>3, <2>4, EffectsFrame
<1>10. ASSUME GovernanceConstrains PROVE Effects'
  <2> HIDE DEF operation, world, TypeOK, Places, Fresh, FreshOf, Unmade, Exists, Progress, Effects, EffectsOf, Quiet, DispatchRecord, Executor, NoRecord, Rec
  <2>1. /\ cur \in Dispatch
        /\ Changed(cur, select_sandbox)
        /\ disk'[cur] = select_sandbox
    BY <1>10, GovernanceConstrainsWrites
  <2>2. Quiet(cur) /\ Unmade(cur)
    BY <1>10 DEF GovernanceConstrains, Progress
  <2>3. UNCHANGED <<ran, inflight, box, late>>
    BY <1>10 DEF GovernanceConstrains, world
  <2>4. \A e \in Dispatch : e # cur => disk'[e] = disk[e] /\ verdict'[e] = verdict[e]
    BY <1>10, <2>1, <2>3 DEF GovernanceConstrains, Changed, TypeOK
  <2> QED BY <2>1, <2>2, <2>3, <2>4, EffectsFrame
<1>11. ASSUME AllowFails PROVE Effects'
  <2> HIDE DEF operation, world, TypeOK, Places, Fresh, FreshOf, Unmade, Exists, Progress, Effects, EffectsOf, Quiet, DispatchRecord, Executor, NoRecord, Rec
  <2>1. /\ cur \in Dispatch
        /\ Changed(cur, select_host)
        /\ Added(cur, persistence_result("Host"), "record")
    BY <1>11, AllowFailsWrites
  <2>2. Quiet(cur) /\ Unmade(cur)
    BY <1>11 DEF AllowFails, Progress
  <2>3. UNCHANGED <<ran, inflight, box, late>>
    BY <1>11 DEF AllowFails, world
  <2>4. \A e \in Dispatch : e # cur => disk'[e] = disk[e] /\ verdict'[e] = verdict[e]
    BY <1>11, <2>1, <2>3 DEF AllowFails, Changed, TypeOK
  <2> QED BY <2>1, <2>2, <2>3, <2>4, EffectsFrame
<1>12. ASSUME ConstrainFails PROVE Effects'
  <2> HIDE DEF operation, world, TypeOK, Places, Fresh, FreshOf, Unmade, Exists, Progress, Effects, EffectsOf, Quiet, DispatchRecord, Executor, NoRecord, Rec
  <2>1. /\ cur \in Dispatch
        /\ Changed(cur, select_sandbox)
        /\ Added(cur, persistence_result("Sandbox"), "record")
    BY <1>12, ConstrainFailsWrites
  <2>2. Quiet(cur) /\ Unmade(cur)
    BY <1>12 DEF ConstrainFails, Progress
  <2>3. UNCHANGED <<ran, inflight, box, late>>
    BY <1>12 DEF ConstrainFails, world
  <2>4. \A e \in Dispatch : e # cur => disk'[e] = disk[e] /\ verdict'[e] = verdict[e]
    BY <1>12, <2>1, <2>3 DEF ConstrainFails, Changed, TypeOK
  <2> QED BY <2>1, <2>2, <2>3, <2>4, EffectsFrame
<1>13. ASSUME HostCall PROVE Effects'
  BY <1>13 DEF HostCall, Goto, Send
<1>14. ASSUME execute_host PROVE Effects'
  BY <1>14 DEF execute_host, Goto, Returns, Res
<1>15. ASSUME CreateOk PROVE Effects'
  BY <1>15 DEF CreateOk, Goto
<1>16. ASSUME CreatePossible PROVE Effects'
  BY <1>16 DEF CreatePossible, Goto, Res
<1>17. ASSUME CreateNothing PROVE Effects'
  BY <1>17 DEF CreateNothing, Goto, Res
<1>18. ASSUME WaitReady PROVE Effects'
  BY <1>18 DEF WaitReady, Goto, Res
<1>19. ASSUME WriteReady PROVE Effects'
  <2> HIDE DEF operation, world, TypeOK, Places, Fresh, FreshOf, Unmade, Exists, Progress, Effects, EffectsOf, Quiet, DispatchRecord, Executor, NoRecord, Rec
  <2>1. /\ cur \in Dispatch
        /\ Changed(cur, sandbox_ready)
        /\ disk'[cur] = sandbox_ready
    BY <1>19, WriteReadyWrites
  <2>2. Quiet(cur)
    BY <1>19 DEF WriteReady, Progress
  <2>3. UNCHANGED <<ran, inflight, box, late, verdict>>
    BY <1>19 DEF WriteReady, world
  <2>4. \A e \in Dispatch : e # cur => disk'[e] = disk[e] /\ verdict'[e] = verdict[e]
    BY <1>19, <2>1, <2>3 DEF WriteReady, Changed, TypeOK
  <2> QED BY <2>1, <2>2, <2>3, <2>4, EffectsFrame
<1>20. ASSUME WriteDispatchPossible PROVE Effects'
  <2> HIDE DEF operation, world, TypeOK, Places, Fresh, FreshOf, Unmade, Exists, Progress, Effects, EffectsOf, Quiet, DispatchRecord, Executor, NoRecord, Rec
  <2>1. /\ cur \in Dispatch
        /\ Changed(cur, sandbox_dispatch_possible)
        /\ disk'[cur] = sandbox_dispatch_possible
    BY <1>20, WriteDispatchPossibleWrites
  <2>2. Quiet(cur)
    BY <1>20 DEF WriteDispatchPossible, Progress
  <2>3. UNCHANGED <<ran, inflight, box, late, verdict>>
    BY <1>20 DEF WriteDispatchPossible, world
  <2>4. \A e \in Dispatch : e # cur => disk'[e] = disk[e] /\ verdict'[e] = verdict[e]
    BY <1>20, <2>1, <2>3 DEF WriteDispatchPossible, Changed, TypeOK
  <2> QED BY <2>1, <2>2, <2>3, <2>4, EffectsFrame
<1>21. ASSUME WriteFails PROVE Effects'
  <2> HIDE DEF operation, world, TypeOK, Places, Fresh, FreshOf, Unmade, Exists, Progress, Effects, EffectsOf, Quiet, DispatchRecord, Executor, NoRecord, Rec
  <2>1. /\ cur \in Dispatch
        /\ \/ pc = "ready_write" /\ Changed(cur, sandbox_ready)
           \/ pc = "fence_write" /\ Changed(cur, sandbox_dispatch_possible)
    BY <1>21, WriteFailsWrites
  <2>2. Quiet(cur)
    BY <1>21 DEF WriteFails, Progress
  <2>3. UNCHANGED <<ran, inflight, box, late, verdict>>
    BY <1>21 DEF WriteFails, world
  <2>4. \A e \in Dispatch : e # cur => disk'[e] = disk[e] /\ verdict'[e] = verdict[e]
    BY <1>21, <2>1, <2>3 DEF WriteFails, Changed, TypeOK
  <2> QED BY <2>1, <2>2, <2>3, <2>4, EffectsFrame
<1>22. ASSUME ExecCall PROVE Effects'
  BY <1>22 DEF ExecCall, Goto, Send
<1>23. ASSUME ExecReturns PROVE Effects'
  BY <1>23 DEF ExecReturns, Goto, Returns, Res
<1>24. ASSUME CleanupDelete PROVE Effects'
  BY <1>24 DEF CleanupDelete, Goto
<1>25. ASSUME CleanupConfirmed PROVE Effects'
  BY <1>25 DEF CleanupConfirmed, Goto, WaitDeletedOk
<1>26. ASSUME CleanupPending PROVE Effects'
  BY <1>26 DEF CleanupPending, Goto
<1>27. ASSUME finish PROVE Effects'
  <2> HIDE DEF operation, world, TypeOK, Places, Fresh, FreshOf, Unmade, Exists, Progress, Effects, EffectsOf, Quiet, DispatchRecord, Executor, NoRecord, Rec
  <2>1. /\ cur \in Dispatch
        /\ Changed(cur, terminal(res))
        /\ Added(cur, res, "record")
    BY <1>27, FinishWrites
  <2>2. res.state = "NotDispatched" => Quiet(cur)
    BY <1>27 DEF finish, Truth, ResultTrue, Truthful, Places
  <2>3. UNCHANGED <<ran, inflight, box, late, verdict>>
    BY <1>27 DEF finish, world
  <2>4. Quiet(cur) \/ disk'[cur].state # "NotDispatched"
    BY <2>1, <2>2, TerminalFields DEF Changed, Effects, EffectsOf
  <2> QED BY <2>1, <2>3, <2>4, EffectsFrame DEF Changed
<1>28. ASSUME reconcile_record PROVE Effects'
  <2>1. /\ cur \in Dispatch
        /\ Changed(cur, [disk[cur] EXCEPT !.cleanup = "ConfirmedAbsent"])
        /\ \E r : /\ r.state = disk[cur].state
                  /\ r.cleanup = "ConfirmedAbsent"
                  /\ \/ mode = "resume" /\ Added(cur, r, "record") /\ Release
                     \/ /\ mode = "reconcile" /\ Goto("recon_next")
                        /\ UNCHANGED <<told, res>>
    <3> HIDE DEF TypeOK, Places, Rec
    <3> QED BY <1>28, ReconcileRecordWrites
  <2> QED BY <1>28, <2>1 DEF reconcile_record, WaitDeletedOk, Release, Goto,
             Res, NoResult, Changed, Added
<1>29. ASSUME ReconcileFails PROVE Effects'
  <2>1. /\ cur \in Dispatch
        /\ \E r : /\ r.state = disk[cur].state
                  /\ r.cleanup = disk[cur].cleanup
                  /\ \/ mode = "resume" /\ Added(cur, r, "record") /\ Release
                     \/ /\ mode = "reconcile" /\ Goto("recon_next")
                        /\ UNCHANGED <<told, res>>
    <3> HIDE DEF TypeOK, Places, Rec
    <3> QED BY <1>29, ReconcileFailsTells
  <2> QED BY <1>29, <2>1 DEF ReconcileFails, Release, Goto, Res, NoResult,
             Changed, Added
<1>30. ASSUME NEW d \in Dispatch, ReconcileNext(d) PROVE Effects'
  BY <1>30 DEF ReconcileNext
<1>31. ASSUME ReconcileDone PROVE Effects'
  BY <1>31 DEF ReconcileDone, Release, NoResult, Res
<1>32. ASSUME NEW p \in Proc, Crash(p) PROVE Effects'
  BY <1>32 DEF Crash, Release, NoResult, Res
<1>33. ASSUME NEW d \in Dispatch, Run(d) PROVE Effects'
  BY <1>33 DEF Run
<1>34. ASSUME NEW d \in Dispatch, ProviderReap(d) PROVE Effects'
  BY <1>34 DEF ProviderReap
<1>36. ASSUME NEW d \in Dispatch, ProviderLate(d) PROVE Effects'
  BY <1>36 DEF ProviderLate
<1>35. ASSUME UNCHANGED vars PROVE Effects'
  BY <1>35 DEF vars
<1> HIDE DEF operation, world, TypeOK, Places, Fresh, FreshOf, Unmade, Exists, Progress,
        Effects, EffectsOf, Quiet, DispatchRecord, Executor, NoRecord, Rec
<1> QED BY [Next]_vars, <1>1, <1>2, <1>3, <1>4, <1>5, <1>6, <1>7, <1>8, <1>9,
         <1>10, <1>11, <1>12, <1>13, <1>14, <1>15, <1>16, <1>17, <1>18, <1>19,
         <1>20, <1>21, <1>22, <1>23, <1>24, <1>25, <1>26, <1>27, <1>28, <1>29,
         <1>30, <1>31, <1>32, <1>33, <1>34, <1>35, <1>36
       DEF Next, Submit, Step

\* Retained is kept by every step.
LEMMA RetainedStep ==
    ASSUME TypeOK, Places, Fresh, Progress, Retained, [Next]_vars
    PROVE  Retained'
<1> USE DEF operation, world, TypeOK, Places, Fresh, FreshOf, Unmade, Exists, Progress,
        Retained, RetainedOf, RetainedAt, Pending, DispatchRecord,
        GovernedResult, NoRecord, Rec
<1>1. ASSUME NEW p \in Proc, NEW d \in Dispatch, Execute(p, d) PROVE Retained'
  <2> HIDE DEF operation, world, TypeOK, Places, Fresh, FreshOf, Unmade, Exists, Progress, Retained, RetainedOf, RetainedAt, Pending, DispatchRecord, GovernedResult, NoRecord, Rec
  <2>1. /\ d \in Dispatch
        /\ Changed(d, new_record)
        /\ disk'[d] = new_record
    BY <1>1, ExecuteWrites
  <2>2. todo = {} /\ todo' = {} /\ Unmade(d) /\ disk[d] = NoRecord
    BY <1>1 DEF Execute, Acquire, operation, TypeOK, Places, Fresh, FreshOf
  <2>3. NoneAppears /\ (\A e \in Dispatch : e # d => disk'[e] = disk[e])
    BY <1>1, <2>1 DEF Execute, world, Changed, NoneAppears, Exists
  <2>4. /\ Vanished(d) \/ Pending(disk'[d])
        /\ disk'[d].cleanup = "PendingReconciliation" => disk'[d].exec = "Sandbox"
    BY <2>1, <2>2, <2>3, Fields
    DEF Changed, Pending, Retained, RetainedOf, Unmade, Exists, NoneAppears, Vanished
  <2>5. \A e \in Dispatch : RetainedOf(e)'
    BY <2>1, <2>2, <2>3, <2>4, RetainedFrame DEF Retained
  <2>6. RetainedAt'
    BY <1>1, <2>1, <2>2 DEF Execute, Acquire, RetainedAt
  <2> QED BY <2>5, <2>6 DEF Retained
<1>2. ASSUME NEW d \in Dispatch, ExecuteUnwritten(d) PROVE Retained'
  <2> HIDE DEF operation, world, TypeOK, Places, Fresh, FreshOf, Unmade, Exists, Progress, Retained, RetainedOf, RetainedAt, Pending, DispatchRecord, GovernedResult, NoRecord, Rec
  <2>1. /\ d \in Dispatch
        /\ Changed(d, new_record)
        /\ Added(d, persistence_result("none"), "nothing")
    BY <1>2, ExecuteUnwrittenWrites
  <2>2. todo = {} /\ todo' = {} /\ Unmade(d) /\ disk[d] = NoRecord
    BY <1>2 DEF ExecuteUnwritten, Acquire, operation, TypeOK, Places, Fresh, FreshOf
  <2>3. NoneAppears /\ (\A e \in Dispatch : e # d => disk'[e] = disk[e])
    BY <1>2, <2>1 DEF ExecuteUnwritten, world, Changed, NoneAppears, Exists
  <2>4. /\ Vanished(d) \/ Pending(disk'[d])
        /\ disk'[d].cleanup = "PendingReconciliation" => disk'[d].exec = "Sandbox"
    BY <2>1, <2>2, <2>3, Fields
    DEF Changed, Pending, Retained, RetainedOf, Unmade, Exists, NoneAppears, Vanished
  <2>5. \A e \in Dispatch : RetainedOf(e)'
    BY <2>1, <2>2, <2>3, <2>4, RetainedFrame DEF Retained
  <2>6. RetainedAt'
    BY <1>2, <2>1, <2>2 DEF ExecuteUnwritten, operation, RetainedAt, TypeOK
  <2> QED BY <2>5, <2>6 DEF Retained
<1>3. ASSUME NEW p \in Proc, NEW d \in Dispatch, ExecuteUnread(p, d) PROVE Retained'
  BY <1>3 DEF ExecuteUnread, Tell, persistence_result, Res
<1>4. ASSUME NEW p \in Proc, NEW d \in Dispatch, ExecuteCached(p, d) PROVE Retained'
  BY <1>4 DEF ExecuteCached, Tell
<1>5. ASSUME NEW p \in Proc, NEW d \in Dispatch, ExecuteReplays(p, d) PROVE Retained'
  BY <1>5 DEF ExecuteReplays, Tell, replay_result, Res
<1>6. ASSUME NEW p \in Proc, NEW d \in Dispatch, ExecuteResumes(p, d) PROVE Retained'
  BY <1>6, DispatcherAssumption DEF ExecuteResumes, Acquire
<1>7. ASSUME NEW p \in Proc, reconcile_all(p) PROVE Retained'
  BY <1>7, DispatcherAssumption DEF reconcile_all, Acquire
<1>8. ASSUME GovernanceDeclines PROVE Retained'
  BY <1>8 DEF GovernanceDeclines, Goto, Res
<1>9. ASSUME GovernanceAllows PROVE Retained'
  <2> HIDE DEF operation, world, TypeOK, Places, Fresh, FreshOf, Unmade, Exists, Progress, Retained, RetainedOf, RetainedAt, Pending, DispatchRecord, GovernedResult, NoRecord, Rec
  <2>1. /\ cur \in Dispatch
        /\ Changed(cur, select_host)
        /\ disk'[cur] = select_host
    BY <1>9, GovernanceAllowsWrites
  <2>2. todo = {} /\ todo' = {} /\ Unmade(cur)
    BY <1>9 DEF GovernanceAllows, Goto, Release, Places, Progress
  <2>3. NoneAppears /\ (\A e \in Dispatch : e # cur => disk'[e] = disk[e])
    BY <1>9, <2>1 DEF GovernanceAllows, world, Changed, NoneAppears, Exists
  <2>4. /\ Vanished(cur) \/ Pending(disk'[cur])
        /\ disk'[cur].cleanup = "PendingReconciliation" => disk'[cur].exec = "Sandbox"
    BY <2>1, <2>2, <2>3, Fields
    DEF Changed, Pending, Retained, RetainedOf, Unmade, Exists, NoneAppears, Vanished
  <2>5. \A e \in Dispatch : RetainedOf(e)'
    BY <2>1, <2>2, <2>3, <2>4, RetainedFrame DEF Retained
  <2>6. RetainedAt'
    BY <1>9, <2>1, <2>2 DEF GovernanceAllows, Goto, RetainedAt
  <2> QED BY <2>5, <2>6 DEF Retained
<1>10. ASSUME GovernanceConstrains PROVE Retained'
  <2> HIDE DEF operation, world, TypeOK, Places, Fresh, FreshOf, Unmade, Exists, Progress, Retained, RetainedOf, RetainedAt, Pending, DispatchRecord, GovernedResult, NoRecord, Rec
  <2>1. /\ cur \in Dispatch
        /\ Changed(cur, select_sandbox)
        /\ disk'[cur] = select_sandbox
    BY <1>10, GovernanceConstrainsWrites
  <2>2. todo = {} /\ todo' = {} /\ Unmade(cur)
    BY <1>10 DEF GovernanceConstrains, Goto, Release, Places, Progress
  <2>3. NoneAppears /\ (\A e \in Dispatch : e # cur => disk'[e] = disk[e])
    BY <1>10, <2>1 DEF GovernanceConstrains, world, Changed, NoneAppears, Exists
  <2>4. /\ Vanished(cur) \/ Pending(disk'[cur])
        /\ disk'[cur].cleanup = "PendingReconciliation" => disk'[cur].exec = "Sandbox"
    BY <2>1, <2>2, <2>3, Fields
    DEF Changed, Pending, Retained, RetainedOf, Unmade, Exists, NoneAppears, Vanished
  <2>5. \A e \in Dispatch : RetainedOf(e)'
    BY <2>1, <2>2, <2>3, <2>4, RetainedFrame DEF Retained
  <2>6. RetainedAt'
    BY <1>10, <2>1, <2>2, Fields DEF GovernanceConstrains, Goto, RetainedAt
  <2> QED BY <2>5, <2>6 DEF Retained
<1>11. ASSUME AllowFails PROVE Retained'
  <2> HIDE DEF operation, world, TypeOK, Places, Fresh, FreshOf, Unmade, Exists, Progress, Retained, RetainedOf, RetainedAt, Pending, DispatchRecord, GovernedResult, NoRecord, Rec
  <2>1. /\ cur \in Dispatch
        /\ Changed(cur, select_host)
        /\ Added(cur, persistence_result("Host"), "record")
    BY <1>11, AllowFailsWrites
  <2>2. todo = {} /\ todo' = {} /\ Unmade(cur)
    BY <1>11 DEF AllowFails, Goto, Release, Places, Progress
  <2>3. NoneAppears /\ (\A e \in Dispatch : e # cur => disk'[e] = disk[e])
    BY <1>11, <2>1 DEF AllowFails, world, Changed, NoneAppears, Exists
  <2>4. /\ Vanished(cur) \/ Pending(disk'[cur])
        /\ disk'[cur].cleanup = "PendingReconciliation" => disk'[cur].exec = "Sandbox"
    BY <2>1, <2>2, <2>3, Fields
    DEF Changed, Pending, Retained, RetainedOf, Unmade, Exists, NoneAppears, Vanished
  <2>5. \A e \in Dispatch : RetainedOf(e)'
    BY <2>1, <2>2, <2>3, <2>4, RetainedFrame DEF Retained
  <2>6. RetainedAt'
    BY <1>11, <2>1, <2>2 DEF AllowFails, Release, RetainedAt
  <2> QED BY <2>5, <2>6 DEF Retained
<1>12. ASSUME ConstrainFails PROVE Retained'
  <2> HIDE DEF operation, world, TypeOK, Places, Fresh, FreshOf, Unmade, Exists, Progress, Retained, RetainedOf, RetainedAt, Pending, DispatchRecord, GovernedResult, NoRecord, Rec
  <2>1. /\ cur \in Dispatch
        /\ Changed(cur, select_sandbox)
        /\ Added(cur, persistence_result("Sandbox"), "record")
    BY <1>12, ConstrainFailsWrites
  <2>2. todo = {} /\ todo' = {} /\ Unmade(cur)
    BY <1>12 DEF ConstrainFails, Goto, Release, Places, Progress
  <2>3. NoneAppears /\ (\A e \in Dispatch : e # cur => disk'[e] = disk[e])
    BY <1>12, <2>1 DEF ConstrainFails, world, Changed, NoneAppears, Exists
  <2>4. /\ Vanished(cur) \/ Pending(disk'[cur])
        /\ disk'[cur].cleanup = "PendingReconciliation" => disk'[cur].exec = "Sandbox"
    BY <2>1, <2>2, <2>3, Fields
    DEF Changed, Pending, Retained, RetainedOf, Unmade, Exists, NoneAppears, Vanished
  <2>5. \A e \in Dispatch : RetainedOf(e)'
    BY <2>1, <2>2, <2>3, <2>4, RetainedFrame DEF Retained
  <2>6. RetainedAt'
    BY <1>12, <2>1, <2>2 DEF ConstrainFails, Release, RetainedAt
  <2> QED BY <2>5, <2>6 DEF Retained
<1>13. ASSUME HostCall PROVE Retained'
  BY <1>13 DEF HostCall, Goto, Send
<1>14. ASSUME execute_host PROVE Retained'
  BY <1>14 DEF execute_host, Goto, Returns, Res
<1>15. ASSUME CreateOk PROVE Retained'
  BY <1>15 DEF CreateOk, Goto
<1>16. ASSUME CreatePossible PROVE Retained'
  BY <1>16 DEF CreatePossible, Goto, Res
<1>17. ASSUME CreateNothing PROVE Retained'
  BY <1>17 DEF CreateNothing, Goto, Res
<1>18. ASSUME WaitReady PROVE Retained'
  BY <1>18 DEF WaitReady, Goto, Res
<1>19. ASSUME WriteReady PROVE Retained'
  <2> HIDE DEF operation, world, TypeOK, Places, Fresh, FreshOf, Unmade, Exists, Progress, Retained, RetainedOf, RetainedAt, Pending, DispatchRecord, GovernedResult, NoRecord, Rec
  <2>1. /\ cur \in Dispatch
        /\ Changed(cur, sandbox_ready)
        /\ disk'[cur] = sandbox_ready
    BY <1>19, WriteReadyWrites
  <2>2. todo = {} /\ todo' = {} /\ Pending(disk[cur])
    BY <1>19 DEF WriteReady, Goto, Places, Retained, RetainedAt
  <2>3. NoneAppears /\ (\A e \in Dispatch : e # cur => disk'[e] = disk[e])
    BY <1>19, <2>1 DEF WriteReady, world, Changed, NoneAppears, Exists
  <2>4. /\ Vanished(cur) \/ Pending(disk'[cur])
        /\ disk'[cur].cleanup = "PendingReconciliation" => disk'[cur].exec = "Sandbox"
    BY <2>1, <2>2, <2>3, Fields
    DEF Changed, Pending, Retained, RetainedOf, Unmade, Exists, NoneAppears, Vanished
  <2>5. \A e \in Dispatch : RetainedOf(e)'
    BY <2>1, <2>2, <2>3, <2>4, RetainedFrame DEF Retained
  <2>6. RetainedAt'
    BY <1>19, <2>1, <2>2, Fields DEF WriteReady, Goto, RetainedAt
  <2> QED BY <2>5, <2>6 DEF Retained
<1>20. ASSUME WriteDispatchPossible PROVE Retained'
  <2> HIDE DEF operation, world, TypeOK, Places, Fresh, FreshOf, Unmade, Exists, Progress, Retained, RetainedOf, RetainedAt, Pending, DispatchRecord, GovernedResult, NoRecord, Rec
  <2>1. /\ cur \in Dispatch
        /\ Changed(cur, sandbox_dispatch_possible)
        /\ disk'[cur] = sandbox_dispatch_possible
    BY <1>20, WriteDispatchPossibleWrites
  <2>2. todo = {} /\ todo' = {} /\ Pending(disk[cur])
    BY <1>20 DEF WriteDispatchPossible, Goto, Places, Retained, RetainedAt
  <2>3. NoneAppears /\ (\A e \in Dispatch : e # cur => disk'[e] = disk[e])
    BY <1>20, <2>1 DEF WriteDispatchPossible, world, Changed, NoneAppears, Exists
  <2>4. /\ Vanished(cur) \/ Pending(disk'[cur])
        /\ disk'[cur].cleanup = "PendingReconciliation" => disk'[cur].exec = "Sandbox"
    BY <2>1, <2>2, <2>3, Fields
    DEF Changed, Pending, Retained, RetainedOf, Unmade, Exists, NoneAppears, Vanished
  <2>5. \A e \in Dispatch : RetainedOf(e)'
    BY <2>1, <2>2, <2>3, <2>4, RetainedFrame DEF Retained
  <2>6. RetainedAt'
    BY <1>20, <2>1, <2>2, Fields DEF WriteDispatchPossible, Goto, RetainedAt
  <2> QED BY <2>5, <2>6 DEF Retained
<1>21. ASSUME WriteFails PROVE Retained'
  <2> HIDE DEF operation, world, TypeOK, Places, Fresh, FreshOf, Unmade, Exists, Progress, Retained, RetainedOf, RetainedAt, Pending, DispatchRecord, GovernedResult, NoRecord, Rec
  <2>1. /\ cur \in Dispatch
        /\ \/ pc = "ready_write" /\ Changed(cur, sandbox_ready)
           \/ pc = "fence_write" /\ Changed(cur, sandbox_dispatch_possible)
    BY <1>21, WriteFailsWrites
  <2>2. todo = {} /\ todo' = {} /\ Pending(disk[cur])
    BY <1>21 DEF WriteFails, Goto, Places, Retained, RetainedAt
  <2>3. NoneAppears /\ (\A e \in Dispatch : e # cur => disk'[e] = disk[e])
    BY <1>21, <2>1 DEF WriteFails, world, Changed, NoneAppears, Exists
  <2>4. /\ Vanished(cur) \/ Pending(disk'[cur])
        /\ disk'[cur].cleanup = "PendingReconciliation" => disk'[cur].exec = "Sandbox"
    BY <2>1, <2>2, <2>3, Fields
    DEF Changed, Pending, Retained, RetainedOf, Unmade, Exists, NoneAppears, Vanished
  <2>5. \A e \in Dispatch : RetainedOf(e)'
    BY <2>1, <2>2, <2>3, <2>4, RetainedFrame DEF Retained
  <2>6. RetainedAt'
    BY <1>21, <2>1, <2>2, Fields DEF WriteFails, Goto, Res, RetainedAt, Pending, Changed
  <2> QED BY <2>5, <2>6 DEF Retained
<1>22. ASSUME ExecCall PROVE Retained'
  BY <1>22 DEF ExecCall, Goto, Send
<1>23. ASSUME ExecReturns PROVE Retained'
  BY <1>23 DEF ExecReturns, Goto, Returns, Res
<1>24. ASSUME CleanupDelete PROVE Retained'
  BY <1>24 DEF CleanupDelete, Goto
<1>25. ASSUME CleanupConfirmed PROVE Retained'
  BY <1>25 DEF CleanupConfirmed, Goto, WaitDeletedOk
<1>26. ASSUME CleanupPending PROVE Retained'
  BY <1>26 DEF CleanupPending, Goto
<1>27. ASSUME finish PROVE Retained'
  <2> HIDE DEF operation, world, TypeOK, Places, Fresh, FreshOf, Unmade, Exists, Progress, Retained, RetainedOf, RetainedAt, Pending, DispatchRecord, GovernedResult, NoRecord, Rec
  <2>1. /\ cur \in Dispatch
        /\ Changed(cur, terminal(res))
        /\ Added(cur, res, "record")
    BY <1>27, FinishWrites
  <2>2. todo = {} /\ todo' = {} /\ NoneAppears
    BY <1>27 DEF finish, Release, Places, world, NoneAppears, Exists
  <2>3. /\ ~Exists(cur) \/ Pending(res)
        /\ res.cleanup = "PendingReconciliation" => res.exec = "Sandbox"
    BY <1>27 DEF finish, Retained, RetainedAt
  <2>4. /\ Vanished(cur) \/ Pending(disk'[cur])
        /\ disk'[cur].cleanup = "PendingReconciliation" => disk'[cur].exec = "Sandbox"
    BY <2>1, <2>2, <2>3, TerminalFields
    DEF Changed, Pending, Retained, RetainedOf, NoneAppears, Vanished
  <2>5. \A e \in Dispatch : RetainedOf(e)'
    BY <2>1, <2>2, <2>4, RetainedFrame DEF Changed, Retained
  <2>6. RetainedAt'
    BY <1>27 DEF finish, Release, RetainedAt
  <2> QED BY <2>5, <2>6 DEF Retained
<1>28. ASSUME reconcile_record PROVE Retained'
  <2> HIDE DEF operation, world, TypeOK, Places, Fresh, FreshOf, Unmade, Exists, Progress, Retained, RetainedOf, RetainedAt, Pending, DispatchRecord, GovernedResult, NoRecord, Rec
  <2>1. /\ cur \in Dispatch
        /\ Changed(cur, [disk[cur] EXCEPT !.cleanup = "ConfirmedAbsent"])
        /\ \E r : /\ r.state = disk[cur].state
                  /\ r.cleanup = "ConfirmedAbsent"
                  /\ \/ mode = "resume" /\ Added(cur, r, "record") /\ Release
                     \/ /\ mode = "reconcile" /\ Goto("recon_next")
                        /\ UNCHANGED <<told, res>>
    BY <1>28, ReconcileRecordWrites
  <2>2. Vanished(cur) /\ NoneAppears /\ cur \notin todo
    BY <1>28 DEF reconcile_record, WaitDeletedOk, Retained, RetainedAt, Vanished, NoneAppears,
                 Exists, TypeOK
  <2>3. todo' \subseteq todo /\ pc' \in {"idle", "recon_next"}
    BY <2>1 DEF Release, Goto
  <2>4. disk'[cur].cleanup = "PendingReconciliation" => disk'[cur].exec = "Sandbox"
    BY <2>1 DEF Changed, TypeOK, DispatchRecord, Retained, RetainedOf
  <2>5. \A e \in Dispatch : RetainedOf(e)'
    BY <2>1, <2>2, <2>3, <2>4, RetainedFrame DEF Changed, Retained
  <2>6. RetainedAt'
    BY <2>3 DEF RetainedAt
  <2> QED BY <2>5, <2>6 DEF Retained
<1>29. ASSUME ReconcileFails PROVE Retained'
  <2>1. /\ cur \in Dispatch
        /\ \E r : /\ r.state = disk[cur].state
                  /\ r.cleanup = disk[cur].cleanup
                  /\ \/ mode = "resume" /\ Added(cur, r, "record") /\ Release
                     \/ /\ mode = "reconcile" /\ Goto("recon_next")
                        /\ UNCHANGED <<told, res>>
    <3> HIDE DEF TypeOK, Places, Rec
    <3> QED BY <1>29, ReconcileFailsTells
  <2> QED BY <1>29, <2>1 DEF ReconcileFails, Release, Goto, Res, NoResult,
             Changed, Added
<1>30. ASSUME NEW d \in Dispatch, ReconcileNext(d) PROVE Retained'
  BY <1>30 DEF ReconcileNext
<1>31. ASSUME ReconcileDone PROVE Retained'
  BY <1>31 DEF ReconcileDone, Release, NoResult, Res
<1>32. ASSUME NEW p \in Proc, Crash(p) PROVE Retained'
  BY <1>32 DEF Crash, Release, NoResult, Res
<1>33. ASSUME NEW d \in Dispatch, Run(d) PROVE Retained'
  BY <1>33 DEF Run
<1>34. ASSUME NEW d \in Dispatch, ProviderReap(d) PROVE Retained'
  BY <1>34 DEF ProviderReap
<1>36. ASSUME NEW d \in Dispatch, ProviderLate(d) PROVE Retained'
  BY <1>36 DEF ProviderLate
<1>35. ASSUME UNCHANGED vars PROVE Retained'
  BY <1>35 DEF vars
<1> HIDE DEF operation, world, TypeOK, Places, Fresh, FreshOf, Unmade, Exists, Progress,
        Retained, RetainedOf, RetainedAt, Pending, DispatchRecord,
        GovernedResult, NoRecord, Rec
<1> QED BY [Next]_vars, <1>1, <1>2, <1>3, <1>4, <1>5, <1>6, <1>7, <1>8, <1>9,
         <1>10, <1>11, <1>12, <1>13, <1>14, <1>15, <1>16, <1>17, <1>18, <1>19,
         <1>20, <1>21, <1>22, <1>23, <1>24, <1>25, <1>26, <1>27, <1>28, <1>29,
         <1>30, <1>31, <1>32, <1>33, <1>34, <1>35, <1>36
       DEF Next, Submit, Step

\* Truth is kept by every step.
LEMMA TruthStep ==
    ASSUME TypeOK, Places, Fresh, Progress, Effects, Retained, Truth,
           [Next]_vars
    PROVE  Truth'
<1> USE DEF operation, world, TypeOK, Places, Fresh, FreshOf, Unmade, Exists, Executing,
        Untold, Progress, Effects, EffectsOf, Retained, RetainedOf,
        RetainedAt, Pending, Truth, RecordTrue, CachedTrue, AnswersTrue,
        ResultTrue, Truthful, Clear, Quiet, DispatchRecord, GovernedResult,
        Executor, NoRecord, Uncached, Rec, Res
<1>1. ASSUME NEW p \in Proc, NEW d \in Dispatch, Execute(p, d) PROVE Truth'
  <2> HIDE DEF operation, world, TypeOK, Places, Fresh, FreshOf, Unmade, Exists, Executing, Untold, Progress, Effects, EffectsOf, Retained, RetainedOf, RetainedAt, Pending, Truth, RecordTrue, CachedTrue, AnswersTrue, ResultTrue, Truthful, Clear, Quiet, DispatchRecord, GovernedResult, Executor, NoRecord, Uncached, Rec, Res
  <2>1. /\ d \in Dispatch
        /\ Changed(d, new_record)
        /\ disk'[d] = new_record
    BY <1>1, ExecuteWrites
  <2>2. Quiet(d)
    BY <1>1 DEF Execute, Fresh, FreshOf
  <2>11. UNCHANGED ran /\ NoneAppears /\ \A e \in Dispatch : Quiet(e) => Quiet(e)'
    BY <1>1 DEF Execute, world, Quiet, NoneAppears, Exists
  <2>12. \A e \in Dispatch : RecordTrue(e)'
    BY <2>1, <2>11, RecordsFrame, Fields DEF Changed
  <2>13. \A e \in Dispatch : AnswersTrue(e)'
    BY <1>1, <2>11, AnswersSame DEF Execute
  <2>14. \A q \in Proc, e \in Dispatch : CachedTrue(q, e)'
    BY <1>1, <2>11, CacheFrame DEF Execute
  <2>15. ResultTrue'
    BY <1>1, <2>2 DEF Execute, Acquire, ResultTrue
  <2> QED BY <2>12, <2>13, <2>14, <2>15 DEF Truth
<1>2. ASSUME NEW d \in Dispatch, ExecuteUnwritten(d) PROVE Truth'
  <2> HIDE DEF operation, world, TypeOK, Places, Fresh, FreshOf, Unmade, Exists, Executing, Untold, Progress, Effects, EffectsOf, Retained, RetainedOf, RetainedAt, Pending, Truth, RecordTrue, CachedTrue, AnswersTrue, ResultTrue, Truthful, Clear, Quiet, DispatchRecord, GovernedResult, Executor, NoRecord, Uncached, Rec, Res
  <2>1. /\ d \in Dispatch
        /\ Changed(d, new_record)
        /\ Added(d, persistence_result("none"), "nothing")
    BY <1>2, ExecuteUnwrittenWrites
  <2>2. Quiet(d)
    BY <1>2 DEF ExecuteUnwritten, Fresh, FreshOf
  <2>11. UNCHANGED ran /\ NoneAppears /\ \A e \in Dispatch : Quiet(e) => Quiet(e)'
    BY <1>2 DEF ExecuteUnwritten, world, Quiet, NoneAppears, Exists
  <2>12. \A e \in Dispatch : RecordTrue(e)'
    BY <2>1, <2>11, RecordsFrame, Fields DEF Changed
  <2>13. \A e \in Dispatch : AnswersTrue(e)'
    BY <2>1, <2>11, AnswersFrame, Fields
  <2>14. \A q \in Proc, e \in Dispatch : CachedTrue(q, e)'
    BY <1>2, <2>11, CacheFrame DEF ExecuteUnwritten
  <2>15. ResultTrue'
    BY <1>2, <2>2 DEF ExecuteUnwritten, operation, ResultTrue, TypeOK
  <2> QED BY <2>12, <2>13, <2>14, <2>15 DEF Truth
<1>3. ASSUME NEW p \in Proc, NEW d \in Dispatch, ExecuteUnread(p, d) PROVE Truth'
  BY <1>3 DEF ExecuteUnread, Tell, persistence_result, Res
<1>4. ASSUME NEW p \in Proc, NEW d \in Dispatch, ExecuteCached(p, d) PROVE Truth'
  BY <1>4 DEF ExecuteCached, Tell
<1>5. ASSUME NEW p \in Proc, NEW d \in Dispatch, ExecuteReplays(p, d) PROVE Truth'
  BY <1>5 DEF ExecuteReplays, Tell, replay_result, Res
<1>6. ASSUME NEW p \in Proc, NEW d \in Dispatch, ExecuteResumes(p, d) PROVE Truth'
  BY <1>6, DispatcherAssumption DEF ExecuteResumes, Acquire
<1>7. ASSUME NEW p \in Proc, reconcile_all(p) PROVE Truth'
  BY <1>7, DispatcherAssumption DEF reconcile_all, Acquire
<1>8. ASSUME GovernanceDeclines PROVE Truth'
  BY <1>8 DEF GovernanceDeclines, Goto, Res
<1>9. ASSUME GovernanceAllows PROVE Truth'
  <2> HIDE DEF operation, world, TypeOK, Places, Fresh, FreshOf, Unmade, Exists, Executing, Untold, Progress, Effects, EffectsOf, Retained, RetainedOf, RetainedAt, Pending, Truth, RecordTrue, CachedTrue, AnswersTrue, ResultTrue, Truthful, Clear, Quiet, DispatchRecord, GovernedResult, Executor, NoRecord, Uncached, Rec, Res
  <2>1. /\ cur \in Dispatch
        /\ Changed(cur, select_host)
        /\ disk'[cur] = select_host
    BY <1>9, GovernanceAllowsWrites
  <2>2. Quiet(cur)
    BY <1>9 DEF GovernanceAllows, Progress
  <2>11. UNCHANGED ran /\ NoneAppears /\ \A e \in Dispatch : Quiet(e) => Quiet(e)'
    BY <1>9 DEF GovernanceAllows, world, Quiet, NoneAppears, Exists
  <2>12. \A e \in Dispatch : RecordTrue(e)'
    BY <2>1, <2>11, RecordsFrame, Fields DEF Changed
  <2>13. \A e \in Dispatch : AnswersTrue(e)'
    BY <1>9, <2>11, AnswersSame DEF GovernanceAllows
  <2>14. \A q \in Proc, e \in Dispatch : CachedTrue(q, e)'
    BY <1>9, <2>11, CacheFrame DEF GovernanceAllows
  <2>15. ResultTrue'
    BY <1>9, <2>2 DEF GovernanceAllows, Goto, ResultTrue
  <2> QED BY <2>12, <2>13, <2>14, <2>15 DEF Truth
<1>10. ASSUME GovernanceConstrains PROVE Truth'
  <2> HIDE DEF operation, world, TypeOK, Places, Fresh, FreshOf, Unmade, Exists, Executing, Untold, Progress, Effects, EffectsOf, Retained, RetainedOf, RetainedAt, Pending, Truth, RecordTrue, CachedTrue, AnswersTrue, ResultTrue, Truthful, Clear, Quiet, DispatchRecord, GovernedResult, Executor, NoRecord, Uncached, Rec, Res
  <2>1. /\ cur \in Dispatch
        /\ Changed(cur, select_sandbox)
        /\ disk'[cur] = select_sandbox
    BY <1>10, GovernanceConstrainsWrites
  <2>2. Quiet(cur)
    BY <1>10 DEF GovernanceConstrains, Progress
  <2>11. UNCHANGED ran /\ NoneAppears /\ \A e \in Dispatch : Quiet(e) => Quiet(e)'
    BY <1>10 DEF GovernanceConstrains, world, Quiet, NoneAppears, Exists
  <2>12. \A e \in Dispatch : RecordTrue(e)'
    BY <2>1, <2>11, RecordsFrame, Fields DEF Changed
  <2>13. \A e \in Dispatch : AnswersTrue(e)'
    BY <1>10, <2>11, AnswersSame DEF GovernanceConstrains
  <2>14. \A q \in Proc, e \in Dispatch : CachedTrue(q, e)'
    BY <1>10, <2>11, CacheFrame DEF GovernanceConstrains
  <2>15. ResultTrue'
    BY <1>10, <2>2 DEF GovernanceConstrains, Goto, ResultTrue
  <2> QED BY <2>12, <2>13, <2>14, <2>15 DEF Truth
<1>11. ASSUME AllowFails PROVE Truth'
  <2> HIDE DEF operation, world, TypeOK, Places, Fresh, FreshOf, Unmade, Exists, Executing, Untold, Progress, Effects, EffectsOf, Retained, RetainedOf, RetainedAt, Pending, Truth, RecordTrue, CachedTrue, AnswersTrue, ResultTrue, Truthful, Clear, Quiet, DispatchRecord, GovernedResult, Executor, NoRecord, Uncached, Rec, Res
  <2>1. /\ cur \in Dispatch
        /\ Changed(cur, select_host)
        /\ Added(cur, persistence_result("Host"), "record")
    BY <1>11, AllowFailsWrites
  <2>2. Quiet(cur) /\ Unmade(cur)
    BY <1>11 DEF AllowFails, Progress
  <2>11. UNCHANGED ran /\ NoneAppears /\ \A e \in Dispatch : Quiet(e) => Quiet(e)'
    BY <1>11 DEF AllowFails, world, Quiet, NoneAppears, Exists
  <2>12. \A e \in Dispatch : RecordTrue(e)'
    BY <2>1, <2>11, RecordsFrame, Fields DEF Changed
  <2>13. \A e \in Dispatch : AnswersTrue(e)'
    BY <2>1, <2>2, <2>11, AnswersFrame, Fields DEF Truthful, Clear, Unmade, Exists
  <2>14. \A q \in Proc, e \in Dispatch : CachedTrue(q, e)'
    BY <1>11, <2>11, CacheFrame DEF AllowFails
  <2>15. ResultTrue'
    BY <1>11, <2>2 DEF AllowFails, Release, ResultTrue
  <2> QED BY <2>12, <2>13, <2>14, <2>15 DEF Truth
<1>12. ASSUME ConstrainFails PROVE Truth'
  <2> HIDE DEF operation, world, TypeOK, Places, Fresh, FreshOf, Unmade, Exists, Executing, Untold, Progress, Effects, EffectsOf, Retained, RetainedOf, RetainedAt, Pending, Truth, RecordTrue, CachedTrue, AnswersTrue, ResultTrue, Truthful, Clear, Quiet, DispatchRecord, GovernedResult, Executor, NoRecord, Uncached, Rec, Res
  <2>1. /\ cur \in Dispatch
        /\ Changed(cur, select_sandbox)
        /\ Added(cur, persistence_result("Sandbox"), "record")
    BY <1>12, ConstrainFailsWrites
  <2>2. Quiet(cur) /\ Unmade(cur)
    BY <1>12 DEF ConstrainFails, Progress
  <2>11. UNCHANGED ran /\ NoneAppears /\ \A e \in Dispatch : Quiet(e) => Quiet(e)'
    BY <1>12 DEF ConstrainFails, world, Quiet, NoneAppears, Exists
  <2>12. \A e \in Dispatch : RecordTrue(e)'
    BY <2>1, <2>11, RecordsFrame, Fields DEF Changed
  <2>13. \A e \in Dispatch : AnswersTrue(e)'
    BY <2>1, <2>2, <2>11, AnswersFrame, Fields DEF Truthful, Clear, Unmade, Exists
  <2>14. \A q \in Proc, e \in Dispatch : CachedTrue(q, e)'
    BY <1>12, <2>11, CacheFrame DEF ConstrainFails
  <2>15. ResultTrue'
    BY <1>12, <2>2 DEF ConstrainFails, Release, ResultTrue
  <2> QED BY <2>12, <2>13, <2>14, <2>15 DEF Truth
<1>13. ASSUME HostCall PROVE Truth'
  BY <1>13 DEF HostCall, Goto, Send
<1>14. ASSUME execute_host PROVE Truth'
  <2> HIDE DEF operation, world, TypeOK, Places, Fresh, FreshOf, Unmade, Exists, Executing, Untold, Progress, Effects, EffectsOf, Retained, RetainedOf, RetainedAt, Pending, Truth, RecordTrue, CachedTrue, AnswersTrue, ResultTrue, Truthful, Clear, Quiet, DispatchRecord, GovernedResult, Executor, NoRecord, Uncached, Rec, Res
  <2>1. cur \in Dispatch
    BY <1>14 DEF execute_host, Places
  <2>2. PICK state \in DispatchState :
            Returns("Host", state) /\ res' = Res("Host", state, "NotNeeded")
    BY <1>14 DEF execute_host
  <2>3. /\ EffectsOf(cur) /\ ran[cur]["Host"] \in Nat /\ ran[cur]["Sandbox"] \in Nat
        /\ UNCHANGED <<ran, box, late, cur, disk, told, cache>>
    BY <1>14, <2>1 DEF execute_host, Goto, Effects, TypeOK, Executor
  <2>4. res'.state = state
    BY <2>2 DEF Res
  <2>5. state = "NotDispatched" => Quiet(cur)'
    BY <2>1, <2>2, <2>3 DEF Returns, EffectsOf, Quiet, TypeOK
  <2>6. state = "Completed" => ran[cur]["Host"] + ran[cur]["Sandbox"] = 1
    BY <2>2, <2>3 DEF Returns, EffectsOf
  <2>11. UNCHANGED ran /\ NoneAppears /\ \A e \in Dispatch : Quiet(e) => Quiet(e)'
    BY <2>1, <2>2, <2>3 DEF Returns, Quiet, TypeOK, NoneAppears, Exists
  <2>12. \A e \in Dispatch : RecordTrue(e)'
    BY <2>3 DEF Truth, RecordTrue
  <2>13. \A e \in Dispatch : AnswersTrue(e)'
    BY <2>3, <2>11, AnswersSame
  <2>14. \A q \in Proc, e \in Dispatch : CachedTrue(q, e)'
    BY <2>3, <2>11, CacheFrame
  <2>15. ResultTrue'
    BY <2>3, <2>4, <2>5, <2>6 DEF ResultTrue, Truthful
  <2> QED BY <2>12, <2>13, <2>14, <2>15 DEF Truth
<1>15. ASSUME CreateOk PROVE Truth'
  BY <1>15 DEF CreateOk, Goto
<1>16. ASSUME CreatePossible PROVE Truth'
  BY <1>16 DEF CreatePossible, Goto, Res
<1>17. ASSUME CreateNothing PROVE Truth'
  BY <1>17 DEF CreateNothing, Goto, Res
<1>18. ASSUME WaitReady PROVE Truth'
  BY <1>18 DEF WaitReady, Goto, Res
<1>19. ASSUME WriteReady PROVE Truth'
  <2> HIDE DEF operation, world, TypeOK, Places, Fresh, FreshOf, Unmade, Exists, Executing, Untold, Progress, Effects, EffectsOf, Retained, RetainedOf, RetainedAt, Pending, Truth, RecordTrue, CachedTrue, AnswersTrue, ResultTrue, Truthful, Clear, Quiet, DispatchRecord, GovernedResult, Executor, NoRecord, Uncached, Rec, Res
  <2>1. /\ cur \in Dispatch
        /\ Changed(cur, sandbox_ready)
        /\ disk'[cur] = sandbox_ready
    BY <1>19, WriteReadyWrites
  <2>2. Quiet(cur)
    BY <1>19 DEF WriteReady, Progress
  <2>11. UNCHANGED ran /\ NoneAppears /\ \A e \in Dispatch : Quiet(e) => Quiet(e)'
    BY <1>19 DEF WriteReady, world, Quiet, NoneAppears, Exists
  <2>12. \A e \in Dispatch : RecordTrue(e)'
    BY <2>1, <2>11, RecordsFrame, Fields DEF Changed
  <2>13. \A e \in Dispatch : AnswersTrue(e)'
    BY <1>19, <2>11, AnswersSame DEF WriteReady
  <2>14. \A q \in Proc, e \in Dispatch : CachedTrue(q, e)'
    BY <1>19, <2>11, CacheFrame DEF WriteReady
  <2>15. ResultTrue'
    BY <1>19, <2>2 DEF WriteReady, Goto, ResultTrue
  <2> QED BY <2>12, <2>13, <2>14, <2>15 DEF Truth
<1>20. ASSUME WriteDispatchPossible PROVE Truth'
  <2> HIDE DEF operation, world, TypeOK, Places, Fresh, FreshOf, Unmade, Exists, Executing, Untold, Progress, Effects, EffectsOf, Retained, RetainedOf, RetainedAt, Pending, Truth, RecordTrue, CachedTrue, AnswersTrue, ResultTrue, Truthful, Clear, Quiet, DispatchRecord, GovernedResult, Executor, NoRecord, Uncached, Rec, Res
  <2>1. /\ cur \in Dispatch
        /\ Changed(cur, sandbox_dispatch_possible)
        /\ disk'[cur] = sandbox_dispatch_possible
    BY <1>20, WriteDispatchPossibleWrites
  <2>2. Quiet(cur)
    BY <1>20 DEF WriteDispatchPossible, Progress
  <2>11. UNCHANGED ran /\ NoneAppears /\ \A e \in Dispatch : Quiet(e) => Quiet(e)'
    BY <1>20 DEF WriteDispatchPossible, world, Quiet, NoneAppears, Exists
  <2>12. \A e \in Dispatch : RecordTrue(e)'
    BY <2>1, <2>11, RecordsFrame, Fields DEF Changed
  <2>13. \A e \in Dispatch : AnswersTrue(e)'
    BY <1>20, <2>11, AnswersSame DEF WriteDispatchPossible
  <2>14. \A q \in Proc, e \in Dispatch : CachedTrue(q, e)'
    BY <1>20, <2>11, CacheFrame DEF WriteDispatchPossible
  <2>15. ResultTrue'
    BY <1>20, <2>2 DEF WriteDispatchPossible, Goto, ResultTrue
  <2> QED BY <2>12, <2>13, <2>14, <2>15 DEF Truth
<1>21. ASSUME WriteFails PROVE Truth'
  <2> HIDE DEF operation, world, TypeOK, Places, Fresh, FreshOf, Unmade, Exists, Executing, Untold, Progress, Effects, EffectsOf, Retained, RetainedOf, RetainedAt, Pending, Truth, RecordTrue, CachedTrue, AnswersTrue, ResultTrue, Truthful, Clear, Quiet, DispatchRecord, GovernedResult, Executor, NoRecord, Uncached, Rec, Res
  <2>1. /\ cur \in Dispatch
        /\ \/ pc = "ready_write" /\ Changed(cur, sandbox_ready)
           \/ pc = "fence_write" /\ Changed(cur, sandbox_dispatch_possible)
    BY <1>21, WriteFailsWrites
  <2>2. Quiet(cur)
    BY <1>21 DEF WriteFails, Progress
  <2>11. UNCHANGED ran /\ NoneAppears /\ \A e \in Dispatch : Quiet(e) => Quiet(e)'
    BY <1>21 DEF WriteFails, world, Quiet, NoneAppears, Exists
  <2>12. \A e \in Dispatch : RecordTrue(e)'
    BY <2>1, <2>11, RecordsFrame, Fields DEF Changed
  <2>13. \A e \in Dispatch : AnswersTrue(e)'
    BY <1>21, <2>11, AnswersSame DEF WriteFails
  <2>14. \A q \in Proc, e \in Dispatch : CachedTrue(q, e)'
    BY <1>21, <2>11, CacheFrame DEF WriteFails
  <2>15. ResultTrue'
    BY <1>21, <2>2 DEF WriteFails, Goto, Res, ResultTrue, Truthful, Quiet, world
  <2> QED BY <2>12, <2>13, <2>14, <2>15 DEF Truth
<1>22. ASSUME ExecCall PROVE Truth'
  BY <1>22 DEF ExecCall, Goto, Send
<1>23. ASSUME ExecReturns PROVE Truth'
  <2> HIDE DEF operation, world, TypeOK, Places, Fresh, FreshOf, Unmade, Exists, Executing, Untold, Progress, Effects, EffectsOf, Retained, RetainedOf, RetainedAt, Pending, Truth, RecordTrue, CachedTrue, AnswersTrue, ResultTrue, Truthful, Clear, Quiet, DispatchRecord, GovernedResult, Executor, NoRecord, Uncached, Rec, Res
  <2>1. cur \in Dispatch
    BY <1>23 DEF ExecReturns, Places
  <2>2. PICK state \in DispatchState :
            Returns("Sandbox", state) /\ res' = Res("Sandbox", state, "PendingReconciliation")
    BY <1>23 DEF ExecReturns
  <2>3. /\ EffectsOf(cur) /\ ran[cur]["Host"] \in Nat /\ ran[cur]["Sandbox"] \in Nat
        /\ UNCHANGED <<ran, box, late, cur, disk, told, cache>>
    BY <1>23, <2>1 DEF ExecReturns, Goto, Effects, TypeOK, Executor
  <2>4. res'.state = state
    BY <2>2 DEF Res
  <2>5. state = "NotDispatched" => Quiet(cur)'
    BY <2>1, <2>2, <2>3 DEF Returns, EffectsOf, Quiet, TypeOK
  <2>6. state = "Completed" => ran[cur]["Host"] + ran[cur]["Sandbox"] = 1
    BY <2>2, <2>3 DEF Returns, EffectsOf
  <2>11. UNCHANGED ran /\ NoneAppears /\ \A e \in Dispatch : Quiet(e) => Quiet(e)'
    BY <2>1, <2>2, <2>3 DEF Returns, Quiet, TypeOK, NoneAppears, Exists
  <2>12. \A e \in Dispatch : RecordTrue(e)'
    BY <2>3 DEF Truth, RecordTrue
  <2>13. \A e \in Dispatch : AnswersTrue(e)'
    BY <2>3, <2>11, AnswersSame
  <2>14. \A q \in Proc, e \in Dispatch : CachedTrue(q, e)'
    BY <2>3, <2>11, CacheFrame
  <2>15. ResultTrue'
    BY <2>3, <2>4, <2>5, <2>6 DEF ResultTrue, Truthful
  <2> QED BY <2>12, <2>13, <2>14, <2>15 DEF Truth
<1>24. ASSUME CleanupDelete PROVE Truth'
  BY <1>24 DEF CleanupDelete, Goto
<1>25. ASSUME CleanupConfirmed PROVE Truth'
  BY <1>25 DEF CleanupConfirmed, Goto, WaitDeletedOk
<1>26. ASSUME CleanupPending PROVE Truth'
  BY <1>26 DEF CleanupPending, Goto
<1>27. ASSUME finish PROVE Truth'
  <2> HIDE DEF operation, world, TypeOK, Places, Fresh, FreshOf, Unmade, Exists, Executing, Untold, Progress, Effects, EffectsOf, Retained, RetainedOf, RetainedAt, Pending, Truth, RecordTrue, CachedTrue, AnswersTrue, ResultTrue, Truthful, Clear, Quiet, DispatchRecord, GovernedResult, Executor, NoRecord, Uncached, Rec, Res
  <2>1. /\ cur \in Dispatch
        /\ Changed(cur, terminal(res))
        /\ Added(cur, res, "record")
    BY <1>27, FinishWrites
  <2>2. Truthful(cur, res) /\ Clear(cur, res) /\ lock \in Proc
    BY <1>27 DEF finish, Truth, ResultTrue, Clear, Retained, RetainedAt, Pending, Places, TypeOK
  <2>3. \A q \in Proc, e \in Dispatch :
            cache'[q][e] = cache[q][e] \/ (e = cur /\ cache'[q][e] = res)
    BY <1>27, <2>1, <2>2 DEF finish, TypeOK
  <2>11. UNCHANGED ran /\ NoneAppears /\ \A e \in Dispatch : Quiet(e) => Quiet(e)'
    BY <1>27 DEF finish, world, Quiet, NoneAppears, Exists
  <2>12. \A e \in Dispatch : RecordTrue(e)'
    BY <2>1, <2>2, <2>11, RecordsFrame, TerminalFields DEF Changed, Truthful
  <2>13. \A e \in Dispatch : AnswersTrue(e)'
    BY <2>1, <2>2, <2>11, AnswersFrame
  <2>14. \A q \in Proc, e \in Dispatch : CachedTrue(q, e)'
    BY <2>2, <2>3, <2>11, CacheFrame
  <2>15. ResultTrue'
    BY <1>27 DEF finish, Release, ResultTrue
  <2> QED BY <2>12, <2>13, <2>14, <2>15 DEF Truth
<1>28. ASSUME reconcile_record PROVE Truth'
  <2> HIDE DEF operation, world, TypeOK, Places, Fresh, FreshOf, Unmade, Exists, Executing, Untold, Progress, Effects, EffectsOf, Retained, RetainedOf, RetainedAt, Pending, Truth, RecordTrue, CachedTrue, AnswersTrue, ResultTrue, Truthful, Clear, Quiet, DispatchRecord, GovernedResult, Executor, NoRecord, Uncached, Rec, Res
  <2>1. /\ cur \in Dispatch
        /\ Changed(cur, [disk[cur] EXCEPT !.cleanup = "ConfirmedAbsent"])
        /\ \E r : /\ r.state = disk[cur].state
                  /\ r.cleanup = "ConfirmedAbsent"
                  /\ \/ mode = "resume" /\ Added(cur, r, "record") /\ Release
                     \/ /\ mode = "reconcile" /\ Goto("recon_next")
                        /\ UNCHANGED <<told, res>>
    BY <1>28, ReconcileRecordWrites
  <2>2. Vanished(cur) /\ NoneAppears
    BY <1>28 DEF reconcile_record, WaitDeletedOk, Vanished, NoneAppears, Exists, TypeOK
  <2>3. Truthful(cur, disk[cur])
    BY <2>1 DEF Effects, EffectsOf, Truth, RecordTrue, Truthful
  <2>4. PICK r : /\ r.state = disk[cur].state
                 /\ r.cleanup = "ConfirmedAbsent"
                 /\ \/ mode = "resume" /\ Added(cur, r, "record") /\ Release
                    \/ /\ mode = "reconcile" /\ Goto("recon_next")
                       /\ UNCHANGED <<told, res>>
    BY <2>1
  <2>5. Truthful(cur, r)
    BY <2>3, <2>4 DEF Truthful
  <2>6. disk'[cur].state = disk[cur].state
    BY <2>1 DEF Changed, TypeOK, DispatchRecord
  <2>7. ASSUME NEW q \in Proc, NEW e \in Dispatch, cache'[q][e] # cache[q][e]
        PROVE  Truthful(e, cache'[q][e]) /\ Vanished(e)
    <3>1. /\ lock \in Proc /\ q = lock /\ e = cur /\ cache[q][e] # Uncached
          /\ cache'[q][e] = [cache[q][e] EXCEPT !.cleanup = "ConfirmedAbsent"]
      BY <1>28, <2>1, <2>7 DEF reconcile_record, TypeOK
    <3>2. Truthful(e, cache[q][e])
      BY <3>1 DEF Truth, CachedTrue
    <3>3. cache[q][e] \in GovernedResult
      BY <3>1 DEF TypeOK
    <3>4. cache'[q][e].state = cache[q][e].state
      BY <3>1, <3>3 DEF GovernedResult
    <3> QED BY <2>2, <3>1, <3>2, <3>4 DEF Truthful
  <2>11. UNCHANGED ran /\ NoneAppears /\ \A e \in Dispatch : Quiet(e) => Quiet(e)'
    BY <1>28, <2>2 DEF reconcile_record, Quiet
  <2>12. \A e \in Dispatch : RecordTrue(e)'
    BY <2>1, <2>6, <2>11, RecordsFrame DEF Changed
  <2>13. \A e \in Dispatch : AnswersTrue(e)'
    BY <2>1, <2>2, <2>4, <2>5, <2>11, AnswersFrame, AnswersSame
  <2>14. \A q \in Proc, e \in Dispatch : CachedTrue(q, e)'
    BY <2>7, <2>11, CacheFrame
  <2>15. ResultTrue'
    BY <2>1 DEF Release, Goto, ResultTrue
  <2> QED BY <2>12, <2>13, <2>14, <2>15 DEF Truth
<1>29. ASSUME ReconcileFails PROVE Truth'
  <2> HIDE DEF operation, world, TypeOK, Places, Fresh, FreshOf, Unmade, Exists, Executing, Untold, Progress, Effects, EffectsOf, Retained, RetainedOf, RetainedAt, Pending, Truth, RecordTrue, CachedTrue, AnswersTrue, ResultTrue, Truthful, Clear, Quiet, DispatchRecord, GovernedResult, Executor, NoRecord, Uncached, Rec, Res
  <2>1. /\ cur \in Dispatch
        /\ \E r : /\ r.state = disk[cur].state
                  /\ r.cleanup = disk[cur].cleanup
                  /\ \/ mode = "resume" /\ Added(cur, r, "record") /\ Release
                     \/ /\ mode = "reconcile" /\ Goto("recon_next")
                        /\ UNCHANGED <<told, res>>
    BY <1>29, ReconcileFailsTells
  <2>2. disk[cur].cleanup = "PendingReconciliation"
    BY <1>29 DEF ReconcileFails, Retained, RetainedAt, Pending
  <2>3. Truthful(cur, disk[cur])
    BY <2>1 DEF Effects, EffectsOf, Truth, RecordTrue, Truthful
  <2>4. PICK r : /\ r.state = disk[cur].state
                 /\ r.cleanup = disk[cur].cleanup
                 /\ \/ mode = "resume" /\ Added(cur, r, "record") /\ Release
                    \/ /\ mode = "reconcile" /\ Goto("recon_next")
                       /\ UNCHANGED <<told, res>>
    BY <2>1
  <2>5. Truthful(cur, r) /\ Clear(cur, r)
    BY <2>2, <2>3, <2>4 DEF Truthful, Clear
  <2>11. UNCHANGED ran /\ NoneAppears /\ \A e \in Dispatch : Quiet(e) => Quiet(e)'
    BY <1>29 DEF ReconcileFails, world, Quiet, NoneAppears, Exists
  <2>12. \A e \in Dispatch : RecordTrue(e)'
    BY <1>29 DEF ReconcileFails, Truth, RecordTrue, world
  <2>13. \A e \in Dispatch : AnswersTrue(e)'
    BY <2>1, <2>4, <2>5, <2>11, AnswersFrame, AnswersSame
  <2>14. \A q \in Proc, e \in Dispatch : CachedTrue(q, e)'
    BY <1>29, <2>11, CacheFrame DEF ReconcileFails
  <2>15. ResultTrue'
    BY <2>1 DEF Release, Goto, ResultTrue
  <2> QED BY <2>12, <2>13, <2>14, <2>15 DEF Truth
<1>30. ASSUME NEW d \in Dispatch, ReconcileNext(d) PROVE Truth'
  BY <1>30 DEF ReconcileNext
<1>31. ASSUME ReconcileDone PROVE Truth'
  BY <1>31 DEF ReconcileDone, Release, NoResult, Res
<1>32. ASSUME NEW p \in Proc, Crash(p) PROVE Truth'
  BY <1>32 DEF Crash, Release, NoResult, Res
<1>33. ASSUME NEW d \in Dispatch, Run(d) PROVE Truth'
  BY <1>33 DEF Run
<1>34. ASSUME NEW d \in Dispatch, ProviderReap(d) PROVE Truth'
  BY <1>34 DEF ProviderReap
<1>36. ASSUME NEW d \in Dispatch, ProviderLate(d) PROVE Truth'
  BY <1>36 DEF ProviderLate
<1>35. ASSUME UNCHANGED vars PROVE Truth'
  BY <1>35 DEF vars
<1> HIDE DEF operation, world, TypeOK, Places, Fresh, FreshOf, Unmade, Exists, Executing,
        Untold, Progress, Effects, EffectsOf, Retained, RetainedOf,
        RetainedAt, Pending, Truth, RecordTrue, CachedTrue, AnswersTrue,
        ResultTrue, Truthful, Clear, Quiet, DispatchRecord, GovernedResult,
        Executor, NoRecord, Uncached, Rec, Res
<1> QED BY [Next]_vars, <1>1, <1>2, <1>3, <1>4, <1>5, <1>6, <1>7, <1>8, <1>9,
         <1>10, <1>11, <1>12, <1>13, <1>14, <1>15, <1>16, <1>17, <1>18, <1>19,
         <1>20, <1>21, <1>22, <1>23, <1>24, <1>25, <1>26, <1>27, <1>28, <1>29,
         <1>30, <1>31, <1>32, <1>33, <1>34, <1>35, <1>36
       DEF Next, Submit, Step

-----------------------------------------------------------------------------
\* The initial state satisfies the invariant: there is no record, no answer and
\* no sandbox, and no operation is in progress.
LEMMA InitInv == Init => Inv
<1> SUFFICES ASSUME Init PROVE Inv
  OBVIOUS
<1>1. TypeOK
  BY Constants, DispatcherAssumption DEF Init, TypeOK, Pc, Executor
<1>2. Places /\ Progress /\ RetainedAt /\ ResultTrue
  BY DEF Init, Places, Progress, RetainedAt, ResultTrue
<1>3. ASSUME NEW d \in Dispatch
      PROVE  /\ disk[d] = NoRecord /\ told[d] = {} /\ Unmade(d) /\ Quiet(d)
             /\ \A p \in Proc : cache[p][d] = Uncached
  BY DEF Init, Quiet, Executor, Unmade
<1>4. /\ NoRecord.state = "NotDispatched" /\ NoRecord.cleanup = "NotNeeded"
      /\ mode = "none" /\ todo = {}
  BY DEF Init, NoRecord, Rec
<1>5. Fresh
  BY <1>3, <1>4 DEF Fresh, FreshOf, Untold, Executing
<1>6. Effects
  <2> SUFFICES ASSUME NEW d \in Dispatch PROVE EffectsOf(d)
    BY DEF Effects
  <2>1. ran[d]["Host"] = 0 /\ ran[d]["Sandbox"] = 0 /\ inflight[d] = "none"
    BY <1>3 DEF Quiet
  <2> QED BY <1>3, <2>1 DEF EffectsOf, Quiet
<1>7. Retained
  BY <1>2, <1>3, <1>4 DEF Retained, RetainedOf, Unmade, Exists
<1>8. Truth
  BY <1>2, <1>3, <1>4 DEF Truth, RecordTrue, CachedTrue, AnswersTrue
<1> QED BY <1>1, <1>2, <1>5, <1>6, <1>7, <1>8 DEF Inv

\* The invariant holds in every reachable state.
THEOREM Invariant == Spec => []Inv
<1>1. Inv /\ [Next]_vars => Inv'
  <2> SUFFICES ASSUME Inv, [Next]_vars PROVE Inv'
    OBVIOUS
  <2> USE DEF Inv
  <2>1. TypeOK' BY TypeStep
  <2>2. Places' BY PlacesStep
  <2>3. Fresh' BY FreshStep
  <2>4. Progress' BY ProgressStep
  <2>5. Effects' BY EffectsStep
  <2>6. Retained' BY RetainedStep
  <2>7. Truth' BY TruthStep
  <2> QED BY <2>1, <2>2, <2>3, <2>4, <2>5, <2>6, <2>7
<1> QED BY InitInv, <1>1, PTL DEF Spec

\* Every value is one the types of store.rs and types.rs allow.
THEOREM TypeCorrect == Spec => []TypeOK
<1>1. Inv => TypeOK
  BY DEF Inv
<1> QED BY Invariant, <1>1, PTL

\* execute dispatches a command once at most, on whichever executor, over all
\* calls, processes, crashes and failing writes.
THEOREM OnceAtMost == Spec => []AtMostOnce
<1>1. Inv => AtMostOnce
  BY DEF Inv, Effects, EffectsOf, AtMostOnce
<1> QED BY Invariant, <1>1, PTL

\* A constrained command never reaches the host, an allowed one never gets a
\* sandbox (the match on the verdict in execute_locked).
THEOREM VerdictsAreObeyed == Spec => []VerdictObeyed
<1>1. Inv => VerdictObeyed
  BY DEF Inv, Effects, EffectsOf, Unmade, VerdictObeyed
<1> QED BY Invariant, <1>1, PTL

\* The record of a command that was sent says so (the fences before
\* HostExecutor::execute and SandboxRuntime::exec).
THEOREM EffectsAreRecorded == Spec => []EffectIsRecorded
<1>1. ASSUME Inv PROVE EffectIsRecorded
  <2>1. SUFFICES ASSUME NEW d \in Dispatch, disk[d].state = "NotDispatched"
                 PROVE  /\ inflight[d] = "none"
                        /\ ~(ran[d]["Host"] + ran[d]["Sandbox"] > 0)
    BY DEF EffectIsRecorded
  <2> QED BY <1>1, <2>1 DEF Inv, Effects, EffectsOf, Quiet
<1> QED BY Invariant, <1>1, PTL

\* A command that was reported NotDispatched from its record never runs.
THEOREM DenialsHold == Spec => []DeniedNeverRuns
<1>1. ASSUME Inv PROVE DeniedNeverRuns
  <2>1. SUFFICES ASSUME NEW d \in Dispatch, NEW a \in told[d], a.by = "record",
                        a.state = "NotDispatched"
                 PROVE  ran[d]["Host"] + ran[d]["Sandbox"] = 0 /\ inflight[d] = "none"
    BY DEF DeniedNeverRuns
  <2>2. Quiet(d)
    BY <1>1, <2>1 DEF Inv, Truth, AnswersTrue, Truthful
  <2> QED BY <2>2 DEF Quiet
<1> QED BY Invariant, <1>1, PTL

\* A command that was reported Completed ran, once.
THEOREM CompletionsAreTrue == Spec => []CompletedDidRun
<1>1. ASSUME Inv PROVE CompletedDidRun
  <2>1. SUFFICES ASSUME NEW d \in Dispatch, NEW a \in told[d], a.state = "Completed"
                 PROVE  ran[d]["Host"] + ran[d]["Sandbox"] = 1
    BY DEF CompletedDidRun
  <2>2. a.by \in {"record", "nothing"}
    BY <1>1 DEF Inv, TypeOK, Answer
  <2> QED BY <1>1, <2>1, <2>2 DEF Inv, Truth, AnswersTrue, Truthful
<1> QED BY Invariant, <1>1, PTL

\* A sandbox that exists, or that an abandoned Create may still make, is on record as one to
\* reconcile until it was reported absent; what is made after that report is not covered.
THEOREM CleanupIsRetained == Spec => []CleanupRetained
<1>1. Inv => CleanupRetained
  BY DEF Inv, Retained, RetainedOf, Pending, CleanupRetained
<1> QED BY Invariant, <1>1, PTL

\* A command reported to need no cleanup has no sandbox and no Create in flight but one that
\* was reported absent before, then and later.
THEOREM ClearedAreAbsent == Spec => []ClearedIsAbsent
<1>1. ASSUME Inv PROVE ClearedIsAbsent
  <2>1. SUFFICES ASSUME NEW d \in Dispatch, NEW a \in told[d], a.by = "record",
                        a.cleanup # "PendingReconciliation"
                 PROVE  ~Exists(d)
    BY DEF ClearedIsAbsent
  <2> QED BY <1>1, <2>1 DEF Inv, Truth, AnswersTrue, Clear
<1> QED BY Invariant, <1>1, PTL

\* A step leaves a terminal record as it is, or confirms its cleanup: the other
\* writes are for a command that is being executed, whose record is not terminal.
LEMMA FinalStep ==
    ASSUME Inv, [Next]_vars, NEW d \in Dispatch, disk[d].stage = "Terminal"
    PROVE  disk'[d] \in {disk[d], [disk[d] EXCEPT !.cleanup = "ConfirmedAbsent"]}
<1> USE DEF Inv
<1>1. ASSUME NEW p \in Proc, NEW e \in Dispatch, Execute(p, e) PROVE disk'[d] \in {disk[d], [disk[d] EXCEPT !.cleanup = "ConfirmedAbsent"]}
  BY <1>1, ExecuteWrites DEF Execute, Changed
<1>2. ASSUME NEW e \in Dispatch, ExecuteUnwritten(e) PROVE disk'[d] \in {disk[d], [disk[d] EXCEPT !.cleanup = "ConfirmedAbsent"]}
  BY <1>2, ExecuteUnwrittenWrites DEF ExecuteUnwritten, Changed
<1>3. ASSUME GovernanceAllows PROVE disk'[d] \in {disk[d], [disk[d] EXCEPT !.cleanup = "ConfirmedAbsent"]}
  <2>1. cur # d
    BY <1>3 DEF GovernanceAllows, Places, Fresh, FreshOf, Executing
  <2> QED BY <1>3, <2>1, GovernanceAllowsWrites DEF Changed
<1>4. ASSUME GovernanceConstrains PROVE disk'[d] \in {disk[d], [disk[d] EXCEPT !.cleanup = "ConfirmedAbsent"]}
  <2>1. cur # d
    BY <1>4 DEF GovernanceConstrains, Places, Fresh, FreshOf, Executing
  <2> QED BY <1>4, <2>1, GovernanceConstrainsWrites DEF Changed
<1>5. ASSUME AllowFails PROVE disk'[d] \in {disk[d], [disk[d] EXCEPT !.cleanup = "ConfirmedAbsent"]}
  <2>1. cur # d
    BY <1>5 DEF AllowFails, Places, Fresh, FreshOf, Executing
  <2> QED BY <1>5, <2>1, AllowFailsWrites DEF Changed
<1>6. ASSUME ConstrainFails PROVE disk'[d] \in {disk[d], [disk[d] EXCEPT !.cleanup = "ConfirmedAbsent"]}
  <2>1. cur # d
    BY <1>6 DEF ConstrainFails, Places, Fresh, FreshOf, Executing
  <2> QED BY <1>6, <2>1, ConstrainFailsWrites DEF Changed
<1>7. ASSUME WriteReady PROVE disk'[d] \in {disk[d], [disk[d] EXCEPT !.cleanup = "ConfirmedAbsent"]}
  <2>1. cur # d
    BY <1>7 DEF WriteReady, Places, Fresh, FreshOf, Executing
  <2> QED BY <1>7, <2>1, WriteReadyWrites DEF Changed
<1>8. ASSUME WriteDispatchPossible PROVE disk'[d] \in {disk[d], [disk[d] EXCEPT !.cleanup = "ConfirmedAbsent"]}
  <2>1. cur # d
    BY <1>8 DEF WriteDispatchPossible, Places, Fresh, FreshOf, Executing
  <2> QED BY <1>8, <2>1, WriteDispatchPossibleWrites DEF Changed
<1>9. ASSUME WriteFails PROVE disk'[d] \in {disk[d], [disk[d] EXCEPT !.cleanup = "ConfirmedAbsent"]}
  <2>1. cur # d
    BY <1>9 DEF WriteFails, Places, Fresh, FreshOf, Executing
  <2> QED BY <1>9, <2>1, WriteFailsWrites DEF Changed
<1>10. ASSUME finish PROVE disk'[d] \in {disk[d], [disk[d] EXCEPT !.cleanup = "ConfirmedAbsent"]}
  <2>1. cur # d
    BY <1>10 DEF finish, Places, Fresh, FreshOf, Executing
  <2> QED BY <1>10, <2>1, FinishWrites DEF Changed
<1>11. ASSUME reconcile_record PROVE disk'[d] \in {disk[d], [disk[d] EXCEPT !.cleanup = "ConfirmedAbsent"]}
  BY <1>11, ReconcileRecordWrites DEF Changed
<1>12. ASSUME UNCHANGED disk PROVE disk'[d] \in {disk[d], [disk[d] EXCEPT !.cleanup = "ConfirmedAbsent"]}
  BY <1>12
<1> QED BY [Next]_vars, <1>1, <1>2, <1>3, <1>4, <1>5, <1>6, <1>7, <1>8, <1>9,
         <1>10, <1>11, <1>12
    DEF Next, Submit, Step, vars, ExecuteUnread, ExecuteCached,
        ExecuteReplays, ExecuteResumes, reconcile_all, GovernanceDeclines,
        HostCall, execute_host, CreateOk, CreatePossible, CreateNothing,
        WaitReady, ExecCall, ExecReturns, CleanupDelete, CleanupConfirmed,
        CleanupPending, ReconcileFails, ReconcileNext, ReconcileDone, Crash,
        Run, ProviderReap, ProviderLate

\* A terminal record is final but for its cleanup.
THEOREM RecordsAreFinal == Spec => RecordIsFinal
<1>1. Inv /\ [Next]_vars =>
        [\A d \in Dispatch :
            disk[d].stage = "Terminal" =>
                disk'[d] \in {disk[d], [disk[d] EXCEPT !.cleanup = "ConfirmedAbsent"]}]_vars
  BY FinalStep
<1> QED BY Invariant, <1>1, PTL DEF Spec, RecordIsFinal

\* What execute causes outside is governed and on record: once at most, by the executor
\* of the verdict, with a record that reconciliation can act on until the provider reported
\* the sandbox absent.
THEOREM EffectsStayGoverned == Spec => []EffectsAreGoverned
<1>1. AtMostOnce /\ VerdictObeyed /\ EffectIsRecorded /\ CleanupRetained => EffectsAreGoverned
  BY DEF EffectsAreGoverned
<1> QED
  BY <1>1, OnceAtMost, VerdictsAreObeyed, EffectsAreRecorded, CleanupIsRetained, PTL

\* What execute and reconcile_pending answer from a record is true, then and later; of the
\* sandbox, as true as the report of absence it rests on.
THEOREM AnswersStayTrue == Spec => []AnswersAreTrue
<1>1. DeniedNeverRuns /\ CompletedDidRun /\ ClearedIsAbsent => AnswersAreTrue
  BY DEF AnswersAreTrue
<1> QED BY <1>1, DenialsHold, CompletionsAreTrue, ClearedAreAbsent, PTL

-----------------------------------------------------------------------------
(***************************************************************************)
(* One process.  The cache of a process is updated by its own operations   *)
(* only, so with several processes it may be behind the record.            *)
(***************************************************************************)
\* A result that is about to be cached is not behind the record either.
FinishIsFresh ==
    pc = "finish" /\ res.cleanup = "PendingReconciliation" =>
        disk[cur].cleanup = "PendingReconciliation"
FreshCache == CacheIsFresh /\ FinishIsFresh

\* A step that changes the records of commands nobody has cached, or leaves them
\* pending, does not put a cache behind them.
LEMMA FreshFrame ==
    ASSUME CacheIsFresh, UNCHANGED cache,
           \A d \in Dispatch : \/ disk'[d].cleanup = disk[d].cleanup
                               \/ disk'[d].cleanup = "PendingReconciliation"
                               \/ Untold(d)
    PROVE  CacheIsFresh'
<1> SUFFICES ASSUME NEW p \in Proc, NEW d \in Dispatch,
                    cache[p][d].cleanup = "PendingReconciliation"
             PROVE  disk'[d].cleanup = "PendingReconciliation"
  BY DEF CacheIsFresh
<1>1. disk[d].cleanup = "PendingReconciliation"
  BY DEF CacheIsFresh
<1>2. ~Untold(d)
  BY DEF Untold, Uncached, Res
<1> QED BY <1>1, <1>2

\* The record of a command may be written while nobody has its result cached: before
\* the first record, and while it is executed.
LEMMA UntoldWhileExecuted ==
    ASSUME Inv, NEW d \in Dispatch, disk[d].stage = "none" \/ Executing(d)
    PROVE  Untold(d)
BY DEF Inv, Fresh, FreshOf

\* A step of the only process leaves its cache level with the records.
LEMMA CacheStep ==
    ASSUME Inv, FreshCache, \A p, q \in Proc : p = q, [Next]_vars
    PROVE  FreshCache'
<1> USE DEF FreshCache
<1> USE DEF operation, world
<1>1. ASSUME NEW p \in Proc, NEW e \in Dispatch, Execute(p, e) PROVE FreshCache'
  <2>1. Changed(e, new_record) /\ Untold(e) /\ UNCHANGED cache /\ pc' = "governance"
    BY <1>1, ExecuteWrites, UntoldWhileExecuted DEF Execute, Acquire, Inv
  <2> QED BY <2>1, FreshFrame DEF Changed, FinishIsFresh
<1>2. ASSUME NEW e \in Dispatch, ExecuteUnwritten(e) PROVE FreshCache'
  <2>1. Changed(e, new_record) /\ Untold(e) /\ UNCHANGED <<cache, pc>>
    BY <1>2, ExecuteUnwrittenWrites, UntoldWhileExecuted DEF ExecuteUnwritten, Inv
  <2>2. pc = "idle"
    BY <1>2 DEF ExecuteUnwritten, Inv, TypeOK
  <2> QED BY <2>1, <2>2, FreshFrame DEF Changed, FinishIsFresh
<1>3. ASSUME GovernanceAllows PROVE FreshCache'
  <2>1. Changed(cur, select_host) /\ UNCHANGED cache /\ pc' = "host_call" /\ cur \in Dispatch
    BY <1>3, GovernanceAllowsWrites DEF GovernanceAllows, Goto, Inv
  <2>2. Untold(cur)
    BY <1>3, <2>1, UntoldWhileExecuted DEF GovernanceAllows, Inv, Places, Executing
  <2> QED BY <2>1, <2>2, FreshFrame DEF Changed, FinishIsFresh
<1>4. ASSUME GovernanceConstrains PROVE FreshCache'
  <2>1. Changed(cur, select_sandbox) /\ UNCHANGED cache /\ pc' = "create_call" /\ cur \in Dispatch
    BY <1>4, GovernanceConstrainsWrites DEF GovernanceConstrains, Goto, Inv
  <2> QED BY <2>1, Fields, FreshFrame DEF Changed, FinishIsFresh, Pending
<1>5. ASSUME AllowFails PROVE FreshCache'
  <2>1. Changed(cur, select_host) /\ UNCHANGED cache /\ pc' = "idle" /\ cur \in Dispatch
    BY <1>5, AllowFailsWrites DEF AllowFails, Release, Inv
  <2>2. Untold(cur)
    BY <1>5, <2>1, UntoldWhileExecuted DEF AllowFails, Inv, Places, Executing
  <2> QED BY <2>1, <2>2, FreshFrame DEF Changed, FinishIsFresh
<1>6. ASSUME ConstrainFails PROVE FreshCache'
  <2>1. Changed(cur, select_sandbox) /\ UNCHANGED cache /\ pc' = "idle" /\ cur \in Dispatch
    BY <1>6, ConstrainFailsWrites DEF ConstrainFails, Release, Inv
  <2> QED BY <2>1, Fields, FreshFrame DEF Changed, FinishIsFresh, Pending
<1>7. ASSUME WriteReady PROVE FreshCache'
  <2>1. Changed(cur, sandbox_ready) /\ UNCHANGED cache /\ pc' = "fence_write" /\ cur \in Dispatch
    BY <1>7, WriteReadyWrites DEF WriteReady, Goto, Inv
  <2> QED BY <2>1, Fields, FreshFrame DEF Changed, FinishIsFresh, Pending
<1>8. ASSUME WriteDispatchPossible PROVE FreshCache'
  <2>1. Changed(cur, sandbox_dispatch_possible) /\ UNCHANGED cache /\ pc' = "exec_call" /\ cur \in Dispatch
    BY <1>8, WriteDispatchPossibleWrites DEF WriteDispatchPossible, Goto, Inv
  <2> QED BY <2>1, Fields, FreshFrame DEF Changed, FinishIsFresh, Pending
<1>9. ASSUME WriteFails PROVE FreshCache'
  <2>1. /\ Changed(cur, sandbox_ready) \/ Changed(cur, sandbox_dispatch_possible)
        /\ UNCHANGED cache /\ pc' = "delete_call" /\ cur \in Dispatch
    BY <1>9, WriteFailsWrites DEF WriteFails, Goto, Inv
  <2> QED BY <2>1, Fields, FreshFrame DEF Changed, FinishIsFresh, Pending
<1>10. ASSUME finish PROVE FreshCache'
  <2>1. Changed(cur, terminal(res)) /\ pc' = "idle" /\ cur \in Dispatch /\ pc = "finish"
    BY <1>10, FinishWrites DEF finish, Release, Inv
  <2>2. lock \in Proc /\ cache \in [Proc -> [Dispatch -> GovernedResult \cup {Uncached}]]
    BY <2>1 DEF Inv, TypeOK
  <2>3. ASSUME NEW p \in Proc, NEW d \in Dispatch,
               cache'[p][d].cleanup = "PendingReconciliation"
        PROVE  disk'[d].cleanup = "PendingReconciliation"
    <3>1. CASE d = cur
      <4>1. cache'[p][d] = res
        BY <1>10, <2>2, <3>1 DEF finish
      <4>2. disk[d].cleanup = "PendingReconciliation"
        BY <2>1, <2>3, <3>1, <4>1 DEF FinishIsFresh
      <4> QED BY <2>1, <2>3, <3>1, <4>1, <4>2, TerminalFields DEF Changed
    <3>2. CASE d # cur
      <4>1. cache'[p][d] = cache[p][d]
        BY <1>10, <2>1, <2>2, <3>2 DEF finish
      <4> QED BY <2>1, <2>3, <3>2, <4>1 DEF Changed, CacheIsFresh
    <3> QED BY <3>1, <3>2
  <2> QED BY <2>1, <2>3 DEF CacheIsFresh, FinishIsFresh
<1>11. ASSUME reconcile_record PROVE FreshCache'
  <2>1. /\ Changed(cur, [disk[cur] EXCEPT !.cleanup = "ConfirmedAbsent"])
        /\ cur \in Dispatch /\ pc' # "finish" /\ pc = "gone_call"
    BY <1>11, ReconcileRecordWrites DEF reconcile_record, Release, Goto, Inv
  <2>2. lock \in Proc /\ cache \in [Proc -> [Dispatch -> GovernedResult \cup {Uncached}]]
    BY <2>1 DEF Inv, TypeOK
  <2>3. ASSUME NEW p \in Proc, NEW d \in Dispatch,
               cache'[p][d].cleanup = "PendingReconciliation"
        PROVE  disk'[d].cleanup = "PendingReconciliation"
    <3>1. p = lock
      BY <2>2
    <3>2. d # cur
      <4>1. SUFFICES ASSUME d = cur PROVE FALSE
        OBVIOUS
      <4>2. CASE cache[lock][cur] = Uncached
        BY <1>11, <2>3, <3>1, <4>1, <4>2 DEF reconcile_record, Uncached, Res
      <4>3. CASE cache[lock][cur] # Uncached
        <5>1. cache[lock][cur] \in GovernedResult
          BY <2>1, <2>2, <4>3
        <5>2. cache'[lock][cur] = [cache[lock][cur] EXCEPT !.cleanup = "ConfirmedAbsent"]
          BY <1>11, <2>1, <2>2, <4>3 DEF reconcile_record
        <5>3. cache'[lock][cur].cleanup = "ConfirmedAbsent"
          BY <5>1, <5>2 DEF GovernedResult
        <5> QED BY <2>3, <3>1, <4>1, <5>3
      <4> QED BY <4>2, <4>3
    <3>3. cache'[p][d] = cache[p][d]
      BY <1>11, <2>1, <2>2, <3>2 DEF reconcile_record
    <3> QED BY <2>1, <2>3, <3>2, <3>3 DEF Changed, CacheIsFresh
  <2> QED BY <2>1, <2>3 DEF CacheIsFresh, FinishIsFresh
<1>12. ASSUME CreateNothing PROVE FreshCache'
  <2>1. UNCHANGED <<disk, cache>> /\ res' = Res("Sandbox", "NotDispatched", "NotNeeded")
    BY <1>12 DEF CreateNothing
  <2> QED BY <2>1 DEF CacheIsFresh, FinishIsFresh, Res
<1>13. ASSUME execute_host PROVE FreshCache'
  <2>1. UNCHANGED <<disk, cache>> /\ \E s \in DispatchState : res' = Res("Host", s, "NotNeeded")
    BY <1>13 DEF execute_host
  <2> QED BY <2>1 DEF CacheIsFresh, FinishIsFresh, Res
<1>14. ASSUME GovernanceDeclines PROVE FreshCache'
  <2>1. UNCHANGED <<disk, cache>> /\ res' = Res("none", "NotDispatched", "NotNeeded")
    BY <1>14 DEF GovernanceDeclines
  <2> QED BY <2>1 DEF CacheIsFresh, FinishIsFresh, Res
<1>15. ASSUME CleanupConfirmed \/ CleanupPending PROVE FreshCache'
  <2>1. UNCHANGED <<disk, cache, cur>> /\ pc = "gone_call"
    BY <1>15 DEF CleanupConfirmed, CleanupPending, Goto
  <2>2. disk[cur].cleanup = "PendingReconciliation"
    BY <2>1 DEF Inv, Retained, RetainedAt, Pending
  <2> QED BY <2>1, <2>2 DEF CacheIsFresh, FinishIsFresh
<1>16. ASSUME NEW p \in Proc, Crash(p) PROVE FreshCache'
  <2>1. UNCHANGED disk /\ (pc' = "idle" \/ UNCHANGED <<pc, cur, res>>)
    BY <1>16 DEF Crash, Release
  <2>2. ASSUME NEW q \in Proc, NEW d \in Dispatch PROVE cache'[q][d] = Uncached
    BY <1>16 DEF Crash, Inv, TypeOK
  <2> QED BY <2>1, <2>2 DEF CacheIsFresh, FinishIsFresh, Uncached, Res
<1>17. ASSUME UNCHANGED <<disk, cache>>,
              pc' # "finish" \/ UNCHANGED <<pc, cur, res>>
       PROVE  FreshCache'
  BY <1>17 DEF CacheIsFresh, FinishIsFresh
<1>18. ASSUME Submit PROVE FreshCache'
  BY <1>1, <1>2, <1>17, <1>18
    DEF Submit, ExecuteUnread, ExecuteCached, ExecuteReplays, ExecuteResumes,
        reconcile_all, Acquire
<1>19. ASSUME Step PROVE FreshCache'
  BY <1>3, <1>4, <1>5, <1>6, <1>7, <1>8, <1>9, <1>10, <1>11, <1>12, <1>13, <1>14,
     <1>15, <1>17, <1>19
    DEF Step, HostCall, CreateOk, CreatePossible, WaitReady, ExecCall, ExecReturns,
        CleanupDelete, ReconcileFails, Visited, ReconcileNext, ReconcileDone, Goto,
        Release
<1>20. ASSUME UNCHANGED vars PROVE FreshCache'
  BY <1>17, <1>20 DEF vars
<1>21. ASSUME NEW d \in Dispatch, Run(d) \/ ProviderReap(d) \/ ProviderLate(d)
       PROVE  FreshCache'
  BY <1>17, <1>21 DEF Run, ProviderReap, ProviderLate
<1> QED BY <1>16, <1>18, <1>19, <1>20, <1>21 DEF Next

\* With one process, a cleanup that is confirmed on disk is not reported as pending from
\* the cache, whatever writes failed and crashes happened in between.
THEOREM CacheStaysFresh ==
    ASSUME \A p, q \in Proc : p = q
    PROVE  Spec => []CacheIsFresh
<1>1. Init => FreshCache
  BY DEF Init, FreshCache, CacheIsFresh, FinishIsFresh, Uncached, Res
<1>2. Inv /\ FreshCache /\ [Next]_vars => FreshCache'
  BY CacheStep
<1>3. FreshCache => CacheIsFresh
  BY DEF FreshCache
<1> QED BY <1>1, <1>2, <1>3, Invariant, PTL DEF Spec
=============================================================================
