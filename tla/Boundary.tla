------------------------------- MODULE Boundary -------------------------------
(***************************************************************************)
(* The sandbox service boundary (src/service/boundary.rs): concurrent      *)
(* request handlers that pass one owned entry per sandbox among            *)
(* themselves, the durable record store they write (src/service/store.rs), *)
(* the provider behind the runtime trait, crashes of the process and the   *)
(* startup reconciliation that follows a restart.                          *)
(*                                                                         *)
(* A handler is a task of the async runtime, so it may be interleaved with *)
(* every other handler at each await: an action is what a handler does     *)
(* between two awaits.  A request that is refused at its first check       *)
(* changes nothing and is not an action.  Capability tokens are abstracted *)
(* to whether they match the entry they are compared with: a token that    *)
(* does not match makes the handler refuse the request.                    *)
(***************************************************************************)
EXTENDS Naturals, FiniteSets

CONSTANTS
    Id,          \* request-owned sandbox identifiers
    Foreign,     \* identifiers whose sandbox somebody else already created
    Caller,      \* authenticated client certificates
    Op,          \* slots for the operations that run concurrently
    NoId,        \* no identifier
    NoCaller,    \* no caller
    MaxCreates,  \* bound: Create requests sent for one identifier
    MaxCrashes   \* bound: crashes of the service process

ASSUME BoundaryAssumption ==
    /\ Foreign \subseteq Id
    /\ NoId \notin Id
    /\ NoCaller \notin Caller
    /\ MaxCreates \in Nat
    /\ MaxCrashes \in Nat

VARIABLES
    svc,       \* the process: "down", "reconciling" or "serving"
    draining,  \* the draining flag
    recon,     \* the loop variables of reconcile_startup
    owned,     \* the map of owned entries that no handler holds
    prepared,  \* who prepared an execution for an identifier
    pc,        \* where each operation is
    req,       \* the request each operation handles
    held,      \* the lifecycle of the entry an operation holds
    woken,     \* the cleanup waiters whose Notified future has fired
    disk,      \* the durable records
    box,       \* the sandbox at the provider; "stray" if it was reported absent and is there
    late,      \* a Create that was given up in flight, and whether absence was reported since
    execs,     \* history: commands started in a sandbox
    released,  \* history: identifiers the caller was told to forget
    creates,   \* bound: Create requests admitted for an identifier
    crashes    \* bound: crashes so far

memory  == <<owned, prepared, pc, req, held, woken>>
process == <<svc, draining, recon>>
outside == <<box, late, execs>>
history == <<released, creates, crashes>>
vars == <<memory, process, disk, outside, history>>

-----------------------------------------------------------------------------
Stage == {"CreatePossible", "Created", "Ready", "ExecPossible",
          "CleanupOnly", "DeletePending", "Unowned"}

Lifecycle == {"Created", "Ready", "CleanupOnly"}

Kind == {"create", "wait_ready", "prepare", "commit", "delete", "wait_deleted"}

\* A stage, a lifecycle or a kind "none" stands for no file, no map entry and
\* no operation.  Of a record only what is read back is kept; the copy of the
\* record in an owned entry is never read, so the entry keeps its caller only.
DurableRecord == [caller : Caller \cup {NoCaller}, stage : Stage \cup {"none"}]
OwnedEntry == [caller : Caller \cup {NoCaller}, life : Lifecycle \cup {"none"}]
Request == [kind : Kind \cup {"none"}, id : Id \cup {NoId},
            who : Caller \cup {NoCaller}]
Reconciliation == [todo : SUBSET Id, cur : Id \cup {NoId},
                   step : {"next", "wait", "remove"}, unresolved : SUBSET Id]

NoRecord == [caller |-> NoCaller, stage |-> "none"]
NoEntry  == [caller |-> NoCaller, life |-> "none"]
NoReq    == [kind |-> "none", id |-> NoId, who |-> NoCaller]
NoRecon  == [todo |-> {}, cur |-> NoId, step |-> "next", unresolved |-> {}]

\* Before the Create handler has called the provider, or after it failed.
CreatePc == {"create_claim", "create_fence", "create_call", "create_record",
             "unown_write", "unown_remove"}

\* The handler holds the entry of its identifier: it is in no map.
HolderPc == {"cleanup_write", "ready_call", "ready_record", "exec_fence",
             "exec_call", "exec_running", "delete_forget", "delete_fence",
             "delete_call", "gone_call", "gone_remove", "put"}

AcquirePc == {"acquire_take", "acquire_load", "acquire_wait"}

OtherPc == {"idle", "prepare_check", "prepare_insert", "commit_token",
            "commit_take"}

Pc == CreatePc \cup HolderPc \cup AcquirePc \cup OtherPc

OwnedBy(i, c) == owned[i].life # "none" /\ owned[i].caller = c

\* Operation o is the one that may write the record of identifier i.
Claims(o, i) == req[o].id = i /\ pc[o] \in CreatePc \cup HolderPc

\* Every value is one the code can hold: the stages, lifecycles and loop states
\* of boundary.rs and store.rs.
TypeOK ==
    /\ svc \in {"down", "reconciling", "serving"}
    /\ draining \in BOOLEAN
    /\ recon \in Reconciliation
    /\ owned \in [Id -> OwnedEntry]
    /\ prepared \in [Id -> Caller \cup {NoCaller}]
    /\ pc \in [Op -> Pc]
    /\ req \in [Op -> Request]
    /\ held \in [Op -> Lifecycle \cup {"none"}]
    /\ woken \in SUBSET Op
    /\ disk \in [Id -> DurableRecord]
    /\ box \in [Id -> {"absent", "live", "deleting", "stray"}]
    /\ late \in [Id -> {"none", "open", "seen"}]
    /\ execs \in [Id -> Nat]
    /\ released \in SUBSET Id
    /\ creates \in [Id -> Nat]
    /\ crashes \in Nat

Init ==
    /\ svc = "down"
    /\ draining = FALSE
    /\ recon = NoRecon
    /\ owned = [i \in Id |-> NoEntry]
    /\ prepared = [i \in Id |-> NoCaller]
    /\ pc = [o \in Op |-> "idle"]
    /\ req = [o \in Op |-> NoReq]
    /\ held = [o \in Op |-> "none"]
    /\ woken = {}
    /\ disk = [i \in Id |-> NoRecord]
    /\ box = [i \in Id |-> IF i \in Foreign THEN "live" ELSE "absent"]
    /\ late = [i \in Id |-> "none"]
    /\ execs = [i \in Id |-> 0]
    /\ released = {}
    /\ creates = [i \in Id |-> 0]
    /\ crashes = 0

-----------------------------------------------------------------------------
(***************************************************************************)
(* Building blocks: the steps of an operation and the durable store.       *)
(***************************************************************************)
Begin(o, k, i, c, p) ==
    /\ svc = "serving"
    /\ pc[o] = "idle"
    /\ pc' = [pc EXCEPT ![o] = p]
    /\ req' = [req EXCEPT ![o] = [kind |-> k, id |-> i, who |-> c]]

Goto(o, p) == pc' = [pc EXCEPT ![o] = p]

\* The response is sent; the slot is free for another operation.
Finish(o) ==
    /\ pc' = [pc EXCEPT ![o] = "idle"]
    /\ req' = [req EXCEPT ![o] = NoReq]
    /\ held' = [held EXCEPT ![o] = "none"]
    /\ woken' = woken \ {o}

Result == {"ok", "error"}

\* A write replaces the record by a rename and then syncs the directory: one
\* that reports a failure may still have replaced the record.
write_record(i, c, stage, res) ==
    \/ disk' = [disk EXCEPT ![i] = [caller |-> c, stage |-> stage]]
    \/ res = "error" /\ UNCHANGED disk

\* So may a removal that reports a failure have removed it.
remove_record(i, res) ==
    \/ disk' = [disk EXCEPT ![i] = NoRecord]
    \/ res = "error" /\ UNCHANGED disk

\* take_owned: the entry leaves the map and belongs to the operation.
Take(o) ==
    /\ owned' = [owned EXCEPT ![req[o].id] = NoEntry]
    /\ held' = [held EXCEPT ![o] = owned[req[o].id].life]

reject_new_work == draining \/ svc # "serving"

\* put_owned: the entry returns to the map, every waiter that has created its
\* Notified future is woken, and the response follows.
put_owned(o) ==
    /\ pc[o] = "put"
    /\ owned' = [owned EXCEPT ![req[o].id] =
                    [caller |-> req[o].who, life |-> held[o]]]
    /\ pc' = [pc EXCEPT ![o] = "idle"]
    /\ req' = [req EXCEPT ![o] = NoReq]
    /\ held' = [held EXCEPT ![o] = "none"]
    /\ woken' = {p \in Op : pc[p] \in AcquirePc}
    /\ UNCHANGED <<prepared, process, disk, outside, history>>

\* Fault: the operation answers without putting the entry back.
CleanupWriteDrops(o) ==
    /\ pc[o] = "cleanup_write"
    /\ \E res \in Result : write_record(req[o].id, req[o].who, "CleanupOnly", res)
    /\ Finish(o)
    /\ UNCHANGED <<owned, prepared, process, outside, history>>

\* Every later failure drops the entry to CleanupOnly; the write is best effort.
CleanupWrite(o) ==
    /\ pc[o] = "cleanup_write"
    /\ \E res \in Result : write_record(req[o].id, req[o].who, "CleanupOnly", res)
    /\ held' = [held EXCEPT ![o] = "CleanupOnly"]
    /\ Goto(o, "put")
    /\ UNCHANGED <<owned, prepared, req, woken, process, outside, history>>

-----------------------------------------------------------------------------
(***************************************************************************)
(* Create.                                                                 *)
(***************************************************************************)
CreateAdmit(o, i, c) ==
    /\ ~reject_new_work
    /\ creates[i] < MaxCreates
    /\ Begin(o, "create", i, c, "create_claim")
    /\ creates' = [creates EXCEPT ![i] = @ + 1]
    /\ UNCHANGED <<owned, prepared, held, woken, process, disk, outside,
                   released, crashes>>

\* The check that the identifier is not owned is not atomic with put_owned,
\* and an entry another operation holds is not in the map.
CreateClaim(o) ==
    /\ pc[o] = "create_claim"
    /\ owned[req[o].id].life = "none"
    /\ Goto(o, "create_fence")
    /\ UNCHANGED <<owned, prepared, req, held, woken, process, disk, outside, history>>

\* Fault: the result of the first write is ignored.
CreateFenceUnchecked(o) ==
    /\ pc[o] = "create_fence"
    /\ \E res \in Result :
        write_record(req[o].id, req[o].who, "CreatePossible", res)
    /\ Goto(o, "create_call")
    /\ UNCHANGED <<owned, prepared, req, held, woken, process, outside, history>>

\* CreatePossible is durable before the provider is called.
CreateFence(o) ==
    /\ pc[o] = "create_fence"
    /\ write_record(req[o].id, req[o].who, "CreatePossible", "ok")
    /\ Goto(o, "create_call")
    /\ UNCHANGED <<owned, prepared, req, held, woken, process, outside, history>>

\* The failure names no cleanup target.
CreateFenceFails(o) ==
    /\ pc[o] = "create_fence"
    /\ write_record(req[o].id, req[o].who, "CreatePossible", "error")
    /\ Finish(o)
    /\ released' = released \cup {req[o].id}
    /\ UNCHANGED <<owned, prepared, process, outside, creates, crashes>>

\* Fault: an identifier that exists already counts as created.
RuntimeCreateAdopts(o) ==
    /\ pc[o] = "create_call"
    /\ box' = [box EXCEPT ![req[o].id] = "live"]
    /\ Goto(o, "create_record")
    /\ UNCHANGED <<owned, prepared, req, held, woken, process, disk, late, execs, history>>

\* The provider creates the sandbox and says so.
RuntimeCreateOk(o) ==
    /\ pc[o] = "create_call"
    /\ box[req[o].id] = "absent"
    /\ box' = [box EXCEPT ![req[o].id] = "live"]
    /\ Goto(o, "create_record")
    /\ UNCHANGED <<owned, prepared, req, held, woken, process, disk, late, execs, history>>

\* PossiblyCreated: the provider did nothing, has created the sandbox, or may still do so,
\* since the call is dropped with its budget; cleanup is mandatory.
RuntimeCreatePossible(o) ==
    /\ pc[o] = "create_call"
    /\ \/ UNCHANGED <<box, late>>
       \/ /\ box[req[o].id] = "absent"
          /\ \/ box' = [box EXCEPT ![req[o].id] = "live"] /\ UNCHANGED late
             \/ late' = [late EXCEPT ![req[o].id] = "open"] /\ UNCHANGED box
    /\ Goto(o, "cleanup_write")
    /\ UNCHANGED <<owned, prepared, req, held, woken, process, disk, execs, history>>

\* NotCreated or Conflict: no cleanup target, this request created nothing.
RuntimeCreateNothing(o) ==
    /\ pc[o] = "create_call"
    /\ Goto(o, "unown_write")
    /\ UNCHANGED <<owned, prepared, req, held, woken, process, disk, outside,
                   released, creates, crashes>>

CreateRecord(o) ==
    /\ pc[o] = "create_record"
    /\ \E res \in Result :
        /\ write_record(req[o].id, req[o].who, "Created", res)
        /\ held' = [held EXCEPT ![o] = IF res = "ok" THEN "Created" ELSE "CleanupOnly"]
    /\ Goto(o, "put")
    /\ UNCHANGED <<owned, prepared, req, woken, process, outside, history>>

UnownWrite(o) ==
    /\ pc[o] = "unown_write"
    /\ \E res \in Result : write_record(req[o].id, req[o].who, "Unowned", res)
    /\ Goto(o, "unown_remove")
    /\ UNCHANGED <<owned, prepared, req, held, woken, process, outside, history>>

\* No waiter is notified: a cleanup waiting for this entry ends at its deadline.
UnownRemove(o) ==
    /\ pc[o] = "unown_remove"
    /\ \E res \in Result : remove_record(req[o].id, res)
    /\ Finish(o)
    /\ released' = released \cup {req[o].id}
    /\ UNCHANGED <<owned, prepared, process, outside, creates, crashes>>

-----------------------------------------------------------------------------
(***************************************************************************)
(* WaitReady.                                                              *)
(***************************************************************************)
WaitReadyTake(o, i, c) ==
    /\ OwnedBy(i, c)
    /\ owned' = [owned EXCEPT ![i] = NoEntry]
    /\ held' = [held EXCEPT ![o] = owned[i].life]
    /\ \E next \in IF owned[i].life = "Created"
                     THEN {"ready_call", "cleanup_write"}  \* the policy differs
                     ELSE {"put"} :
          Begin(o, "wait_ready", i, c, next)
    /\ UNCHANGED <<prepared, woken, process, disk, outside, history>>

RuntimeWaitReady(o) ==
    /\ pc[o] = "ready_call"
    /\ \E next \in {"ready_record", "cleanup_write"} : Goto(o, next)
    /\ UNCHANGED <<owned, prepared, req, held, woken, process, disk, outside, history>>

ReadyRecord(o) ==
    /\ pc[o] = "ready_record"
    /\ \E res \in Result :
        /\ write_record(req[o].id, req[o].who, "Ready", res)
        /\ held' = [held EXCEPT ![o] = IF res = "ok" THEN "Ready" ELSE "CleanupOnly"]
    /\ Goto(o, "put")
    /\ UNCHANGED <<owned, prepared, req, woken, process, outside, history>>

-----------------------------------------------------------------------------
(***************************************************************************)
(* PrepareExec and CommitExec.                                             *)
(***************************************************************************)
PrepareAdmit(o, i, c) ==
    /\ ~reject_new_work
    /\ Begin(o, "prepare", i, c, "prepare_check")
    /\ UNCHANGED <<owned, prepared, held, woken, process, disk, outside, history>>

PrepareCheck(o) ==
    /\ pc[o] = "prepare_check"
    /\ OwnedBy(req[o].id, req[o].who)
    /\ owned[req[o].id].life = "Ready"
    /\ Goto(o, "prepare_insert")
    /\ UNCHANGED <<owned, prepared, req, held, woken, process, disk, outside, history>>

\* The lock on the owned map was released: the entry may have moved on.
PrepareInsert(o) ==
    /\ pc[o] = "prepare_insert"
    /\ prepared' = IF prepared[req[o].id] = NoCaller
                     THEN [prepared EXCEPT ![req[o].id] = req[o].who]
                     ELSE prepared
    /\ Finish(o)
    /\ UNCHANGED <<owned, process, disk, outside, history>>

CommitAdmit(o, i, c) ==
    /\ ~reject_new_work
    /\ Begin(o, "commit", i, c, "commit_token")
    /\ UNCHANGED <<owned, prepared, held, woken, process, disk, outside, history>>

\* The token names an execution that this caller prepared for this identifier.
CommitToken(o) ==
    /\ pc[o] = "commit_token"
    /\ prepared[req[o].id] = req[o].who
    /\ prepared' = [prepared EXCEPT ![req[o].id] = NoCaller]
    /\ Goto(o, "commit_take")
    /\ UNCHANGED <<owned, req, held, woken, process, disk, outside, history>>

\* A token of another caller or for another identifier is consumed all the same.
CommitTokenSpoiled(o, j) ==
    /\ pc[o] = "commit_token"
    /\ prepared[j] # NoCaller
    /\ prepared[j] # req[o].who \/ j # req[o].id
    /\ prepared' = [prepared EXCEPT ![j] = NoCaller]
    /\ Finish(o)
    /\ UNCHANGED <<owned, process, disk, outside, history>>

\* An entry that is not Ready, or whose preparation expired, is put back.
CommitTake(o) ==
    /\ pc[o] = "commit_take"
    /\ OwnedBy(req[o].id, req[o].who)
    /\ Take(o)
    /\ \E next \in IF owned[req[o].id].life = "Ready"
                     THEN {"exec_fence", "put"} ELSE {"put"} : Goto(o, next)
    /\ UNCHANGED <<prepared, req, woken, process, disk, outside, history>>

\* Fault: the result of the write is ignored.
ExecFenceUnchecked(o) ==
    /\ pc[o] = "exec_fence"
    /\ \E res \in Result :
        write_record(req[o].id, req[o].who, "ExecPossible", res)
    /\ Goto(o, "exec_call")
    /\ UNCHANGED <<owned, prepared, req, held, woken, process, outside, history>>

\* ExecPossible is durable before the command is dispatched.
ExecFence(o) ==
    /\ pc[o] = "exec_fence"
    /\ \E res \in Result :
        /\ write_record(req[o].id, req[o].who, "ExecPossible", res)
        /\ Goto(o, IF res = "ok" THEN "exec_call" ELSE "put")
    /\ UNCHANGED <<owned, prepared, req, held, woken, process, outside, history>>

\* The provider starts the command.
RuntimeExec(o) ==
    /\ pc[o] = "exec_call"
    /\ execs' = [execs EXCEPT ![req[o].id] = @ + 1]
    /\ Goto(o, "exec_running")
    /\ UNCHANGED <<owned, prepared, req, held, woken, process, disk, box, late, history>>

\* Fault: a sandbox that has run its command goes back as it was.
RuntimeExecReturnsReady(o) ==
    /\ pc[o] \in {"exec_call", "exec_running"}
    /\ Goto(o, "put")
    /\ UNCHANGED <<owned, prepared, req, held, woken, process, disk, outside, history>>

\* The command ended, failed, or was never started.
RuntimeExecReturns(o) ==
    /\ pc[o] \in {"exec_call", "exec_running"}
    /\ Goto(o, "cleanup_write")
    /\ UNCHANGED <<owned, prepared, req, held, woken, process, disk, outside, history>>

-----------------------------------------------------------------------------
(***************************************************************************)
(* Delete and WaitDeleted: acquire_for_cleanup, then the provider call.    *)
(***************************************************************************)
\* The Notified future is created before the map is looked at.
CleanupBegin(o, k, i, c) ==
    /\ Begin(o, k, i, c, "acquire_take")
    /\ UNCHANGED <<owned, prepared, held, woken, process, disk, outside, history>>

AcquireTake(o) ==
    /\ pc[o] = "acquire_take"
    /\ OwnedBy(req[o].id, req[o].who)
    /\ Take(o)
    /\ Goto(o, IF req[o].kind = "delete" THEN "delete_forget" ELSE "gone_call")
    /\ woken' = woken \ {o}
    /\ UNCHANGED <<req, prepared, process, disk, outside, history>>

AcquireMiss(o) ==
    /\ pc[o] = "acquire_take"
    /\ ~OwnedBy(req[o].id, req[o].who)
    /\ Goto(o, "acquire_load")
    /\ UNCHANGED <<owned, prepared, req, held, woken, process, disk, outside, history>>

\* Fault: the Notified future is created after the records were read.
AcquireLoadLate(o) ==
    /\ pc[o] = "acquire_load"
    /\ disk[req[o].id].caller = req[o].who
    /\ disk[req[o].id].stage \notin {"none", "Unowned"}
    /\ Goto(o, "acquire_wait")
    /\ woken' = woken \ {o}
    /\ UNCHANGED <<owned, prepared, req, held, process, disk, outside, history>>

\* The record says that another operation holds the entry: wait for it.
AcquireLoad(o) ==
    /\ pc[o] = "acquire_load"
    /\ disk[req[o].id].caller = req[o].who
    /\ disk[req[o].id].stage \notin {"none", "Unowned"}
    /\ Goto(o, "acquire_wait")
    /\ UNCHANGED <<owned, prepared, req, held, woken, process, disk, outside, history>>

\* The loop starts again, with a new Notified future.
AcquireWake(o) ==
    /\ pc[o] = "acquire_wait"
    /\ o \in woken
    /\ Goto(o, "acquire_take")
    /\ woken' = woken \ {o}
    /\ UNCHANGED <<owned, prepared, req, held, process, disk, outside, history>>

\* Fault: a waiter is released by a drain only, not by its deadline.
AcquireGiveUpOnDrain(o) ==
    /\ pc[o] = "acquire_wait"
    /\ draining
    /\ Finish(o)
    /\ UNCHANGED <<owned, prepared, process, disk, outside, history>>

\* The deadline passed, or the operation was cancelled.
AcquireGiveUp(o) ==
    /\ pc[o] = "acquire_wait"
    /\ Finish(o)
    /\ UNCHANGED <<owned, prepared, process, disk, outside, history>>

DeleteForget(o) ==
    /\ pc[o] = "delete_forget"
    /\ prepared' = [prepared EXCEPT ![req[o].id] = NoCaller]
    /\ Goto(o, "delete_fence")
    /\ UNCHANGED <<owned, req, held, woken, process, disk, outside, history>>

DeleteFence(o) ==
    /\ pc[o] = "delete_fence"
    /\ \E res \in Result :
        /\ write_record(req[o].id, req[o].who, "DeletePending", res)
        /\ Goto(o, IF res = "ok" THEN "delete_call" ELSE "put")
    /\ UNCHANGED <<owned, prepared, req, held, woken, process, outside, history>>

\* Nothing is left of the deadline: the entry keeps the lifecycle it had.
DeadlineElapsed(o) ==
    /\ pc[o] \in {"delete_call", "gone_call"}
    /\ Goto(o, "put")
    /\ UNCHANGED <<owned, prepared, req, held, woken, process, disk, outside, history>>

\* The provider accepts the deletion, or fails.
ProviderDelete(i) ==
    \/ UNCHANGED box
    \/ box[i] = "live" /\ box' = [box EXCEPT ![i] = "deleting"]
    \/ box[i] = "stray" /\ box' = [box EXCEPT ![i] = "absent"]

\* The provider reports absence: the sandbox is gone, or it is there and was not seen (the
\* native runtime, which deletes at once, takes a directory it cannot look up for absent).
\* A Create that is still in flight is not seen either.
ProviderAbsent(i) ==
    /\ box[i] # "deleting"
    /\ box' = [box EXCEPT ![i] = IF @ = "absent" THEN "absent" ELSE "stray"]
    /\ late' = [late EXCEPT ![i] = IF @ = "open" THEN "seen" ELSE @]

\* Whatever the provider answers, the entry is CleanupOnly.
RuntimeDelete(o) ==
    /\ pc[o] = "delete_call"
    /\ ProviderDelete(req[o].id)
    /\ held' = [held EXCEPT ![o] = "CleanupOnly"]
    /\ Goto(o, "put")
    /\ UNCHANGED <<owned, prepared, req, woken, process, disk, late, execs, history>>

RuntimeWaitDeleted(o) ==
    /\ pc[o] = "gone_call"
    /\ ProviderAbsent(req[o].id)
    /\ Goto(o, "gone_remove")
    /\ UNCHANGED <<owned, prepared, req, held, woken, process, disk, execs, history>>

RuntimeWaitDeletedFails(o) ==
    /\ pc[o] = "gone_call"
    /\ held' = [held EXCEPT ![o] = "CleanupOnly"]
    /\ Goto(o, "put")
    /\ UNCHANGED <<owned, prepared, req, woken, process, disk, outside, history>>

\* TerminallyAbsent.  The entry is dropped and no waiter is notified.
GoneRemove(o) ==
    /\ pc[o] = "gone_remove"
    /\ remove_record(req[o].id, "ok")
    /\ Finish(o)
    /\ released' = released \cup {req[o].id}
    /\ UNCHANGED <<owned, prepared, process, outside, creates, crashes>>

GoneRemoveFails(o) ==
    /\ pc[o] = "gone_remove"
    /\ remove_record(req[o].id, "error")
    /\ Goto(o, "put")
    /\ UNCHANGED <<owned, prepared, req, held, woken, process, outside, history>>

\* The early returns that leave everything as it is: Create of an identifier
\* that is owned; PrepareExec of an entry that is gone, not Ready or another
\* caller's; CommitExec with an unknown token or without the entry; a cleanup
\* whose load fails, or that finds no record of its own to wait for.
Refuse(o) ==
    /\ \/ pc[o] = "create_claim" /\ owned[req[o].id].life # "none"
       \/ /\ pc[o] = "prepare_check"
          /\ ~(OwnedBy(req[o].id, req[o].who) /\ owned[req[o].id].life = "Ready")
       \/ pc[o] = "commit_token"
       \/ pc[o] = "commit_take" /\ ~OwnedBy(req[o].id, req[o].who)
       \/ pc[o] = "acquire_load"
    /\ Finish(o)
    /\ UNCHANGED <<owned, prepared, process, disk, outside, history>>

-----------------------------------------------------------------------------
(***************************************************************************)
(* The process: drain, stop, crash, restart and startup reconciliation.    *)
(***************************************************************************)
begin_drain ==
    /\ svc = "serving"
    /\ ~draining
    /\ draining' = TRUE
    /\ UNCHANGED <<memory, svc, recon, disk, outside, history>>

\* Everything in memory is lost; the records and the sandboxes stay.
Vanish ==
    /\ svc' = "down"
    /\ draining' = FALSE
    /\ recon' = NoRecon
    /\ owned' = [i \in Id |-> NoEntry]
    /\ prepared' = [i \in Id |-> NoCaller]
    /\ pc' = [o \in Op |-> "idle"]
    /\ req' = [o \in Op |-> NoReq]
    /\ held' = [o \in Op |-> "none"]
    /\ woken' = {}

\* Of the Create calls in flight for a name that is free, the provider may still apply any.
Crash ==
    /\ svc # "down"
    /\ crashes < MaxCrashes
    /\ crashes' = crashes + 1
    /\ \E sent \in SUBSET {i \in Id : /\ box[i] = "absent"
                                     /\ \E o \in Op : pc[o] = "create_call" /\ req[o].id = i} :
        late' = [i \in Id |-> IF i \in sent THEN "open" ELSE late[i]]
    /\ Vanish
    /\ UNCHANGED <<disk, box, execs, released, creates>>

\* A drained server exits when every connection task has ended.
Exit ==
    /\ svc = "serving"
    /\ draining
    /\ \A o \in Op : pc[o] = "idle"
    /\ Vanish
    /\ UNCHANGED <<disk, outside, history>>

\* reconcile_startup loads every record; if it cannot, the process exits again.
Restart ==
    /\ svc = "down"
    /\ svc' = "reconciling"
    /\ recon' = [NoRecon EXCEPT !.todo = {i \in Id : disk[i].stage # "none"}]
    /\ UNCHANGED <<memory, draining, disk, outside, history>>

ReconcileUnowned(i) ==
    /\ svc = "reconciling"
    /\ recon.step = "next"
    /\ i \in recon.todo
    /\ disk[i].stage = "Unowned"
    /\ recon' = [recon EXCEPT !.todo = @ \ {i}, !.cur = i, !.step = "remove"]
    /\ UNCHANGED <<memory, svc, draining, disk, outside, history>>

\* Fault: the record goes as soon as the deletion was asked for.
ReconcileDeleteForgets(i) ==
    /\ svc = "reconciling"
    /\ recon.step = "next"
    /\ i \in recon.todo
    /\ disk[i].stage # "Unowned"
    /\ ProviderDelete(i)
    /\ recon' = [recon EXCEPT !.todo = @ \ {i}, !.cur = i, !.step = "remove"]
    /\ UNCHANGED <<memory, svc, draining, disk, late, execs, history>>

\* The result of the deletion is ignored.
ReconcileDelete(i) ==
    /\ svc = "reconciling"
    /\ recon.step = "next"
    /\ i \in recon.todo
    /\ disk[i].stage # "Unowned"
    /\ ProviderDelete(i)
    /\ recon' = [recon EXCEPT !.todo = @ \ {i}, !.cur = i, !.step = "wait"]
    /\ UNCHANGED <<memory, svc, draining, disk, late, execs, history>>

\* Absence is reported: the record may go.
ReconcileAbsent ==
    /\ svc = "reconciling"
    /\ recon.step = "wait"
    /\ ProviderAbsent(recon.cur)
    /\ recon' = [recon EXCEPT !.step = "remove"]
    /\ UNCHANGED <<memory, svc, draining, disk, execs, history>>

\* Fault: the loop variable is cleared before it is counted as unresolved.
ReconcileMisfiled ==
    /\ svc = "reconciling"
    /\ recon.step = "wait"
    /\ recon' = [recon EXCEPT !.step = "next", !.cur = NoId,
                              !.unresolved = @ \cup {NoId}]
    /\ UNCHANGED <<memory, svc, draining, disk, outside, history>>

\* Fault: a record that was not resolved does not stop the startup.
ReconcileLenient ==
    /\ svc = "reconciling"
    /\ recon.step = "wait"
    /\ recon' = [recon EXCEPT !.step = "next", !.cur = NoId]
    /\ UNCHANGED <<memory, svc, draining, disk, outside, history>>

ReconcileUnresolved ==
    /\ svc = "reconciling"
    /\ recon.step = "wait"
    /\ recon' = [recon EXCEPT !.step = "next", !.cur = NoId,
                              !.unresolved = @ \cup {recon.cur}]
    /\ UNCHANGED <<memory, svc, draining, disk, outside, history>>

ReconcileRemove ==
    /\ svc = "reconciling"
    /\ recon.step = "remove"
    /\ remove_record(recon.cur, "ok")
    /\ recon' = [recon EXCEPT !.step = "next", !.cur = NoId]
    /\ UNCHANGED <<memory, svc, draining, outside, history>>

\* A record that cannot be removed ends the process.
ReconcileRemoveFails ==
    /\ svc = "reconciling"
    /\ recon.step = "remove"
    /\ remove_record(recon.cur, "error")
    /\ svc' = "down"
    /\ recon' = NoRecon
    /\ UNCHANGED <<memory, draining, outside, history>>

\* The listener is bound only if every record was resolved.
ReconcileDone ==
    /\ svc = "reconciling"
    /\ recon.step = "next"
    /\ recon.todo = {}
    /\ svc' = IF recon.unresolved = {} THEN "serving" ELSE "down"
    /\ recon' = NoRecon
    /\ UNCHANGED <<memory, draining, disk, outside, history>>

\* The provider finishes a deletion it accepted.
ProviderReap(i) ==
    /\ box[i] = "deleting"
    /\ box' = [box EXCEPT ![i] = "absent"]
    /\ UNCHANGED <<memory, process, disk, late, execs, history>>

\* The provider applies a Create whose caller is gone.
ProviderLate(i) ==
    /\ late[i] # "none" /\ box[i] = "absent"
    /\ box' = [box EXCEPT ![i] = IF late[i] = "open" THEN "live" ELSE "stray"]
    /\ late' = [late EXCEPT ![i] = "none"]
    /\ UNCHANGED <<memory, process, disk, execs, history>>

-----------------------------------------------------------------------------
Submit(o) ==
    \E i \in Id, c \in Caller :
        \/ CreateAdmit(o, i, c)
        \/ WaitReadyTake(o, i, c)
        \/ PrepareAdmit(o, i, c)
        \/ CommitAdmit(o, i, c)
        \/ \E k \in {"delete", "wait_deleted"} : CleanupBegin(o, k, i, c)

Step(o) ==
    \/ put_owned(o) \/ CleanupWrite(o) \/ Refuse(o)
    \/ CreateClaim(o) \/ CreateFence(o) \/ CreateFenceFails(o)
    \/ RuntimeCreateOk(o) \/ RuntimeCreatePossible(o) \/ RuntimeCreateNothing(o)
    \/ CreateRecord(o) \/ UnownWrite(o) \/ UnownRemove(o)
    \/ RuntimeWaitReady(o) \/ ReadyRecord(o)
    \/ PrepareCheck(o) \/ PrepareInsert(o)
    \/ CommitToken(o) \/ \E j \in Id : CommitTokenSpoiled(o, j)
    \/ CommitTake(o) \/ ExecFence(o) \/ RuntimeExec(o) \/ RuntimeExecReturns(o)
    \/ AcquireTake(o) \/ AcquireMiss(o) \/ AcquireLoad(o)
    \/ AcquireWake(o) \/ AcquireGiveUp(o)
    \/ DeleteForget(o) \/ DeleteFence(o) \/ DeadlineElapsed(o) \/ RuntimeDelete(o)
    \/ RuntimeWaitDeleted(o) \/ RuntimeWaitDeletedFails(o)
    \/ GoneRemove(o) \/ GoneRemoveFails(o)

Reconcile ==
    \/ \E i \in Id : ReconcileUnowned(i) \/ ReconcileDelete(i)
    \/ ReconcileAbsent \/ ReconcileUnresolved
    \/ ReconcileRemove \/ ReconcileRemoveFails
    \/ ReconcileDone

Next ==
    \/ \E o \in Op : Submit(o) \/ Step(o)
    \/ begin_drain \/ Crash \/ Exit \/ Restart
    \/ Reconcile
    \/ \E i \in Id : ProviderReap(i) \/ ProviderLate(i)

Spec == Init /\ [][Next]_vars

(***************************************************************************)
(* Fairness.  Handlers and the reconciliation loop are run by the          *)
(* executor; provider calls return within their budget.  A waiter whose    *)
(* deadline has passed finds the timer ready in every select.  An          *)
(* operator restarts a stopped service, and a provider or a disk that is   *)
(* asked again and again succeeds at last.  A Create that was given up in  *)
(* flight need never be applied.                                           *)
(***************************************************************************)
Fairness ==
    /\ \A o \in Op : WF_vars(Step(o)) /\ SF_vars(AcquireGiveUp(o))
    /\ \A i \in Id : WF_vars(ProviderReap(i))
    /\ WF_vars(Restart)
    /\ WF_vars(Reconcile)
    /\ \A i \in Id : SF_vars(ReconcileDelete(i) /\ box'[i] \in {"absent", "deleting"})
    /\ SF_vars(ReconcileAbsent /\ box[recon.cur] = "absent")
    /\ SF_vars(ReconcileRemove)

FairSpec == Spec /\ Fairness

-----------------------------------------------------------------------------
(***************************************************************************)
(* Safety.                                                                 *)
(***************************************************************************)
Mine == Id \ Foreign

\* The sandbox exists, or a Create for it may still be applied, and the provider has not
\* reported it absent.  What appears after such a report, or was there although the
\* provider did not see it, nobody knows of: the code takes the report as final.
Exists(i) == box[i] \in {"live", "deleting"} \/ late[i] = "open"

\* A sandbox this service may have created has a durable record that names it
\* as owned, from before the create call until the provider reported it absent:
\* whatever crashes, whichever write fails and however late a Create is applied,
\* a restart finds it.
DurableCoverage ==
    \A i \in Mine :
        \/ Exists(i)
        \/ \E o \in Op : pc[o] = "create_call" /\ req[o].id = i
        => disk[i].stage \notin {"none", "Unowned"}

\* While the service runs, every sandbox it created, or may still be creating, is in the
\* owned map or in the hands of an operation that puts it back, so that its caller can
\* always clean it up without a restart.
SandboxReachable ==
    svc = "serving" =>
        \A i \in Mine :
            Exists(i) => owned[i].life # "none" \/ \E o \in Op : Claims(o, i)

\* An entry is in one place: in the map, or with one operation.
OneClaim ==
    \A i \in Id :
        /\ \A o, p \in Op : Claims(o, i) /\ Claims(p, i) => o = p
        /\ owned[i].life # "none" => \A o \in Op : ~Claims(o, i)

\* A sandbox runs one command at most, over all commits, crashes and restarts.
ExecAtMostOnce == \A i \in Id : execs[i] <= 1

\* While a command is dispatched its record says ExecPossible, whatever the
\* other operations write, and no other operation deletes the sandbox.
ExecFenced ==
    \A o \in Op :
        pc[o] \in {"exec_call", "exec_running"} =>
            /\ disk[req[o].id].stage = "ExecPossible"
            /\ box[req[o].id] \in {"live", "stray"}

\* CommitExec runs a command once, and behind its durable fence.
FencedOnce == ExecAtMostOnce /\ ExecFenced

\* The record on disk, the entry in memory and the operation that holds it
\* belong to the same caller.
RecordKeepsCaller ==
    /\ \A i \in Id :
        disk[i].stage # "none" /\ owned[i].life # "none" =>
            disk[i].caller = owned[i].caller
    /\ \A o \in Op :
        pc[o] \in HolderPc /\ disk[req[o].id].stage # "none" =>
            disk[req[o].id].caller = req[o].who

\* A caller is told that nothing is left to clean up (TerminallyAbsent, or a failure of
\* Create without a cleanup target) only after the provider reported the sandbox absent or
\* never created.  The answer is as true as that report.
ReleasedIsAbsent == \A i \in Mine : i \in released => ~Exists(i)

\* The custody of a sandbox, from its Create to its release: somebody can always reach it,
\* it is one caller's and in one place, and it is let go of when it is reported gone.
Custody == SandboxReachable /\ OneClaim /\ RecordKeepsCaller /\ ReleasedIsAbsent

\* A cleanup that waits without a pending wakeup has nothing it could take.
NoLostWakeup ==
    \A o \in Op :
        pc[o] \in {"acquire_load", "acquire_wait"} /\ o \notin woken =>
            ~OwnedBy(req[o].id, req[o].who)

\* No command is run in a sandbox that somebody else created.
ForeignNeverExecuted == \A i \in Foreign : execs[i] = 0

(***************************************************************************)
(* Liveness, under Fairness.                                               *)
(***************************************************************************)
\* Every operation is answered: a cleanup that waits for an entry which never
\* returns to the map ends too.
HandlersFinish == \A o \in Op : pc[o] # "idle" ~> pc[o] = "idle"

\* A service that stopped serves again, with every sandbox of the earlier run reported gone
\* by the provider, those included that a Create in flight at the crash made meanwhile.
RecoveryCompletes == svc = "down" ~> svc = "serving" /\ \A i \in Mine : ~Exists(i)
=============================================================================
