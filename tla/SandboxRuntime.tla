--------------------------- MODULE SandboxRuntime ---------------------------
(***************************************************************************)
(* The contract of the provider-neutral trait SandboxRuntime               *)
(* (runtime_contract/runtime.rs) for one request-owned identifier, as the  *)
(* handles of state.rs and the failures of error.rs state it.  The caller  *)
(* awaits one operation at a time and owns a handle that wait_ready and    *)
(* exec consume; the provider commits, loses and runs a sandbox on its     *)
(* own.  OpenShell and Native are shown to implement it.                   *)
(***************************************************************************)
EXTENDS Naturals

VARIABLES
    op,       \* the operation the caller awaits, "idle" when there is none
    handle,   \* the typestate the caller holds
    owned,    \* the sandbox this request made: "never", "live" or "gone"
    runs,     \* how often the command was handed to the sandbox
    verdict,  \* what exec reported of its one attempt
    absent    \* wait_deleted has returned Ok

contractVars == <<op, handle, owned, runs, verdict, absent>>

Operation == {"create", "wait_ready", "exec", "delete", "wait_deleted"}

\* CreatedSandbox, ReadySandbox, a consumed handle, and the three states of CreateFailure.
Handle == {"none", "created", "ready", "spent", "possible", "not_created", "conflict"}

\* The handles that come with a CleanupTarget.
HasTarget == {"created", "ready", "spent", "possible"}

Verdict == {"none", "completed", "not_dispatched", "indeterminate"}

Init ==
    /\ op = "idle" /\ handle = "none" /\ owned = "never"
    /\ runs = 0 /\ verdict = "none" /\ absent = FALSE

Admits(o) ==
    CASE o = "create"     -> handle = "none"
      [] o = "wait_ready" -> handle = "created"
      [] o = "exec"       -> handle = "ready"
      [] OTHER            -> handle \in HasTarget

\* A consuming call leaves the caller with nothing but the cleanup target.
Call(o) ==
    /\ op = "idle" /\ Admits(o)
    /\ op' = o
    /\ handle' = IF o \in {"wait_ready", "exec"} THEN "spent" ELSE handle
    /\ UNCHANGED <<owned, runs, verdict, absent>>

\* NotCreated and Conflict prove that this request made no sandbox.
CreateReturns(h) ==
    /\ op = "create"
    /\ h \in {"not_created", "conflict"} => owned = "never"
    /\ h = "created" => owned # "never"
    /\ op' = "idle" /\ handle' = h
    /\ UNCHANGED <<owned, runs, verdict, absent>>

ReadyReturns(h) ==
    /\ op = "wait_ready"
    /\ op' = "idle" /\ handle' = h
    /\ UNCHANGED <<owned, runs, verdict, absent>>

\* NotDispatched proves that the command never started.
ExecReturns(v) ==
    /\ op = "exec"
    /\ v = "not_dispatched" => runs = 0
    /\ v = "completed" => runs = 1
    /\ op' = "idle" /\ verdict' = v
    /\ UNCHANGED <<handle, owned, runs, absent>>

DeleteReturns ==
    /\ op = "delete"
    /\ op' = "idle"
    /\ UNCHANGED <<handle, owned, runs, verdict, absent>>

\* Only a create that is itself in doubt can commit after the identifier was seen absent.
WaitDeletedReturns(ok) ==
    /\ op = "wait_deleted"
    /\ ok /\ handle # "possible" => owned = "gone"
    /\ op' = "idle" /\ absent' = (absent \/ ok)
    /\ UNCHANGED <<handle, owned, runs, verdict>>

Commit ==
    /\ owned = "never" /\ (op = "create" \/ handle = "possible")
    /\ owned' = "live"
    /\ UNCHANGED <<op, handle, runs, verdict, absent>>

Lose ==
    /\ owned = "live" /\ owned' = "gone"
    /\ UNCHANGED <<op, handle, runs, verdict, absent>>

Run ==
    /\ runs = 0 /\ owned # "never" /\ (op = "exec" \/ verdict = "indeterminate")
    /\ runs' = 1
    /\ UNCHANGED <<op, handle, owned, verdict, absent>>

Next ==
    \/ \E o \in Operation : Call(o)
    \/ \E h \in {"created", "possible", "not_created", "conflict"} : CreateReturns(h)
    \/ \E h \in {"ready", "spent"} : ReadyReturns(h)
    \/ \E v \in Verdict \ {"none"} : ExecReturns(v)
    \/ DeleteReturns
    \/ \E ok \in BOOLEAN : WaitDeletedReturns(ok)
    \/ Commit \/ Lose \/ Run

Spec == Init /\ [][Next]_contractVars
=============================================================================
