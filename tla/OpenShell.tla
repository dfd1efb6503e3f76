------------------------------ MODULE OpenShell ------------------------------
(***************************************************************************)
(* The OpenShell adapter (openshell/operations.rs, exec.rs, transport.rs,  *)
(* budget.rs) driving one request-owned sandbox through the gateway.  The  *)
(* adapter and the gateway interleave at every awaited RPC.  The gateway   *)
(* is external: sandboxes of one name, ours or somebody else's, whose      *)
(* state moves on its own; a call whose future the budget dropped may      *)
(* still be applied later.                                                 *)
(***************************************************************************)
EXTENDS Naturals

CONSTANTS
    StdoutBytes, StderrBytes, CombinedBytes, ChunkBytes,  \* OutputLimits of the request
    MaxChunk,   \* bound: the largest chunk the gateway sends
    MaxIds      \* bound: sandboxes ever made under this name

ASSUME LimitsAssumption ==
    {StdoutBytes, StderrBytes, CombinedBytes, ChunkBytes} \subseteq Nat \ {0}
ASSUME BoundsAssumption == MaxChunk \in Nat /\ MaxIds \in Nat

VARIABLES
    pc,       \* the awaited step of the operation in progress
    call,     \* the RPC at that step: "none", "sent" or "done"
    answer,   \* what the gateway answered
    budget,   \* OperationBudget: "ok", "cancelled" or "deadline"
    late,     \* RPCs abandoned in flight that the gateway may still apply
    handle, provider, verdict, absent,  \* what the caller holds and was told
    coll,     \* OutputCollector; a failure drops it
    box,      \* the gateway's sandbox of this name
    nextId,   \* gateway ids are never reused
    made,     \* our create was applied
    runs, attested  \* starts of the command; one of them came before the policy was loaded

adapter == <<pc, call, answer, budget, late, handle, provider, verdict, absent, coll>>
gateway == <<box, nextId, made, runs, attested>>
vars == <<pc, call, answer, budget, late, handle, provider, verdict, absent, coll,
          box, nextId, made, runs, attested>>

\* What get_sandbox and get_sandbox_policy_status tell apart: not ready, being deleted or
\* without a policy version; workload error; another version; ready with the expected
\* version pending, loaded, or not loaded with the expected content.
Status == {"starting", "error", "other", "pending", "loaded", "failed"}

\* loaded: the expected policy was loaded in this sandbox at some time.
NoBox == [id |-> 0, own |-> FALSE, status |-> "starting", loaded |-> FALSE]
NewBox(mine) == [NoBox EXCEPT !.id = nextId, !.own = mine]

OpOf == [idle |-> "idle", c_get |-> "create", c_create |-> "create",
         r_get |-> "wait_ready", r_policy |-> "wait_ready", r_pause |-> "wait_ready",
         e_exec |-> "exec", e_stream |-> "exec", d_delete |-> "delete",
         w_get |-> "wait_deleted", w_pause |-> "wait_deleted"]
RpcSteps == {"c_get", "c_create", "r_get", "r_policy", "e_exec", "d_delete", "w_get"}

\* The RPCs with an effect, by the step that awaits them.
Effect == [c_create |-> "create", e_exec |-> "exec", d_delete |-> "delete"]
Reply(t, b) == [tag |-> t, box |-> b]
NoReply == Reply("none", NoBox)
NewCollector == [out |-> 0, err |-> 0, exit |-> FALSE]

Init ==
    /\ pc = "idle" /\ call = "none" /\ answer = NoReply /\ budget = "ok" /\ late = {}
    /\ handle = "none" /\ provider = 0 /\ verdict = "none" /\ absent = FALSE
    /\ coll = NewCollector
    /\ box = NoBox /\ nextId = 1 /\ made = FALSE /\ runs = 0 /\ attested = TRUE

-----------------------------------------------------------------------------
(* The adapter *)

Goto(p) == pc' = p /\ call' = "none" /\ answer' = NoReply

\* The operation returns and its budget goes with it.
Return == Goto("idle") /\ budget' = "ok"

\* OperationBudget::run after its check: the RPC leaves.
Send ==
    /\ pc \in RpcSteps /\ call = "none" /\ budget = "ok"
    /\ call' = "sent"
    /\ UNCHANGED <<pc, answer, budget, late, handle, provider, verdict, absent, coll, gateway>>

\* biased select: cancellation first; timeout_at polls the reply before the clock.
Stopped == budget = "cancelled" \/ (budget = "deadline" /\ call # "done")

\* Mutant: every dropped call is remembered, reads included.
AbandonAll == late' = IF call = "sent" THEN late \cup {pc} ELSE late

\* The dropped future leaves its RPC to the gateway.
Abandon ==
    late' = IF call = "sent" /\ pc \in DOMAIN Effect THEN late \cup {Effect[pc]} ELSE late

Answered(p) == pc = p /\ call = "done" /\ budget # "cancelled"

Create ==
    /\ pc = "idle" /\ handle = "none"
    /\ Goto("c_get")
    /\ UNCHANGED <<budget, late, handle, provider, verdict, absent, coll, gateway>>

CreateFails(h) ==
    /\ handle' = h /\ Return
    /\ UNCHANGED <<provider, verdict, absent, coll, gateway>>

\* The image or the policy is invalid: validation comes before any I/O.
CreateRejects == pc = "c_get" /\ call = "none" /\ CreateFails("not_created") /\ UNCHANGED late

\* Before submission the failure is NotCreated.  Once run() was entered it is
\* PossiblyCreated, even when run's own check stopped it before the RPC left.
CreateStops ==
    /\ Stopped /\ Abandon
    /\ \/ pc = "c_get" /\ CreateFails("not_created")
       \/ pc = "c_create" /\ call = "none" /\ CreateFails("not_created")
       \/ pc = "c_create" /\ CreateFails("possible")

CreatePreflight ==
    /\ Answered("c_get")
    /\ \/ answer.tag = "not_found" /\ Goto("c_create")
          /\ UNCHANGED <<budget, handle, provider, verdict, absent, coll, gateway>>
       \/ answer.tag \in {"found", "malformed"} /\ CreateFails("conflict")
       \/ answer.tag = "error" /\ CreateFails("not_created")
    /\ UNCHANGED late

\* The response must name this request, carry an id and repeat the spec.
CreateAnswered ==
    /\ Answered("c_create")
    /\ \/ answer.tag = "exists" /\ CreateFails("conflict")
       \/ answer.tag \in {"error", "malformed"} /\ CreateFails("possible")
       \/ /\ answer.tag = "found"
          /\ handle' = "created" /\ provider' = answer.box.id /\ Return
          /\ UNCHANGED <<verdict, absent, coll, gateway>>
    /\ UNCHANGED late

WaitReady ==
    /\ pc = "idle" /\ handle = "created"
    /\ handle' = "spent" /\ Goto("r_get")
    /\ UNCHANGED <<budget, late, provider, verdict, absent, coll, gateway>>

Poll(p) == Goto(p) /\ UNCHANGED <<budget, late, handle, provider, verdict, absent, coll, gateway>>

ReadyReturns(h) ==
    /\ handle' = h /\ Return
    /\ UNCHANGED <<late, provider, verdict, absent, coll, gateway>>

\* Mutant: the policy RPC is awaited without the budget.
ReadyStopsUnbudgeted ==
    /\ Stopped /\ pc \in {"r_get", "r_pause"}
    /\ ReadyReturns("spent")

ReadyStops ==
    /\ Stopped /\ OpOf[pc] = "wait_ready"
    /\ ReadyReturns("spent")

\* One round of the readiness loop: identity, phase and version of the sandbox.
ReadyObserved ==
    LET b == answer.box
        own == answer.tag = "found" /\ b.id = provider
    IN  /\ Answered("r_get")
        /\ \/ (~own \/ b.status \in {"error", "other"}) /\ ReadyReturns("spent")
           \/ own /\ b.status = "starting" /\ Poll("r_pause")
           \/ own /\ b.status \in {"pending", "loaded", "failed"} /\ Poll("r_policy")

\* Mutant: a pending revision is taken for a loaded one.
PolicyObservedPending ==
    /\ Answered("r_policy")
    /\ \/ answer.tag = "not_found" /\ Poll("r_pause")
       \/ answer.tag \in {"error", "malformed"} /\ ReadyReturns("spent")
       \/ answer.tag = "found" /\ answer.box.status \in {"pending", "loaded"} /\ ReadyReturns("ready")
       \/ answer.tag = "found" /\ answer.box.status \notin {"pending", "loaded"} /\ ReadyReturns("spent")

\* policy_is_loaded: the revision is asked for by name, and must be loaded with the
\* content and hash of the normalized policy.
PolicyObserved ==
    LET status == answer.box.status IN
    /\ Answered("r_policy")
    /\ \/ answer.tag = "not_found" /\ Poll("r_pause")
       \/ answer.tag \in {"error", "malformed"} /\ ReadyReturns("spent")
       \/ answer.tag = "found" /\ status = "pending" /\ Poll("r_pause")
       \/ answer.tag = "found" /\ status = "loaded" /\ ReadyReturns("ready")
       \/ answer.tag = "found" /\ status \notin {"pending", "loaded"} /\ ReadyReturns("spent")

Paused == budget = "ok" /\ ((pc = "r_pause" /\ Poll("r_get")) \/ (pc = "w_pause" /\ Poll("w_get")))

Exec ==
    /\ pc = "idle" /\ handle = "ready"
    /\ handle' = "spent" /\ Goto("e_exec")
    /\ UNCHANGED <<budget, late, provider, verdict, absent, coll, gateway>>

ExecReturns(v) ==
    /\ verdict' = v /\ Return
    /\ UNCHANGED <<handle, provider, absent, gateway>>

\* Provider state and process ceilings are checked before dispatch.
ExecRejects ==
    /\ pc = "e_exec" /\ call = "none"
    /\ ExecReturns("not_dispatched") /\ UNCHANGED <<late, coll>>

ExecStops ==
    /\ Stopped /\ Abandon
    /\ \/ pc = "e_exec" /\ call = "none" /\ ExecReturns("not_dispatched")
       \/ pc = "e_exec" /\ ExecReturns("indeterminate")
       \/ pc = "e_stream" /\ ExecReturns("indeterminate")
    /\ coll' = NewCollector

ExecAnswered ==
    /\ Answered("e_exec")
    /\ \/ answer.tag = "stream" /\ Poll("e_stream")
       \/ answer.tag = "error" /\ ExecReturns("indeterminate") /\ UNCHANGED <<late, coll>>

\* Mutant: the streams are limited one by one only.
OverflowPerStream(c, n, stream) ==
    \/ n > ChunkBytes
    \/ stream = "out" /\ c.out > StdoutBytes
    \/ stream = "err" /\ c.err > StderrBytes

\* OutputCollector::check_limits, after the chunk was counted.
Overflow(c, n, stream) ==
    \/ n > ChunkBytes
    \/ stream = "out" /\ c.out > StdoutBytes
    \/ stream = "err" /\ c.err > StderrBytes
    \/ c.out + c.err > CombinedBytes

\* OutputCollector::push of a chunk: nothing may follow the terminal exit.
StreamChunk(stream, n) ==
    LET counted == [coll EXCEPT ![stream] = @ + n] IN
    /\ pc = "e_stream" /\ budget # "cancelled"
    /\ IF coll.exit \/ Overflow(counted, n, stream)
       THEN ExecReturns("indeterminate")
       ELSE UNCHANGED <<pc, call, answer, budget, handle, provider, verdict, absent, gateway>>
    /\ coll' = IF coll.exit \/ Overflow(counted, n, stream) THEN NewCollector ELSE counted
    /\ UNCHANGED late

StreamExit(valid) ==
    /\ pc = "e_stream" /\ budget # "cancelled"
    /\ IF coll.exit \/ ~valid
       THEN ExecReturns("indeterminate") /\ coll' = NewCollector
       ELSE /\ coll' = [coll EXCEPT !.exit = TRUE]
            /\ UNCHANGED <<pc, call, answer, budget, handle, provider, verdict, absent, gateway>>
    /\ UNCHANGED late

\* The stream ends or fails; finish() wants the terminal exit.
StreamEnd(clean) ==
    /\ pc = "e_stream" /\ budget # "cancelled"
    /\ \/ clean /\ coll.exit /\ ExecReturns("completed") /\ UNCHANGED coll
       \/ ~(clean /\ coll.exit) /\ ExecReturns("indeterminate") /\ coll' = NewCollector
    /\ UNCHANGED late

Delete ==
    /\ pc = "idle" /\ handle \in {"created", "ready", "spent", "possible"}
    /\ Goto("d_delete")
    /\ UNCHANGED <<budget, late, handle, provider, verdict, absent, coll, gateway>>

DeleteReturns ==
    /\ Return
    /\ UNCHANGED <<handle, provider, verdict, absent, coll, gateway>>

DeleteAnswered == Answered("d_delete") /\ DeleteReturns /\ UNCHANGED late

DeleteStops == pc = "d_delete" /\ Stopped /\ Abandon /\ DeleteReturns

WaitDeleted ==
    /\ pc = "idle" /\ handle \in {"created", "ready", "spent", "possible"}
    /\ Goto("w_get")
    /\ UNCHANGED <<budget, late, handle, provider, verdict, absent, coll, gateway>>

WaitDeletedReturns(ok) ==
    /\ absent' = (absent \/ ok) /\ Return
    /\ UNCHANGED <<late, handle, provider, verdict, coll, gateway>>

WaitDeletedStops == OpOf[pc] = "wait_deleted" /\ Stopped /\ WaitDeletedReturns(FALSE)

\* Mutant: a failing lookup is taken for absence.
DeletionObservedOnError ==
    /\ Answered("w_get")
    /\ \/ answer.tag \in {"not_found", "error"} /\ WaitDeletedReturns(TRUE)
       \/ answer.tag \in {"found", "malformed"} /\ Poll("w_pause")

DeletionObserved ==
    /\ Answered("w_get")
    /\ \/ answer.tag = "not_found" /\ WaitDeletedReturns(TRUE)
       \/ answer.tag = "error" /\ WaitDeletedReturns(FALSE)
       \/ answer.tag \in {"found", "malformed"} /\ Poll("w_pause")

\* The deadline elapses or the caller cancels.
BudgetEnds(b) ==
    /\ pc # "idle" /\ budget = "ok"
    /\ budget' = b
    /\ UNCHANGED <<pc, call, answer, late, handle, provider, verdict, absent, coll, gateway>>

-----------------------------------------------------------------------------
(* The gateway: external *)

Place(mine) == box = NoBox /\ nextId <= MaxIds /\ box' = NewBox(mine) /\ nextId' = nextId + 1

\* create_sandbox with the reply tag t: applied and lost, refused, or in conflict.
GatewayCreate(t) ==
    /\ \/ Place(TRUE) /\ made' = TRUE /\ t \in {"found", "malformed", "error"}
       \/ UNCHANGED <<box, nextId, made>> /\ t \in (IF box = NoBox THEN {"error"} ELSE {"exists", "error"})
    /\ UNCHANGED <<runs, attested>>

\* exec_sandbox addresses the sandbox by id.
GatewayExec(t) ==
    /\ \/ /\ box # NoBox /\ box.id = provider /\ t \in {"stream", "error"}
          /\ runs' = runs + 1 /\ attested' = (attested /\ box.loaded)
       \/ UNCHANGED <<runs, attested>> /\ t = "error"
    /\ UNCHANGED <<box, nextId, made>>

\* delete_sandbox addresses the sandbox by name, whoever made it.
GatewayDelete(t) ==
    /\ \/ /\ box # NoBox /\ t \in {"deleted", "error"}
          /\ box' \in {NoBox, [box EXCEPT !.status = "starting"]}
       \/ UNCHANGED box /\ t \in (IF box = NoBox THEN {"not_found", "error"} ELSE {"unacknowledged", "error"})
    /\ UNCHANGED <<nextId, made, runs, attested>>

GatewayGet(t) ==
    /\ t \in {"error", "malformed", IF box = NoBox THEN "not_found" ELSE "found"}
    /\ UNCHANGED gateway

GatewayApplies(rpc, t) ==
    CASE rpc = "create" -> GatewayCreate(t)
      [] rpc = "exec"   -> GatewayExec(t)
      [] rpc = "delete" -> GatewayDelete(t)
      [] OTHER          -> GatewayGet(t)

Tag == {"found", "malformed", "error", "exists", "not_found", "stream", "deleted", "unacknowledged"}

GatewayAnswers(t) ==
    /\ call = "sent"
    /\ GatewayApplies(IF pc \in DOMAIN Effect THEN Effect[pc] ELSE "get", t)
    /\ call' = "done" /\ answer' = Reply(t, IF t = "found" THEN box' ELSE NoBox)
    /\ UNCHANGED <<pc, budget, late, handle, provider, verdict, absent, coll>>

\* An abandoned RPC is applied after all, or never.
GatewayLate(rpc) ==
    /\ rpc \in late /\ late' = late \ {rpc}
    /\ \/ UNCHANGED gateway
       \/ \E t \in Tag : GatewayApplies(rpc, t)
    /\ UNCHANGED <<pc, call, answer, budget, handle, provider, verdict, absent, coll>>

\* The sandbox moves on by itself, is removed, or somebody else takes the name.
GatewayMoves ==
    /\ \/ /\ box # NoBox
          /\ \E st \in Status : box' = [box EXCEPT !.status = st, !.loaded = @ \/ st = "loaded"]
          /\ UNCHANGED nextId
       \/ box # NoBox /\ box' = NoBox /\ UNCHANGED nextId
       \/ Place(FALSE)
    /\ UNCHANGED <<made, runs, attested, adapter>>

-----------------------------------------------------------------------------
AdapterStep ==
    \/ Send \/ CreateRejects \/ CreateStops \/ CreatePreflight \/ CreateAnswered
    \/ ReadyStops \/ ReadyObserved \/ PolicyObserved \/ Paused
    \/ ExecRejects \/ ExecStops \/ ExecAnswered \/ DeleteAnswered \/ DeleteStops
    \/ WaitDeletedStops \/ DeletionObserved

Stream ==
    \/ \E s \in {"out", "err"}, n \in 0..MaxChunk : StreamChunk(s, n)
    \/ \E valid \in BOOLEAN : StreamExit(valid)
    \/ \E clean \in BOOLEAN : StreamEnd(clean)

Caller == Create \/ WaitReady \/ Exec \/ Delete \/ WaitDeleted

Gateway ==
    \/ \E t \in Tag : GatewayAnswers(t)
    \/ \E rpc \in {"create", "exec", "delete"} : GatewayLate(rpc)
    \/ GatewayMoves

Next == Caller \/ AdapterStep \/ Stream \/ Gateway \/ \E b \in {"cancelled", "deadline"} : BudgetEnds(b)

\* The executor polls a ready task, and the clock reaches every deadline.
Fairness == WF_vars(AdapterStep) /\ WF_vars(BudgetEnds("deadline"))

Spec == Init /\ [][Next]_vars

FairSpec == Spec /\ Fairness

-----------------------------------------------------------------------------
(* Properties *)

Owned == IF ~made THEN "never" ELSE IF box.own THEN "live" ELSE "gone"

Contract == INSTANCE SandboxRuntime WITH op <- OpOf[pc], owned <- Owned

BoxType == [id : 0..MaxIds, own : BOOLEAN, status : Status, loaded : BOOLEAN]

(* The types of the state: one operation at a time is awaited, with one RPC in  *)
(* flight, and dropped RPCs are those the gateway may still apply.               *)
TypeOK ==
    /\ pc \in DOMAIN OpOf /\ call \in {"none", "sent", "done"}
    /\ answer \in [tag : Tag \cup {"none"}, box : BoxType]
    /\ budget \in {"ok", "cancelled", "deadline"} /\ late \subseteq {"create", "exec", "delete"}
    /\ handle \in Contract!Handle /\ provider \in 0..MaxIds /\ verdict \in Contract!Verdict
    /\ absent \in BOOLEAN /\ made \in BOOLEAN /\ attested \in BOOLEAN
    /\ coll \in [out : Nat, err : Nat, exit : BOOLEAN]
    /\ box \in BoxType /\ nextId \in 1..(MaxIds + 1) /\ runs \in Nat

(* operations.rs keeps what the trait promises: NotCreated, Conflict and   *)
(* NotDispatched are proofs, the command starts at most once, and a        *)
(* confirmed deletion is final unless the create itself stayed in doubt.   *)
ImplementsContract == Contract!Spec

(* A completed execution ended with its one terminal exit, and its output  *)
(* is within all of the request's ceilings (exec.rs, OutputCollector).     *)
CompletedWithinLimits ==
    verdict = "completed" =>
        /\ coll.exit /\ runs = 1
        /\ coll.out <= StdoutBytes /\ coll.err <= StderrBytes
        /\ coll.out + coll.err <= CombinedBytes

(* Although the policy revision is asked for by name and somebody may      *)
(* replace the sandbox between the two readiness RPCs, a command only      *)
(* ever starts in a sandbox of this request whose own policy was loaded.   *)
RunsUnderLoadedPolicy == attested

(* Every operation returns: whatever the gateway does or leaves undone,    *)
(* the budget ends each await (budget.rs).                                 *)
OperationsReturn == (pc # "idle") ~> (pc = "idle")
=============================================================================
