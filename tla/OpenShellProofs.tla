--------------------------- MODULE OpenShellProofs ---------------------------
(***************************************************************************)
(* The safety of the OpenShell adapter, for any output limits, chunk sizes *)
(* and number of sandboxes that take the name, and the proof that it       *)
(* implements the contract of SandboxRuntime.  Inv says what is known at   *)
(* each awaited step: which handle the caller holds, whether the create    *)
(* was applied, which box is ours, and whether the command was started.    *)
(***************************************************************************)
EXTENDS OpenShell, TLAPS

-----------------------------------------------------------------------------
Creating == pc \in {"c_get", "c_create"}
Readying == pc \in {"r_get", "r_policy", "r_pause"}
Executing == pc \in {"e_exec", "e_stream"}
CleaningUp == pc \in {"d_delete", "w_get", "w_pause"}
Done(p, t) == pc = p /\ call = "done" /\ answer.tag = t

\* The handle the caller is left with while an operation runs.
HandleFits ==
    /\ Creating => handle = "none"
    /\ Readying \/ Executing => handle = "spent"
    /\ CleaningUp => handle \in {"created", "ready", "spent", "possible"}

\* Our create is applied once: before its answer, or later when it stayed in doubt.
MadeOnce ==
    /\ made => handle \in {"created", "ready", "spent", "possible"}
               \/ (pc = "c_create" /\ call = "done")
    /\ handle \in {"created", "ready", "spent"} => made
    /\ "create" \in late => ~made /\ handle = "possible"
    /\ Done("c_create", "found") => made
    /\ Done("c_create", "exists") => ~made
    /\ box.own => made

\* The id the caller was given is that of our box, and of no other box to come.
IsOurs(id) == id \in 1..(nextId - 1) /\ (box.id = id <=> box.own)
ProviderIsOurs ==
    /\ box # NoBox => box.id \in 1..(nextId - 1)
    /\ handle \in {"created", "ready", "spent"} => IsOurs(provider)
    /\ Done("c_create", "found") => IsOurs(answer.box.id)

\* An answered lookup of our name found no box of ours, and none comes back.
AbsenceIsFinal == Done("w_get", "not_found") /\ handle # "possible" => made /\ ~box.own

\* The command starts at most once, and only for the one exec.
StartsOnce ==
    /\ handle \in {"none", "created", "ready", "possible"} \/ Readying \/ Executing => verdict = "none"
    /\ runs # 0 => runs = 1 /\ (verdict # "none" \/ (Executing /\ call = "done") \/ pc = "e_stream")
    /\ "exec" \in late => runs = 0 /\ verdict = "indeterminate"
    /\ Done("e_exec", "stream") \/ pc = "e_stream" \/ verdict = "completed" => runs = 1
    /\ verdict = "not_dispatched" => runs = 0
    /\ verdict # "none" => handle = "spent"

\* Before the command can start, the policy was loaded in our box if it still exists.
LoadedFirst ==
    /\ box.status = "loaded" => box.loaded
    /\ \/ handle = "ready" \/ Executing \/ "exec" \in late
       \/ (Done("r_policy", "found") /\ answer.box.status = "loaded")
       => (box.id = provider => box.loaded)

\* Kept output is within every ceiling while the stream is read.
Within ==
    /\ coll.out <= StdoutBytes /\ coll.err <= StderrBytes
    /\ coll.out + coll.err <= CombinedBytes
CollectorBounded == Within /\ (verdict = "completed" => coll.exit)

Inv ==
    /\ TypeOK /\ HandleFits /\ MadeOnce /\ ProviderIsOurs /\ AbsenceIsFinal
    /\ StartsOnce /\ LoadedFirst /\ CollectorBounded /\ attested
-----------------------------------------------------------------------------
\* The awaited steps, and the RPCs with an effect.
LEMMA Steps ==
    /\ DOMAIN OpOf = {"idle", "c_get", "c_create", "r_get", "r_policy", "r_pause",
                      "e_exec", "e_stream", "d_delete", "w_get", "w_pause"}
    /\ DOMAIN Effect = {"c_create", "e_exec", "d_delete"}
    /\ Effect["c_create"] = "create" /\ Effect["e_exec"] = "exec" /\ Effect["d_delete"] = "delete"
BY DEF OpOf, Effect

\* The operation each awaited step belongs to.
LEMMA Operations ==
    ASSUME NEW p \in DOMAIN OpOf
    PROVE  /\ OpOf[p] = "create" <=> p \in {"c_get", "c_create"}
           /\ OpOf[p] = "wait_ready" <=> p \in {"r_get", "r_policy", "r_pause"}
           /\ OpOf[p] = "exec" <=> p \in {"e_exec", "e_stream"}
           /\ OpOf[p] = "delete" <=> p = "d_delete"
           /\ OpOf[p] = "wait_deleted" <=> p \in {"w_get", "w_pause"}
           /\ OpOf[p] = "idle" <=> p = "idle"
BY DEF OpOf

\* The values an empty collector, an empty answer and an unused name hold.
LEMMA Values ==
    /\ NoBox \in BoxType /\ NoReply.tag = "none" /\ NoReply.box = NoBox
    /\ NoReply \in [tag : Tag \cup {"none"}, box : BoxType]
    /\ NoBox.id = 0 /\ NoBox.own = FALSE /\ NoBox.status = "starting" /\ NoBox.loaded = FALSE
    /\ NewCollector \in [out : Nat, err : Nat, exit : BOOLEAN]
    /\ NewCollector.out = 0 /\ NewCollector.err = 0 /\ NewCollector.exit = FALSE
BY BoundsAssumption DEF NoBox, NoReply, Reply, NewCollector, BoxType, Status, Tag

\* A dropped future leaves only the RPC it was waiting for.
LEMMA AbandonCases ==
    ASSUME Abandon, late \subseteq {"create", "exec", "delete"}
    PROVE  /\ late' \subseteq {"create", "exec", "delete"}
           /\ "create" \in late' => "create" \in late \/ (pc = "c_create" /\ call = "sent")
           /\ "exec" \in late' => "exec" \in late \/ (pc = "e_exec" /\ call = "sent")
           /\ call # "sent" \/ pc = "c_get" => late' = late
BY Steps DEF Abandon

\* What the gateway may do to the sandbox of the name: keep it, move its status,
\* remove it, or make one under a fresh id.
BoxKept ==
    /\ nextId' = nextId
    /\ \/ box' = box \/ box' = NoBox
       \/ /\ box # NoBox /\ box' # NoBox /\ box'.id = box.id /\ box'.own = box.own
          /\ box.loaded => box'.loaded
          /\ box'.status = "loaded" => box'.loaded
BoxPlaced(mine) ==
    /\ box = NoBox /\ box'.id = nextId /\ box'.own = mine
    /\ box'.status = "starting" /\ nextId' = nextId + 1

\* The RPCs with an effect, once they are applied.
CreateApplied == BoxPlaced(TRUE) /\ made' = TRUE /\ UNCHANGED <<runs, attested>>
ExecApplied ==
    /\ box # NoBox /\ box.id = provider
    /\ runs' = runs + 1 /\ attested' = (attested /\ box.loaded)
    /\ UNCHANGED <<box, nextId, made>>
DeleteApplied == box # NoBox /\ BoxKept /\ UNCHANGED <<made, runs, attested>>

\* The sandbox a create makes has the next id, is still starting, and is owned as asked.
LEMMA NewBoxFields ==
    ASSUME nextId \in 1..(MaxIds + 1), nextId <= MaxIds, NEW mine \in BOOLEAN
    PROVE  /\ NewBox(mine) \in BoxType /\ NewBox(mine).id = nextId
           /\ NewBox(mine).own = mine /\ NewBox(mine).status = "starting"
<1>1. nextId \in 0..MaxIds
  BY BoundsAssumption
<1>2. NewBox(mine) \in BoxType
  BY <1>1, Values DEF NewBox, BoxType
<1> QED
  BY <1>2, Values DEF NewBox, BoxType

\* A status change leaves the identity of the box alone.
LEMMA StatusFields ==
    ASSUME box \in BoxType, NEW st \in Status, NEW l \in BOOLEAN
    PROVE  LET b == [box EXCEPT !.status = st, !.loaded = l] IN
           b \in BoxType /\ b.id = box.id /\ b.own = box.own /\ b.status = st /\ b.loaded = l
BY DEF BoxType

\* What a gateway call does, and what its answer tells.
LEMMA GatewayCases ==
    ASSUME TypeOK, NEW rpc, NEW t, GatewayApplies(rpc, t)
    PROVE  /\ box' \in BoxType /\ nextId' \in 1..(MaxIds + 1)
           /\ \/ rpc = "create" /\ CreateApplied /\ t # "exists"
              \/ rpc = "exec" /\ ExecApplied
              \/ rpc = "delete" /\ DeleteApplied
              \/ /\ UNCHANGED gateway
                 /\ rpc = "create" => t # "found"
                 /\ rpc = "exec" => t # "stream"
                 /\ rpc \notin {"create", "exec", "delete"} /\ t = "not_found" => box = NoBox
<1> USE DEF gateway
<1>1. box \in BoxType /\ nextId \in 1..(MaxIds + 1) /\ nextId \in Nat
  BY BoundsAssumption DEF TypeOK
<1>2. CASE rpc = "create"
  <2>1. GatewayCreate(t)
    BY <1>2 DEF GatewayApplies
  <2>2. CASE Place(TRUE) /\ made' = TRUE /\ t \in {"found", "malformed", "error"}
    <3>1. nextId <= MaxIds /\ box' = NewBox(TRUE)
      BY <2>2 DEF Place
    <3>2. /\ box' \in BoxType /\ box'.id = nextId /\ box'.own = TRUE /\ box'.status = "starting"
      BY <1>1, <3>1, NewBoxFields
    <3>3. nextId' \in 1..(MaxIds + 1)
      BY <1>1, <2>2, BoundsAssumption DEF Place
    <3> QED
      BY <1>2, <2>1, <2>2, <3>2, <3>3 DEF GatewayCreate, Place, CreateApplied, BoxPlaced
  <2>3. CASE UNCHANGED <<box, nextId, made>> /\ t \in (IF box = NoBox THEN {"error"} ELSE {"exists", "error"})
    BY <1>1, <1>2, <2>1, <2>3 DEF GatewayCreate
  <2> QED
    BY <2>1, <2>2, <2>3 DEF GatewayCreate
<1>3. CASE rpc = "exec"
  BY <1>1, <1>3 DEF GatewayApplies, GatewayExec, ExecApplied
<1>4. CASE rpc = "delete"
  <2>1. GatewayDelete(t)
    BY <1>4 DEF GatewayApplies
  <2>2. CASE box # NoBox /\ box' = [box EXCEPT !.status = "starting"]
    <3>1. /\ box' \in BoxType /\ box'.id = box.id /\ box'.own = box.own
          /\ box'.status = "starting" /\ box'.loaded = box.loaded
      BY <1>1, <2>2 DEF BoxType, Status
    <3>2. box' # NoBox \/ box' = NoBox
      OBVIOUS
    <3> QED
      BY <1>1, <1>4, <2>1, <2>2, <3>1, <3>2 DEF GatewayDelete, DeleteApplied, BoxKept
  <2>3. CASE box # NoBox /\ box' = NoBox
    BY <1>1, <1>4, <2>1, <2>3, Values DEF GatewayDelete, DeleteApplied, BoxKept
  <2>4. CASE UNCHANGED box
    BY <1>1, <1>4, <2>1, <2>4 DEF GatewayDelete
  <2> QED
    BY <2>1, <2>2, <2>3, <2>4 DEF GatewayDelete
<1>5. CASE rpc \notin {"create", "exec", "delete"}
  BY <1>1, <1>5 DEF GatewayApplies, GatewayGet
<1> QED
  BY <1>2, <1>3, <1>4, <1>5

\* What the sandbox of the name does on its own.
LEMMA MoveCases ==
    ASSUME TypeOK, GatewayMoves
    PROVE  /\ box' \in BoxType /\ nextId' \in 1..(MaxIds + 1)
           /\ BoxKept \/ BoxPlaced(FALSE)
           /\ UNCHANGED <<made, runs, attested, adapter>>
<1>1. box \in BoxType /\ nextId \in 1..(MaxIds + 1) /\ UNCHANGED <<made, runs, attested, adapter>>
  BY DEF TypeOK, GatewayMoves
<1>2. ASSUME box # NoBox, NEW st \in Status, UNCHANGED nextId,
             box' = [box EXCEPT !.status = st, !.loaded = @ \/ st = "loaded"]
      PROVE  box' \in BoxType /\ nextId' \in 1..(MaxIds + 1) /\ BoxKept
  <2>1. box.loaded \in BOOLEAN /\ (box.loaded \/ st = "loaded") \in BOOLEAN
    BY <1>1 DEF BoxType
  <2>2. /\ box' \in BoxType /\ box'.id = box.id /\ box'.own = box.own
        /\ box'.status = st /\ box'.loaded = (box.loaded \/ st = "loaded")
    BY <1>1, <1>2, <2>1, StatusFields
  <2> QED
    BY <1>1, <1>2, <2>2 DEF BoxKept
<1>3. CASE box # NoBox /\ box' = NoBox /\ UNCHANGED nextId
  BY <1>1, <1>3, Values DEF BoxKept
<1>4. CASE Place(FALSE)
  <2>1. /\ box' \in BoxType /\ box'.id = nextId /\ box'.own = FALSE /\ box'.status = "starting"
    BY <1>1, <1>4, NewBoxFields DEF Place
  <2>2. nextId' \in 1..(MaxIds + 1)
    BY <1>1, <1>4, BoundsAssumption DEF Place
  <2> QED
    BY <1>1, <1>4, <2>1, <2>2 DEF Place, BoxPlaced
<1> QED
  BY <1>1, <1>2, <1>3, <1>4 DEF GatewayMoves

\* An applied RPC keeps the types of what it counts.
LEMMA AppliedTypes ==
    ASSUME TypeOK, CreateApplied \/ ExecApplied \/ DeleteApplied \/ UNCHANGED gateway
    PROVE  made' \in BOOLEAN /\ attested' \in BOOLEAN /\ runs' \in Nat
<1>1. made \in BOOLEAN /\ attested \in BOOLEAN /\ runs \in Nat
  BY DEF TypeOK
<1>2. (attested /\ box.loaded) \in BOOLEAN
  OBVIOUS
<1>3. CASE ExecApplied
  BY <1>1, <1>2, <1>3 DEF ExecApplied
<1>4. CASE CreateApplied \/ DeleteApplied
  BY <1>1, <1>4 DEF CreateApplied, DeleteApplied
<1>5. CASE UNCHANGED gateway
  BY <1>1, <1>5 DEF gateway
<1> QED
  BY <1>3, <1>4, <1>5

\* Every action keeps the types.
LEMMA TypesStep == TypeOK /\ [Next]_vars => TypeOK'
<1> SUFFICES ASSUME TypeOK, [Next]_vars PROVE TypeOK'
  OBVIOUS
<1> USE Steps, Values, BoundsAssumption DEF TypeOK, gateway, adapter, Contract!Handle, Contract!Verdict
<1>1. CASE Create
  BY <1>1 DEF Create, Goto
<1>2. CASE WaitReady
  BY <1>2 DEF WaitReady, Goto
<1>3. CASE Exec
  BY <1>3 DEF Exec, Goto
<1>4. CASE Delete
  BY <1>4 DEF Delete, Goto
<1>5. CASE WaitDeleted
  BY <1>5 DEF WaitDeleted, Goto
<1>6. CASE Send
  BY <1>6 DEF Send, RpcSteps
<1>7. CASE CreateRejects
  BY <1>7 DEF CreateRejects, CreateFails, Return, Goto
<1>8. CASE CreateStops
  <2>1. late' \subseteq {"create", "exec", "delete"}
    BY <1>8, AbandonCases DEF CreateStops
  <2> QED
    BY <1>8, <2>1 DEF CreateStops, CreateFails, Return, Goto
<1>9. CASE CreatePreflight
  BY <1>9 DEF CreatePreflight, Answered, CreateFails, Return, Goto
<1>10. CASE CreateAnswered
  <2>1. answer.box.id \in 0..MaxIds
    BY DEF BoxType
  <2> QED
    BY <1>10, <2>1 DEF CreateAnswered, Answered, CreateFails, Return, Goto
<1>11. CASE ReadyStops
  BY <1>11 DEF ReadyStops, Stopped, ReadyReturns, Return, Goto
<1>12. CASE ReadyObserved
  BY <1>12 DEF ReadyObserved, Answered, ReadyReturns, Poll, Return, Goto
<1>13. CASE PolicyObserved
  BY <1>13 DEF PolicyObserved, Answered, ReadyReturns, Poll, Return, Goto
<1>14. CASE Paused
  BY <1>14 DEF Paused, Poll, Goto
<1>15. CASE ExecRejects
  BY <1>15 DEF ExecRejects, ExecReturns, Return, Goto
<1>16. CASE ExecStops
  <2>1. late' \subseteq {"create", "exec", "delete"}
    BY <1>16, AbandonCases DEF ExecStops
  <2> QED
    BY <1>16, <2>1 DEF ExecStops, ExecReturns, Return, Goto
<1>17. CASE ExecAnswered
  BY <1>17 DEF ExecAnswered, Answered, ExecReturns, Poll, Return, Goto
<1>18. CASE DeleteAnswered
  BY <1>18 DEF DeleteAnswered, Answered, DeleteReturns, Return, Goto
<1>19. CASE DeleteStops
  <2>1. late' \subseteq {"create", "exec", "delete"}
    BY <1>19, AbandonCases DEF DeleteStops
  <2> QED
    BY <1>19, <2>1 DEF DeleteStops, DeleteReturns, Return, Goto
<1>20. CASE WaitDeletedStops
  BY <1>20 DEF WaitDeletedStops, Stopped, WaitDeletedReturns, Return, Goto
<1>21. CASE DeletionObserved
  BY <1>21 DEF DeletionObserved, Answered, WaitDeletedReturns, Poll, Return, Goto
<1>22. ASSUME NEW s \in {"out", "err"}, NEW n \in 0..MaxChunk, StreamChunk(s, n) PROVE TypeOK'
  BY <1>22 DEF StreamChunk, Overflow, ExecReturns, Return, Goto
<1>23. ASSUME NEW valid \in BOOLEAN, StreamExit(valid) PROVE TypeOK'
  <2>1. coll' \in [out : Nat, err : Nat, exit : BOOLEAN]
    BY <1>23 DEF StreamExit
  <2> QED
    BY <1>23, <2>1 DEF StreamExit, ExecReturns, Return, Goto
<1>24. ASSUME NEW clean \in BOOLEAN, StreamEnd(clean) PROVE TypeOK'
  BY <1>24 DEF StreamEnd, ExecReturns, Return, Goto
<1>25. ASSUME NEW t \in Tag, GatewayAnswers(t) PROVE TypeOK'
  <2>1. PICK rpc : GatewayApplies(rpc, t)
    BY <1>25 DEF GatewayAnswers
  <2>2. box' \in BoxType /\ nextId' \in 1..(MaxIds + 1)
    BY <2>1, GatewayCases
  <2>3. made' \in BOOLEAN /\ attested' \in BOOLEAN /\ runs' \in Nat
    <3>1. CreateApplied \/ ExecApplied \/ DeleteApplied \/ UNCHANGED gateway
      BY <2>1, GatewayCases
    <3> QED
      BY <3>1, AppliedTypes
  <2>4. answer' \in [tag : Tag \cup {"none"}, box : BoxType]
    BY <1>25, <2>2 DEF GatewayAnswers, Reply
  <2> QED
    BY <1>25, <2>2, <2>3, <2>4 DEF GatewayAnswers
<1>26. ASSUME NEW rpc \in {"create", "exec", "delete"}, GatewayLate(rpc) PROVE TypeOK'
  <2>1. /\ box' \in BoxType /\ nextId' \in 1..(MaxIds + 1)
        /\ made' \in BOOLEAN /\ attested' \in BOOLEAN /\ runs' \in Nat
    <3>1. CASE UNCHANGED gateway
      BY <3>1
    <3>2. CASE \E t \in Tag : GatewayApplies(rpc, t)
      <4>1. /\ box' \in BoxType /\ nextId' \in 1..(MaxIds + 1)
            /\ CreateApplied \/ ExecApplied \/ DeleteApplied \/ UNCHANGED gateway
        BY <3>2, GatewayCases
      <4> QED
        BY <4>1, AppliedTypes
    <3> QED
      BY <1>26, <3>1, <3>2 DEF GatewayLate
  <2> QED
    BY <1>26, <2>1 DEF GatewayLate
<1>27. CASE GatewayMoves
  <2>1. /\ box' \in BoxType /\ nextId' \in 1..(MaxIds + 1)
        /\ UNCHANGED <<made, runs, attested, adapter>>
    BY <1>27, MoveCases
  <2> QED
    BY <2>1
<1>28. ASSUME NEW b \in {"cancelled", "deadline"}, BudgetEnds(b) PROVE TypeOK'
  BY <1>28 DEF BudgetEnds
<1>29. CASE UNCHANGED vars
  BY <1>29 DEF vars, gateway, adapter
<1> HIDE DEF TypeOK, gateway, adapter, Contract!Handle, Contract!Verdict
<1> QED
  BY <1>1, <1>2, <1>3, <1>4, <1>5, <1>6, <1>7, <1>8, <1>9, <1>10, <1>11, <1>12,
     <1>13, <1>14, <1>15, <1>16, <1>17, <1>18, <1>19, <1>20, <1>21, <1>22,
     <1>23, <1>24, <1>25, <1>26, <1>27, <1>28, <1>29
  DEF Next, Caller, AdapterStep, Stream, Gateway

\* A step of the gateway that answers the awaited RPC.
LEMMA AnswerCases ==
    ASSUME TypeOK, NEW t \in Tag, GatewayAnswers(t)
    PROVE  /\ call = "sent" /\ call' = "done" /\ answer'.tag = t
           /\ answer'.box = IF t = "found" THEN box' ELSE NoBox
           /\ UNCHANGED <<pc, budget, late, handle, provider, verdict, absent, coll>>
           /\ \/ pc = "c_create" /\ CreateApplied /\ t # "exists"
              \/ pc = "e_exec" /\ ExecApplied
              \/ pc = "d_delete" /\ DeleteApplied
              \/ /\ UNCHANGED <<box, nextId, made, runs, attested>>
                 /\ pc = "c_create" => t # "found"
                 /\ pc = "e_exec" => t # "stream"
                 /\ pc \notin {"c_create", "e_exec", "d_delete"} /\ t = "not_found" => box = NoBox
<1> DEFINE rpc == IF pc \in DOMAIN Effect THEN Effect[pc] ELSE "get"
<1>1. GatewayApplies(rpc, t)
  BY DEF GatewayAnswers
<1>2. /\ rpc = "create" <=> pc = "c_create"
      /\ rpc = "exec" <=> pc = "e_exec"
      /\ rpc = "delete" <=> pc = "d_delete"
  BY Steps
<1> HIDE DEF rpc
<1>3. /\ \/ rpc = "create" /\ CreateApplied /\ t # "exists"
         \/ rpc = "exec" /\ ExecApplied
         \/ rpc = "delete" /\ DeleteApplied
         \/ /\ UNCHANGED gateway
            /\ rpc = "create" => t # "found"
            /\ rpc = "exec" => t # "stream"
            /\ rpc \notin {"create", "exec", "delete"} /\ t = "not_found" => box = NoBox
  BY <1>1, GatewayCases
<1>4. /\ call = "sent" /\ call' = "done" /\ answer'.tag = t
      /\ answer'.box = IF t = "found" THEN box' ELSE NoBox
      /\ UNCHANGED <<pc, budget, late, handle, provider, verdict, absent, coll>>
  BY DEF GatewayAnswers, Reply
<1> QED
  BY <1>2, <1>3, <1>4 DEF gateway

\* A step of the gateway that applies an abandoned RPC, or drops it.
LEMMA LateCases ==
    ASSUME TypeOK, NEW rpc \in {"create", "exec", "delete"}, GatewayLate(rpc)
    PROVE  /\ rpc \in late /\ late' = late \ {rpc}
           /\ UNCHANGED <<pc, call, answer, budget, handle, provider, verdict, absent, coll>>
           /\ \/ rpc = "create" /\ CreateApplied
              \/ rpc = "exec" /\ ExecApplied
              \/ rpc = "delete" /\ DeleteApplied
              \/ UNCHANGED <<box, nextId, made, runs, attested>>
<1>1. CASE UNCHANGED gateway
  BY <1>1 DEF GatewayLate, gateway
<1>2. ASSUME NEW t \in Tag, GatewayApplies(rpc, t)
      PROVE  \/ rpc = "create" /\ CreateApplied
             \/ rpc = "exec" /\ ExecApplied
             \/ rpc = "delete" /\ DeleteApplied
             \/ UNCHANGED gateway
  BY <1>2, GatewayCases
<1> QED
  BY <1>1, <1>2 DEF GatewayLate, gateway

-----------------------------------------------------------------------------
(* The actions summed up: what a step of each operation may change.            *)

\* The operation goes on at p with no RPC under way.
AtRest(p) == pc' = p /\ call' = "none" /\ answer' = NoReply

\* The caller starts an operation.
Begins ==
    /\ pc = "idle" /\ call' = "none" /\ answer' = NoReply
    /\ UNCHANGED <<late, provider, verdict, absent, coll, box, nextId, made, runs, attested>>
    /\ \/ handle = "none" /\ pc' = "c_get" /\ handle' = handle
       \/ handle = "created" /\ pc' = "r_get" /\ handle' = "spent"
       \/ handle = "ready" /\ pc' = "e_exec" /\ handle' = "spent"
       \/ /\ handle \in {"created", "ready", "spent", "possible"}
          /\ pc' \in {"d_delete", "w_get"} /\ handle' = handle

CreateMoves ==
    /\ Creating /\ call' = "none" /\ answer' = NoReply
    /\ UNCHANGED <<verdict, absent, coll, box, nextId, made, runs, attested>>
    /\ "create" \in late' => "create" \in late \/ (pc = "c_create" /\ call = "sent")
    /\ "exec" \in late' => "exec" \in late
    /\ \/ pc = "c_get" /\ pc' = "c_create" /\ UNCHANGED <<late, handle, provider>>
       \/ /\ pc' = "idle" /\ handle' \in {"not_created", "conflict"} /\ UNCHANGED <<late, provider>>
          /\ pc = "c_create" => call = "none" \/ Done("c_create", "exists")
       \/ pc = "c_create" /\ pc' = "idle" /\ handle' = "possible" /\ UNCHANGED provider
       \/ /\ Done("c_create", "found") /\ pc' = "idle" /\ handle' = "created"
          /\ provider' = answer.box.id /\ UNCHANGED late

ReadyMoves ==
    /\ Readying /\ call' = "none" /\ answer' = NoReply
    /\ UNCHANGED <<late, provider, verdict, absent, coll, box, nextId, made, runs, attested>>
    /\ \/ pc' \in {"r_get", "r_policy", "r_pause"} /\ handle' = handle
       \/ pc' = "idle" /\ handle' = "spent"
       \/ /\ pc' = "idle" /\ handle' = "ready"
          /\ Done("r_policy", "found") /\ answer.box.status = "loaded"

ExecMoves ==
    /\ Executing
    /\ UNCHANGED <<handle, provider, absent, box, nextId, made, runs, attested>>
    /\ "create" \in late' => "create" \in late
    /\ "exec" \in late' => "exec" \in late \/ (pc = "e_exec" /\ call = "sent")
    /\ \/ Done("e_exec", "stream") /\ AtRest("e_stream") /\ UNCHANGED <<late, verdict, coll>>
       \/ pc = "e_stream" /\ UNCHANGED <<pc, call, answer, late, verdict>> /\ (Within => Within')
       \/ AtRest("idle") /\ verdict' = "indeterminate" /\ coll' \in {coll, NewCollector}
       \/ /\ pc = "e_exec" /\ call = "none" /\ AtRest("idle") /\ verdict' = "not_dispatched"
          /\ coll' \in {coll, NewCollector} /\ UNCHANGED late
       \/ /\ pc = "e_stream" /\ coll.exit /\ AtRest("idle") /\ verdict' = "completed"
          /\ UNCHANGED <<late, coll>>

CleanupMoves ==
    /\ CleaningUp /\ call' = "none" /\ answer' = NoReply
    /\ UNCHANGED <<handle, provider, verdict, coll, box, nextId, made, runs, attested>>
    /\ "create" \in late' => "create" \in late
    /\ "exec" \in late' => "exec" \in late
    /\ \/ pc = "d_delete" /\ pc' = "idle" /\ UNCHANGED absent
       \/ pc # "d_delete" /\ pc' \in {"w_get", "w_pause"} /\ UNCHANGED absent
       \/ /\ pc # "d_delete" /\ pc' = "idle"
          /\ absent' = absent \/ (absent' = TRUE /\ Done("w_get", "not_found"))

\* A call leaves, or the budget ends.
Waits ==
    /\ UNCHANGED <<pc, answer, late, handle, provider, verdict, absent, coll,
                   box, nextId, made, runs, attested>>
    /\ call' = call \/ (call = "none" /\ call' = "sent")

\* Every step is one of these, or a step of the gateway.
LEMMA StepCases ==
    ASSUME TypeOK, [Next]_vars
    PROVE  \/ Begins \/ CreateMoves \/ ReadyMoves \/ ExecMoves \/ CleanupMoves \/ Waits
           \/ (\E t \in Tag : GatewayAnswers(t))
           \/ (\E rpc \in {"create", "exec", "delete"} : GatewayLate(rpc))
           \/ GatewayMoves
<1> USE Values DEF Done, gateway
<1>1. ASSUME Create PROVE Begins
  BY <1>1 DEF Create, Goto, Begins
<1>2. ASSUME WaitReady PROVE Begins
  BY <1>2 DEF WaitReady, Goto, Begins
<1>3. ASSUME Exec PROVE Begins
  BY <1>3 DEF Exec, Goto, Begins
<1>4. ASSUME Delete PROVE Begins
  BY <1>4 DEF Delete, Goto, Begins
<1>5. ASSUME WaitDeleted PROVE Begins
  BY <1>5 DEF WaitDeleted, Goto, Begins
<1>6. ASSUME CreateRejects PROVE CreateMoves
  BY <1>6 DEF CreateRejects, CreateFails, Return, Goto, CreateMoves, Creating
<1>7. ASSUME CreateStops PROVE CreateMoves
  <2>1. /\ "create" \in late' => "create" \in late \/ (pc = "c_create" /\ call = "sent")
        /\ "exec" \in late' => "exec" \in late \/ (pc = "e_exec" /\ call = "sent")
        /\ call # "sent" => late' = late
        /\ pc = "c_get" => late' = late
    BY <1>7, AbandonCases DEF CreateStops, TypeOK
  <2> QED
    BY <1>7, <2>1 DEF CreateStops, Stopped, CreateFails, Return, Goto, CreateMoves, Creating
<1>8. ASSUME CreatePreflight PROVE CreateMoves
  BY <1>8 DEF CreatePreflight, Answered, CreateFails, Return, Goto, CreateMoves, Creating
<1>9. ASSUME CreateAnswered PROVE CreateMoves
  BY <1>9 DEF CreateAnswered, Answered, CreateFails, Return, Goto, CreateMoves, Creating
<1>10. ASSUME ReadyStops PROVE ReadyMoves
  BY <1>10, Operations DEF ReadyStops, Stopped, ReadyReturns, Return, Goto, ReadyMoves, TypeOK, Readying
<1>11. ASSUME ReadyObserved PROVE ReadyMoves
  BY <1>11 DEF ReadyObserved, Answered, ReadyReturns, Poll, Return, Goto, ReadyMoves, Readying
<1>12. ASSUME PolicyObserved PROVE ReadyMoves
  BY <1>12 DEF PolicyObserved, Answered, ReadyReturns, Poll, Return, Goto, ReadyMoves, Readying
<1>13. ASSUME ExecRejects PROVE ExecMoves
  BY <1>13 DEF ExecRejects, ExecReturns, Return, Goto, ExecMoves, Executing, AtRest
<1>14. ASSUME ExecStops PROVE ExecMoves
  <2>1. /\ "create" \in late' => "create" \in late \/ (pc = "c_create" /\ call = "sent")
        /\ "exec" \in late' => "exec" \in late \/ (pc = "e_exec" /\ call = "sent")
        /\ call # "sent" => late' = late
        /\ pc = "c_get" => late' = late
    BY <1>14, AbandonCases DEF ExecStops, TypeOK
  <2> QED
    BY <1>14, <2>1 DEF ExecStops, Stopped, ExecReturns, Return, Goto, ExecMoves, Executing, AtRest
<1>15. ASSUME ExecAnswered PROVE ExecMoves
  BY <1>15 DEF ExecAnswered, Answered, ExecReturns, Poll, Return, Goto, ExecMoves, Executing, AtRest
<1>16. ASSUME NEW s \in {"out", "err"}, NEW n \in 0..MaxChunk, StreamChunk(s, n) PROVE ExecMoves
  <2> DEFINE counted == [coll EXCEPT ![s] = @ + n]
  <2>1. CASE coll.exit \/ Overflow(counted, n, s)
    BY <1>16, <2>1 DEF StreamChunk, ExecReturns, Return, Goto, ExecMoves, Executing, AtRest
  <2>2. CASE ~(coll.exit \/ Overflow(counted, n, s))
    <3>1. coll' = counted
      BY <1>16, <2>2 DEF StreamChunk
    <3>2. /\ counted.out \in Nat /\ counted.err \in Nat
          /\ {StdoutBytes, StderrBytes, CombinedBytes} \subseteq Nat
      BY LimitsAssumption DEF TypeOK
    <3>3. Within => Within'
      <4>1. CASE s = "out"
        <5>1. coll'.out = counted.out /\ coll'.err = coll.err
          BY <3>1, <4>1 DEF TypeOK
        <5> HIDE DEF counted
        <5> QED
          BY <2>2, <4>1, <5>1, <3>1, <3>2 DEF Overflow, Within
      <4>2. CASE s = "err"
        <5>1. coll'.err = counted.err /\ coll'.out = coll.out
          BY <3>1, <4>2 DEF TypeOK
        <5> HIDE DEF counted
        <5> QED
          BY <2>2, <4>2, <5>1, <3>1, <3>2 DEF Overflow, Within
      <4> QED
        BY <4>1, <4>2
    <3> QED
      BY <1>16, <2>2, <3>3 DEF StreamChunk, ExecMoves, Executing
  <2> QED
    BY <2>1, <2>2
<1>17. ASSUME NEW valid \in BOOLEAN, StreamExit(valid) PROVE ExecMoves
  BY <1>17 DEF StreamExit, ExecReturns, Return, Goto, ExecMoves, Executing, AtRest, Within, TypeOK
<1>18. ASSUME NEW clean \in BOOLEAN, StreamEnd(clean) PROVE ExecMoves
  BY <1>18 DEF StreamEnd, ExecReturns, Return, Goto, ExecMoves, Executing, AtRest, Within, TypeOK
<1>19. ASSUME DeleteAnswered PROVE CleanupMoves
  BY <1>19 DEF DeleteAnswered, Answered, DeleteReturns, Return, Goto, CleanupMoves, CleaningUp
<1>20. ASSUME DeleteStops PROVE CleanupMoves
  <2>1. /\ "create" \in late' => "create" \in late \/ (pc = "c_create" /\ call = "sent")
        /\ "exec" \in late' => "exec" \in late \/ (pc = "e_exec" /\ call = "sent")
        /\ call # "sent" => late' = late
        /\ pc = "c_get" => late' = late
    BY <1>20, AbandonCases DEF DeleteStops, TypeOK
  <2> QED
    BY <1>20, <2>1 DEF DeleteStops, Stopped, DeleteReturns, Return, Goto, CleanupMoves, CleaningUp
<1>21. ASSUME WaitDeletedStops PROVE CleanupMoves
  BY <1>21, Operations DEF WaitDeletedStops, Stopped, WaitDeletedReturns, Return, Goto, CleanupMoves, TypeOK, CleaningUp
<1>22. ASSUME DeletionObserved PROVE CleanupMoves
  <2>1. absent' = absent \/ (absent' = TRUE /\ answer.tag = "not_found")
    BY <1>22 DEF DeletionObserved, WaitDeletedReturns, Poll, TypeOK
  <2> QED
    BY <1>22, <2>1 DEF DeletionObserved, Answered, WaitDeletedReturns, Poll, Return, Goto, CleanupMoves, CleaningUp
<1>23. ASSUME Send PROVE Waits
  BY <1>23 DEF Send, RpcSteps, Waits
<1>24. ASSUME NEW b \in {"cancelled", "deadline"}, BudgetEnds(b) PROVE Waits
  BY <1>24 DEF BudgetEnds, Waits
<1>25. ASSUME Paused PROVE ReadyMoves \/ CleanupMoves
  BY <1>25 DEF Paused, Poll, Goto, ReadyMoves, CleanupMoves, Readying, CleaningUp
<1>26. ASSUME UNCHANGED vars PROVE Waits
  BY <1>26 DEF vars, Waits
<1> HIDE DEF Done, gateway
<1> QED
  BY <1>1, <1>2, <1>3, <1>4, <1>5, <1>6, <1>7, <1>8, <1>9, <1>10, <1>11, <1>12,
     <1>13, <1>14, <1>15, <1>16, <1>17, <1>18, <1>19, <1>20, <1>21, <1>22,
     <1>23, <1>24, <1>25, <1>26
  DEF Next, Caller, AdapterStep, Stream, Gateway

\* A box that is kept, or taken by somebody else, stays ours or not ours, loses no
\* loaded policy, and has an id below the next one.
LEMMA BoxFacts ==
    ASSUME TypeOK, BoxKept \/ BoxPlaced(FALSE),
           box # NoBox => box.id \in 1..(nextId - 1),
           box.status = "loaded" => box.loaded
    PROVE  /\ box' # NoBox => box'.id \in 1..(nextId' - 1)
           /\ \A id \in 1..(nextId - 1) : (box.id = id <=> box.own) =>
                 id \in 1..(nextId' - 1) /\ (box'.id = id <=> box'.own)
           /\ box'.status = "loaded" => box'.loaded
           /\ \A id \in 1..(nextId - 1) : (box.id = id => box.loaded) =>
                 (box'.id = id => box'.loaded)
<1>1. nextId \in Nat /\ nextId >= 1
  BY BoundsAssumption DEF TypeOK
<1>2. CASE BoxKept
  BY <1>1, <1>2, Values DEF BoxKept
<1>3. CASE BoxPlaced(FALSE)
  BY <1>1, <1>3 DEF BoxPlaced
<1> QED
  BY <1>2, <1>3

\* Only an applied create makes a box of ours.
LEMMA BoxAnswered ==
    ASSUME TypeOK, NEW t \in Tag, GatewayAnswers(t)
    PROVE  \/ pc = "c_create" /\ CreateApplied
           \/ BoxKept /\ (pc = "c_create" => t # "found")
BY AnswerCases DEF ExecApplied, DeleteApplied, BoxKept

\* An abandoned create makes a box of ours as well; no other late RPC does.
LEMMA BoxLate ==
    ASSUME TypeOK, NEW rpc \in {"create", "exec", "delete"}, GatewayLate(rpc)
    PROVE  ("create" \in late /\ CreateApplied) \/ BoxKept
BY LateCases DEF ExecApplied, DeleteApplied, BoxKept

\* The caller holds what the running operation left it.
LEMMA HandleStep == TypeOK /\ HandleFits /\ [Next]_vars => HandleFits'
<1> SUFFICES ASSUME TypeOK, HandleFits, [Next]_vars PROVE HandleFits'
  OBVIOUS
<1> USE Values DEF HandleFits, Creating, Readying, Executing, CleaningUp
<1>1. CASE Begins
  BY <1>1 DEF Begins
<1>2. CASE CreateMoves
  BY <1>2 DEF CreateMoves
<1>3. CASE ReadyMoves
  BY <1>3 DEF ReadyMoves
<1>4. CASE ExecMoves
  BY <1>4 DEF ExecMoves, AtRest
<1>5. CASE CleanupMoves
  BY <1>5 DEF CleanupMoves
<1>6. CASE Waits
  BY <1>6 DEF Waits
<1>7. ASSUME NEW t \in Tag, GatewayAnswers(t) PROVE HandleFits'
  BY <1>7, AnswerCases DEF CreateApplied, ExecApplied, DeleteApplied, BoxKept, BoxPlaced
<1>8. ASSUME NEW rpc \in {"create", "exec", "delete"}, GatewayLate(rpc) PROVE HandleFits'
  BY <1>8, LateCases DEF CreateApplied, ExecApplied, DeleteApplied, BoxKept, BoxPlaced
<1>9. CASE GatewayMoves
  BY <1>9, MoveCases DEF adapter, BoxKept, BoxPlaced
<1> HIDE DEF HandleFits, Creating, Readying, Executing, CleaningUp
<1> QED
  BY <1>1, <1>2, <1>3, <1>4, <1>5, <1>6, <1>7, <1>8, <1>9, StepCases

\* The create is applied once, and its answer is true.
LEMMA MadeStep == TypeOK /\ HandleFits /\ MadeOnce /\ [Next]_vars => MadeOnce'
<1> SUFFICES ASSUME TypeOK, HandleFits, MadeOnce, [Next]_vars PROVE MadeOnce'
  OBVIOUS
<1> USE Values DEF HandleFits, MadeOnce, Done, Creating, Readying, Executing, CleaningUp
<1>1. CASE Begins
  BY <1>1 DEF Begins
<1>2. CASE CreateMoves
  BY <1>2 DEF CreateMoves
<1>3. CASE ReadyMoves
  BY <1>3 DEF ReadyMoves
<1>4. CASE ExecMoves
  BY <1>4 DEF ExecMoves, AtRest
<1>5. CASE CleanupMoves
  BY <1>5 DEF CleanupMoves
<1>6. CASE Waits
  BY <1>6 DEF Waits
<1>7. ASSUME NEW t \in Tag, GatewayAnswers(t) PROVE MadeOnce'
  BY <1>7, AnswerCases DEF CreateApplied, ExecApplied, DeleteApplied, BoxKept, BoxPlaced
<1>8. ASSUME NEW rpc \in {"create", "exec", "delete"}, GatewayLate(rpc) PROVE MadeOnce'
  BY <1>8, LateCases DEF CreateApplied, ExecApplied, DeleteApplied, BoxKept, BoxPlaced
<1>9. CASE GatewayMoves
  <2>1. /\ UNCHANGED <<made, handle, pc, call, answer, late>>
        /\ BoxKept \/ BoxPlaced(FALSE)
    BY <1>9, MoveCases DEF adapter
  <2>2. box'.own => box.own
    BY <2>1 DEF BoxKept, BoxPlaced
  <2> QED
    BY <2>1, <2>2
<1> HIDE DEF HandleFits, MadeOnce, Done, Creating, Readying, Executing, CleaningUp
<1> QED
  BY <1>1, <1>2, <1>3, <1>4, <1>5, <1>6, <1>7, <1>8, <1>9, StepCases

\* The id in the caller's hands stays that of our box.
LEMMA ProviderStep == TypeOK /\ HandleFits /\ MadeOnce /\ LoadedFirst /\ ProviderIsOurs /\ [Next]_vars => ProviderIsOurs'
<1> SUFFICES ASSUME TypeOK, HandleFits, MadeOnce, LoadedFirst, ProviderIsOurs, [Next]_vars PROVE ProviderIsOurs'
  OBVIOUS
<1> USE Values DEF HandleFits, MadeOnce, ProviderIsOurs, IsOurs, LoadedFirst, Done, Creating, Readying, Executing, CleaningUp
<1>0. nextId \in Nat /\ nextId >= 1 /\ box.id \in Nat /\ provider \in Nat /\ answer.box.id \in Nat
  BY BoundsAssumption DEF TypeOK, BoxType
<1>1. CASE Begins
  BY <1>1, <1>0 DEF Begins
<1>2. CASE CreateMoves
  BY <1>2, <1>0 DEF CreateMoves
<1>3. CASE ReadyMoves
  BY <1>3, <1>0 DEF ReadyMoves
<1>4. CASE ExecMoves
  BY <1>4, <1>0 DEF ExecMoves, AtRest
<1>5. CASE CleanupMoves
  BY <1>5, <1>0 DEF CleanupMoves
<1>6. CASE Waits
  BY <1>6, <1>0 DEF Waits
<1>7. ASSUME NEW t \in Tag, GatewayAnswers(t) PROVE ProviderIsOurs'
  <2>1. CASE pc = "c_create" /\ CreateApplied
    <3>1. box'.id \in 1..(nextId' - 1) /\ box'.own = TRUE
      BY <1>0, <2>1 DEF CreateApplied, BoxPlaced
    <3>2. handle' = "none"
      BY <1>7, <2>1, AnswerCases
    <3>3. Done("c_create", "found")' => answer'.box = box'
      BY <1>7, AnswerCases
    <3> QED
      BY <3>1, <3>2, <3>3
  <2>2. CASE BoxKept /\ (pc = "c_create" => t # "found")
    BY <1>7, <1>0, <2>2, AnswerCases, BoxFacts
  <2> QED
    BY <1>7, <2>1, <2>2, BoxAnswered
<1>8. ASSUME NEW rpc \in {"create", "exec", "delete"}, GatewayLate(rpc) PROVE ProviderIsOurs'
  <2>1. CASE "create" \in late /\ CreateApplied
    <3>1. box'.id \in 1..(nextId' - 1) /\ box'.own = TRUE
      BY <1>0, <2>1 DEF CreateApplied, BoxPlaced
    <3>2. handle' = "possible" /\ pc' = pc /\ pc # "c_create"
      BY <1>8, <2>1, LateCases
    <3> QED
      BY <3>1, <3>2
  <2>2. CASE BoxKept
    BY <1>8, <1>0, <2>2, LateCases, BoxFacts
  <2> QED
    BY <1>8, <2>1, <2>2, BoxLate
<1>9. CASE GatewayMoves
  BY <1>9, <1>0, MoveCases, BoxFacts DEF adapter
<1> HIDE DEF HandleFits, MadeOnce, ProviderIsOurs, IsOurs, LoadedFirst, Done, Creating, Readying, Executing, CleaningUp
<1> QED
  BY <1>1, <1>2, <1>3, <1>4, <1>5, <1>6, <1>7, <1>8, <1>9, StepCases

\* Once our box was seen to be absent it does not come back.
LEMMA AbsenceStep == TypeOK /\ HandleFits /\ MadeOnce /\ AbsenceIsFinal /\ [Next]_vars => AbsenceIsFinal'
<1> SUFFICES ASSUME TypeOK, HandleFits, MadeOnce, AbsenceIsFinal, [Next]_vars PROVE AbsenceIsFinal'
  OBVIOUS
<1> USE Values DEF HandleFits, MadeOnce, AbsenceIsFinal, Done, Creating, Readying, Executing, CleaningUp
<1>1. CASE Begins
  BY <1>1 DEF Begins
<1>2. CASE CreateMoves
  BY <1>2 DEF CreateMoves
<1>3. CASE ReadyMoves
  BY <1>3 DEF ReadyMoves
<1>4. CASE ExecMoves
  BY <1>4 DEF ExecMoves, AtRest
<1>5. CASE CleanupMoves
  BY <1>5 DEF CleanupMoves
<1>6. CASE Waits
  BY <1>6 DEF Waits
<1>7. ASSUME NEW t \in Tag, GatewayAnswers(t) PROVE AbsenceIsFinal'
  BY <1>7, AnswerCases DEF CreateApplied, ExecApplied, DeleteApplied, BoxKept, BoxPlaced
<1>8. ASSUME NEW rpc \in {"create", "exec", "delete"}, GatewayLate(rpc) PROVE AbsenceIsFinal'
  BY <1>8, LateCases DEF CreateApplied, ExecApplied, DeleteApplied, BoxKept, BoxPlaced
<1>9. CASE GatewayMoves
  BY <1>9, MoveCases DEF adapter, BoxKept, BoxPlaced
<1> HIDE DEF HandleFits, MadeOnce, AbsenceIsFinal, Done, Creating, Readying, Executing, CleaningUp
<1> QED
  BY <1>1, <1>2, <1>3, <1>4, <1>5, <1>6, <1>7, <1>8, <1>9, StepCases

\* The command starts once.
LEMMA StartsStep == TypeOK /\ HandleFits /\ StartsOnce /\ [Next]_vars => StartsOnce'
<1> SUFFICES ASSUME TypeOK, HandleFits, StartsOnce, [Next]_vars PROVE StartsOnce'
  OBVIOUS
<1> USE Values DEF HandleFits, StartsOnce, Done, Creating, Readying, Executing, CleaningUp
<1>0. runs \in Nat
  BY DEF TypeOK
<1>1. CASE Begins
  BY <1>1, <1>0 DEF Begins
<1>2. CASE CreateMoves
  BY <1>2, <1>0 DEF CreateMoves
<1>3. CASE ReadyMoves
  BY <1>3, <1>0 DEF ReadyMoves
<1>4. CASE ExecMoves
  BY <1>4, <1>0 DEF ExecMoves, AtRest
<1>5. CASE CleanupMoves
  BY <1>5, <1>0 DEF CleanupMoves
<1>6. CASE Waits
  BY <1>6, <1>0 DEF Waits
<1>7. ASSUME NEW t \in Tag, GatewayAnswers(t) PROVE StartsOnce'
  <2>1. CASE pc = "e_exec" /\ ExecApplied
    BY <1>7, <1>0, <2>1, AnswerCases DEF ExecApplied
  <2>2. CASE runs' = runs /\ (pc = "e_exec" => t # "stream")
    BY <1>7, <1>0, <2>2, AnswerCases
  <2> QED
    BY <1>7, <2>1, <2>2, AnswerCases DEF CreateApplied, DeleteApplied
<1>8. ASSUME NEW rpc \in {"create", "exec", "delete"}, GatewayLate(rpc) PROVE StartsOnce'
  <2>1. CASE "exec" \in late /\ "exec" \notin late' /\ ExecApplied
    BY <1>8, <1>0, <2>1, LateCases DEF ExecApplied
  <2>2. CASE runs' = runs
    BY <1>8, <1>0, <2>2, LateCases
  <2> QED
    BY <1>8, <2>1, <2>2, LateCases DEF CreateApplied, DeleteApplied
<1>9. CASE GatewayMoves
  BY <1>9, <1>0, MoveCases DEF adapter
<1> HIDE DEF HandleFits, StartsOnce, Done, Creating, Readying, Executing, CleaningUp
<1> QED
  BY <1>1, <1>2, <1>3, <1>4, <1>5, <1>6, <1>7, <1>8, <1>9, StepCases

\* The policy is loaded in our box before the command may start.
LEMMA LoadedStep == TypeOK /\ HandleFits /\ MadeOnce /\ ProviderIsOurs /\ StartsOnce /\ LoadedFirst /\ [Next]_vars => LoadedFirst'
<1> SUFFICES ASSUME TypeOK, HandleFits, MadeOnce, ProviderIsOurs, StartsOnce, LoadedFirst, [Next]_vars PROVE LoadedFirst'
  OBVIOUS
<1> USE Values DEF HandleFits, MadeOnce, ProviderIsOurs, IsOurs, StartsOnce, LoadedFirst, Done, Creating, Readying, Executing, CleaningUp
<1>0. nextId \in Nat /\ nextId >= 1 /\ box.id \in Nat /\ provider \in Nat /\ answer.box.id \in Nat
  BY BoundsAssumption DEF TypeOK, BoxType
<1>1. CASE Begins
  BY <1>1, <1>0 DEF Begins
<1>2. CASE CreateMoves
  BY <1>2, <1>0 DEF CreateMoves
<1>3. CASE ReadyMoves
  BY <1>3, <1>0 DEF ReadyMoves
<1>4. CASE ExecMoves
  BY <1>4, <1>0 DEF ExecMoves, AtRest
<1>5. CASE CleanupMoves
  BY <1>5, <1>0 DEF CleanupMoves
<1>6. CASE Waits
  BY <1>6, <1>0 DEF Waits
<1>7. ASSUME NEW t \in Tag, GatewayAnswers(t) PROVE LoadedFirst'
  <2>1. CASE pc = "c_create" /\ CreateApplied
    BY <1>7, <1>0, <2>1, AnswerCases DEF CreateApplied, BoxPlaced
  <2>2. CASE BoxKept /\ (pc = "c_create" => t # "found")
    BY <1>7, <1>0, <2>2, AnswerCases, BoxFacts
  <2> QED
    BY <1>7, <2>1, <2>2, BoxAnswered
<1>8. ASSUME NEW rpc \in {"create", "exec", "delete"}, GatewayLate(rpc) PROVE LoadedFirst'
  <2>1. CASE "create" \in late /\ CreateApplied
    BY <1>8, <1>0, <2>1, LateCases DEF CreateApplied, BoxPlaced
  <2>2. CASE BoxKept
    BY <1>8, <1>0, <2>2, LateCases, BoxFacts
  <2> QED
    BY <1>8, <2>1, <2>2, BoxLate
<1>9. CASE GatewayMoves
  BY <1>9, <1>0, MoveCases, BoxFacts DEF adapter
<1> HIDE DEF HandleFits, MadeOnce, ProviderIsOurs, IsOurs, StartsOnce, LoadedFirst, Done, Creating, Readying, Executing, CleaningUp
<1> QED
  BY <1>1, <1>2, <1>3, <1>4, <1>5, <1>6, <1>7, <1>8, <1>9, StepCases

\* The collector stays within the limits.
LEMMA CollectorStep == TypeOK /\ StartsOnce /\ CollectorBounded /\ [Next]_vars => CollectorBounded'
<1> SUFFICES ASSUME TypeOK, StartsOnce, CollectorBounded, [Next]_vars PROVE CollectorBounded'
  OBVIOUS
<1> USE Values DEF StartsOnce, CollectorBounded, Within, Creating, Readying, Executing, CleaningUp
<1>1. CASE Begins
  BY <1>1, LimitsAssumption DEF Begins
<1>2. CASE CreateMoves
  BY <1>2, LimitsAssumption DEF CreateMoves
<1>3. CASE ReadyMoves
  BY <1>3, LimitsAssumption DEF ReadyMoves
<1>4. CASE ExecMoves
  BY <1>4, LimitsAssumption DEF ExecMoves, AtRest
<1>5. CASE CleanupMoves
  BY <1>5, LimitsAssumption DEF CleanupMoves
<1>6. CASE Waits
  BY <1>6, LimitsAssumption DEF Waits
<1>7. ASSUME NEW t \in Tag, GatewayAnswers(t) PROVE CollectorBounded'
  BY <1>7, AnswerCases, LimitsAssumption DEF CreateApplied, ExecApplied, DeleteApplied, BoxKept, BoxPlaced
<1>8. ASSUME NEW rpc \in {"create", "exec", "delete"}, GatewayLate(rpc) PROVE CollectorBounded'
  BY <1>8, LateCases, LimitsAssumption DEF CreateApplied, ExecApplied, DeleteApplied, BoxKept, BoxPlaced
<1>9. CASE GatewayMoves
  BY <1>9, MoveCases, LimitsAssumption DEF adapter, BoxKept, BoxPlaced
<1> HIDE DEF StartsOnce, CollectorBounded, Within, Creating, Readying, Executing, CleaningUp
<1> QED
  BY <1>1, <1>2, <1>3, <1>4, <1>5, <1>6, <1>7, <1>8, <1>9, StepCases

\* A start finds the policy loaded.
LEMMA AttestedStep == TypeOK /\ LoadedFirst /\ attested /\ [Next]_vars => attested'
<1> SUFFICES ASSUME TypeOK, LoadedFirst, attested, [Next]_vars PROVE attested'
  OBVIOUS
<1> USE Values DEF LoadedFirst, Done, Creating, Readying, Executing, CleaningUp
<1>1. CASE Begins
  BY <1>1 DEF Begins
<1>2. CASE CreateMoves
  BY <1>2 DEF CreateMoves
<1>3. CASE ReadyMoves
  BY <1>3 DEF ReadyMoves
<1>4. CASE ExecMoves
  BY <1>4 DEF ExecMoves, AtRest
<1>5. CASE CleanupMoves
  BY <1>5 DEF CleanupMoves
<1>6. CASE Waits
  BY <1>6 DEF Waits
<1>7. ASSUME NEW t \in Tag, GatewayAnswers(t) PROVE attested'
  BY <1>7, AnswerCases DEF CreateApplied, ExecApplied, DeleteApplied, BoxKept, BoxPlaced
<1>8. ASSUME NEW rpc \in {"create", "exec", "delete"}, GatewayLate(rpc) PROVE attested'
  BY <1>8, LateCases DEF CreateApplied, ExecApplied, DeleteApplied, BoxKept, BoxPlaced
<1>9. CASE GatewayMoves
  BY <1>9, MoveCases DEF adapter, BoxKept, BoxPlaced
<1> HIDE DEF LoadedFirst, Done, Creating, Readying, Executing, CleaningUp
<1> QED
  BY <1>1, <1>2, <1>3, <1>4, <1>5, <1>6, <1>7, <1>8, <1>9, StepCases

-----------------------------------------------------------------------------
\* The inductive invariant holds of the initial states ...
LEMMA InvInit == Init => Inv
<1> SUFFICES ASSUME Init PROVE Inv
  OBVIOUS
<1>1. TypeOK
  <2>1. 0 \in 0..MaxIds /\ 1 \in 1..(MaxIds + 1)
    BY BoundsAssumption
  <2> QED
    BY <2>1, Steps, Values DEF Init, TypeOK, Contract!Handle, Contract!Verdict
<1>2. /\ HandleFits /\ MadeOnce /\ AbsenceIsFinal /\ StartsOnce /\ attested
  BY Values DEF Init, HandleFits, MadeOnce, AbsenceIsFinal, StartsOnce, Done,
                Creating, Readying, Executing, CleaningUp
<1>3. ProviderIsOurs /\ LoadedFirst
  BY Values DEF Init, ProviderIsOurs, LoadedFirst, Done, Executing
<1>4. CollectorBounded
  BY Values, LimitsAssumption DEF Init, CollectorBounded, Within
<1> QED
  BY <1>1, <1>2, <1>3, <1>4 DEF Inv

\* ... and every step of the adapter and of the gateway keeps it.
LEMMA InvStep == Inv /\ [Next]_vars => Inv'
BY TypesStep, HandleStep, MadeStep, ProviderStep, AbsenceStep, StartsStep, LoadedStep,
   CollectorStep, AttestedStep DEF Inv

\* Every behaviour of adapter and gateway keeps the inductive invariant.
THEOREM Invariance == Spec => []Inv
BY InvInit, InvStep, PTL DEF Spec

(* TypeOK holds in every state of the adapter and the gateway, whatever    *)
(* the limits and however often the name is reused.                        *)
THEOREM TypeCorrect == Spec => []TypeOK
BY Invariance, PTL DEF Inv

(* A completed execution has its terminal exit, ran once, and its output   *)
(* is within the request's ceilings (exec.rs, OutputCollector), for any    *)
(* ceilings and any chunk sizes.                                           *)
THEOREM CompletedStaysWithinLimits == Spec => []CompletedWithinLimits
<1>1. Inv => CompletedWithinLimits
  BY DEF Inv, CompletedWithinLimits, StartsOnce, CollectorBounded, Within
<1> QED
  BY <1>1, Invariance, PTL

(* A command only starts in a sandbox whose own policy was loaded, however *)
(* the name changes hands between the readiness RPCs and the exec.         *)
THEOREM StartsUnderLoadedPolicy == Spec => []RunsUnderLoadedPolicy
<1>1. Inv => RunsUnderLoadedPolicy
  BY DEF Inv, RunsUnderLoadedPolicy
<1> QED
  BY <1>1, Invariance, PTL

-----------------------------------------------------------------------------
(* The refinement *)

CStep == [Contract!Next]_(Contract!contractVars)

\* The sandbox of the contract changes only with the box and with made.
LEMMA OwnedSame == ASSUME UNCHANGED <<box, made>> PROVE Owned' = Owned
BY DEF Owned

\* The start of an operation (SandboxRuntime for OpenShellRuntime, the entry of each method)
\* is the call of the contract.
LEMMA BeginsMaps == ASSUME TypeOK, TypeOK', Begins PROVE CStep
<1>1. pc \in DOMAIN OpOf /\ pc' \in DOMAIN OpOf
  BY DEF TypeOK
<1>2. Owned' = Owned /\ UNCHANGED <<runs, verdict, absent>>
  BY OwnedSame DEF Begins
<1>3. OpOf[pc] = "idle"
  BY <1>1, Operations DEF Begins
<1>4. \E o \in Contract!Operation : Contract!Call(o)
  <2>1. CASE handle = "none" /\ pc' = "c_get" /\ handle' = handle
    <3>1. OpOf[pc'] = "create"
      BY <1>1, <2>1, Operations
    <3>2. Contract!Call("create")
      BY <1>2, <1>3, <2>1, <3>1 DEF Contract!Call, Contract!Admits
    <3> QED
      BY <3>2 DEF Contract!Operation
  <2>2. CASE handle = "created" /\ pc' = "r_get" /\ handle' = "spent"
    <3>1. OpOf[pc'] = "wait_ready"
      BY <1>1, <2>2, Operations
    <3>2. Contract!Call("wait_ready")
      BY <1>2, <1>3, <2>2, <3>1 DEF Contract!Call, Contract!Admits
    <3> QED
      BY <3>2 DEF Contract!Operation
  <2>3. CASE handle = "ready" /\ pc' = "e_exec" /\ handle' = "spent"
    <3>1. OpOf[pc'] = "exec"
      BY <1>1, <2>3, Operations
    <3>2. Contract!Call("exec")
      BY <1>2, <1>3, <2>3, <3>1 DEF Contract!Call, Contract!Admits
    <3> QED
      BY <3>2 DEF Contract!Operation
  <2>4. CASE /\ handle \in {"created", "ready", "spent", "possible"}
             /\ pc' \in {"d_delete", "w_get"} /\ handle' = handle
    <3>1. OpOf[pc'] \in {"delete", "wait_deleted"}
      BY <1>1, <2>4, Operations
    <3>2. Contract!Call(OpOf[pc'])
      BY <1>2, <1>3, <2>4, <3>1 DEF Contract!Call, Contract!Admits, Contract!HasTarget
    <3> QED
      BY <3>1, <3>2 DEF Contract!Operation
  <2> QED
    BY <2>1, <2>2, <2>3, <2>4 DEF Begins
<1> QED
  BY <1>4 DEF CStep, Contract!Next

\* The steps of create: it ends with the outcome the contract allows for what was made.
LEMMA CreateMaps == ASSUME TypeOK, TypeOK', HandleFits, MadeOnce, CreateMoves PROVE CStep
<1>1. pc \in DOMAIN OpOf /\ pc' \in DOMAIN OpOf
  BY DEF TypeOK
<1>2. Owned' = Owned /\ UNCHANGED <<runs, verdict, absent>>
  BY OwnedSame DEF CreateMoves
<1>3. OpOf[pc] = "create"
  BY <1>1, Operations DEF CreateMoves, Creating
<1>4. CASE pc' = "c_create" /\ handle' = handle
  <2>1. OpOf[pc'] = "create"
    BY <1>1, <1>4, Operations
  <2> QED
    BY <1>2, <1>3, <1>4, <2>1 DEF CStep, Contract!contractVars
<1>5. ASSUME pc' = "idle", handle' \in {"created", "possible", "not_created", "conflict"},
             handle' \in {"not_created", "conflict"} => ~made,
             handle' = "created" => made
      PROVE  CStep
  <2>1. OpOf[pc'] = "idle"
    BY <1>1, <1>5, Operations
  <2>2. /\ handle' \in {"not_created", "conflict"} => Owned = "never"
        /\ handle' = "created" => Owned # "never"
    BY <1>5 DEF Owned
  <2>3. Contract!CreateReturns(handle')
    BY <1>2, <1>3, <2>1, <2>2 DEF Contract!CreateReturns
  <2> QED
    BY <1>5, <2>3 DEF CStep, Contract!Next
<1>6. handle = "none"
  BY DEF CreateMoves, HandleFits
<1>7. CASE /\ pc' = "idle" /\ handle' \in {"not_created", "conflict"}
           /\ pc = "c_create" => call = "none" \/ Done("c_create", "exists")
  BY <1>5, <1>6, <1>7 DEF MadeOnce, Done
<1>8. CASE pc' = "idle" /\ handle' = "possible"
  BY <1>5, <1>8
<1>9. CASE Done("c_create", "found") /\ pc' = "idle" /\ handle' = "created"
  BY <1>5, <1>9 DEF MadeOnce
<1> QED
  BY <1>4, <1>7, <1>8, <1>9 DEF CreateMoves

\* The steps of wait_ready change nothing the contract is about.
LEMMA ReadyMaps == ASSUME TypeOK, TypeOK', ReadyMoves PROVE CStep
<1>1. pc \in DOMAIN OpOf /\ pc' \in DOMAIN OpOf
  BY DEF TypeOK
<1>2. Owned' = Owned /\ UNCHANGED <<runs, verdict, absent>>
  BY OwnedSame DEF ReadyMoves
<1>3. OpOf[pc] = "wait_ready"
  BY <1>1, Operations DEF ReadyMoves, Readying
<1>4. CASE pc' \in {"r_get", "r_policy", "r_pause"} /\ handle' = handle
  <2>1. OpOf[pc'] = "wait_ready"
    BY <1>1, <1>4, Operations
  <2> QED
    BY <1>2, <1>3, <1>4, <2>1 DEF CStep, Contract!contractVars
<1>5. CASE pc' = "idle" /\ handle' \in {"ready", "spent"}
  <2>1. OpOf[pc'] = "idle"
    BY <1>1, <1>5, Operations
  <2>2. Contract!ReadyReturns(handle')
    BY <1>2, <1>3, <2>1 DEF Contract!ReadyReturns
  <2> QED
    BY <1>5, <2>2 DEF CStep, Contract!Next
<1> QED
  BY <1>4, <1>5 DEF ReadyMoves

\* The steps of exec: its verdict fits what was started.
LEMMA ExecMaps == ASSUME TypeOK, TypeOK', HandleFits, StartsOnce, ExecMoves PROVE CStep
<1>1. pc \in DOMAIN OpOf /\ pc' \in DOMAIN OpOf
  BY DEF TypeOK
<1>2. Owned' = Owned /\ UNCHANGED <<handle, runs, absent>>
  BY OwnedSame DEF ExecMoves
<1>3. OpOf[pc] = "exec"
  BY <1>1, Operations DEF ExecMoves, Executing
<1>4. CASE pc' = "e_stream" /\ verdict' = verdict
  <2>1. OpOf[pc'] = "exec"
    BY <1>1, <1>4, Operations
  <2> QED
    BY <1>2, <1>3, <1>4, <2>1 DEF CStep, Contract!contractVars
<1>5. ASSUME pc' = "idle", verdict' \in {"completed", "not_dispatched", "indeterminate"},
             verdict' = "not_dispatched" => runs = 0, verdict' = "completed" => runs = 1
      PROVE  CStep
  <2>1. OpOf[pc'] = "idle"
    BY <1>1, <1>5, Operations
  <2>2. Contract!ExecReturns(verdict')
    BY <1>2, <1>3, <1>5, <2>1 DEF Contract!ExecReturns
  <2> QED
    BY <1>5, <2>2 DEF CStep, Contract!Next, Contract!Verdict
<1>6. CASE AtRest("idle") /\ verdict' = "indeterminate"
  BY <1>5, <1>6 DEF AtRest
<1>7. CASE pc = "e_exec" /\ call = "none" /\ AtRest("idle") /\ verdict' = "not_dispatched"
  <2>1. runs = 0
    BY <1>7 DEF StartsOnce, Executing
  <2> QED
    BY <1>5, <1>7, <2>1 DEF AtRest
<1>8. CASE pc = "e_stream" /\ AtRest("idle") /\ verdict' = "completed"
  BY <1>5, <1>8 DEF AtRest, StartsOnce
<1> QED
  BY <1>4, <1>6, <1>7, <1>8 DEF ExecMoves, AtRest

\* The steps of cleanup: it reports absence only of what is gone.
LEMMA CleanupMaps ==
    ASSUME TypeOK, TypeOK', HandleFits, AbsenceIsFinal, CleanupMoves PROVE CStep
<1>1. pc \in DOMAIN OpOf /\ pc' \in DOMAIN OpOf /\ absent \in BOOLEAN
  BY DEF TypeOK
<1>2. Owned' = Owned /\ UNCHANGED <<handle, runs, verdict>>
  BY OwnedSame DEF CleanupMoves
<1>3. CASE pc = "d_delete" /\ pc' = "idle" /\ UNCHANGED absent
  <2>1. OpOf[pc] = "delete" /\ OpOf[pc'] = "idle"
    BY <1>1, <1>3, Operations
  <2>2. Contract!DeleteReturns
    BY <1>2, <1>3, <2>1 DEF Contract!DeleteReturns
  <2> QED
    BY <2>2 DEF CStep, Contract!Next
<1>4. CASE pc # "d_delete"
  <2>1. OpOf[pc] = "wait_deleted"
    BY <1>1, <1>4, Operations DEF CleanupMoves, CleaningUp
  <2>2. CASE pc' \in {"w_get", "w_pause"} /\ UNCHANGED absent
    <3>1. OpOf[pc'] = "wait_deleted"
      BY <1>1, <2>2, Operations
    <3> QED
      BY <1>2, <2>1, <2>2, <3>1 DEF CStep, Contract!contractVars
  <2>3. CASE pc' = "idle" /\ absent' = absent
    <3>1. OpOf[pc'] = "idle"
      BY <1>1, <2>3, Operations
    <3>2. Contract!WaitDeletedReturns(FALSE)
      BY <1>1, <1>2, <2>1, <2>3, <3>1 DEF Contract!WaitDeletedReturns
    <3> QED
      BY <3>2 DEF CStep, Contract!Next
  <2>4. CASE pc' = "idle" /\ absent' = TRUE /\ Done("w_get", "not_found")
    <3>1. OpOf[pc'] = "idle"
      BY <1>1, <2>4, Operations
    <3>2. handle # "possible" => Owned = "gone"
      BY <2>4 DEF AbsenceIsFinal, Owned
    <3>3. Contract!WaitDeletedReturns(TRUE)
      BY <1>1, <1>2, <2>1, <2>4, <3>1, <3>2 DEF Contract!WaitDeletedReturns
    <3> QED
      BY <3>3 DEF CStep, Contract!Next
  <2> QED
    BY <1>4, <2>2, <2>3, <2>4 DEF CleanupMoves
<1> QED
  BY <1>3, <1>4 DEF CleanupMoves

\* A box that is kept or taken by somebody else: ours is lost, or nothing changes.
LEMMA BoxMaps ==
    ASSUME BoxKept \/ BoxPlaced(FALSE),
           UNCHANGED <<pc, handle, made, runs, verdict, absent>>
    PROVE  CStep
<1>1. box'.own => box.own
  BY Values DEF BoxKept, BoxPlaced
<1>2. CASE Owned' = Owned
  BY <1>2 DEF CStep, Contract!contractVars
<1>3. CASE Owned' # Owned
  <2>1. Owned = "live" /\ Owned' = "gone"
    BY <1>1, <1>3 DEF Owned
  <2>2. Contract!Lose
    BY <2>1 DEF Contract!Lose
  <2> QED
    BY <2>2 DEF CStep, Contract!Next
<1> QED
  BY <1>2, <1>3

\* The gateway applies a create: the sandbox becomes live while the caller cannot rule it out.
LEMMA CommitMaps ==
    ASSUME TypeOK, CreateApplied, ~made, OpOf[pc] = "create" \/ handle = "possible",
           UNCHANGED <<pc, handle, verdict, absent>>
    PROVE  CStep
<1>1. Owned = "never" /\ Owned' = "live" /\ runs' = runs
  BY DEF CreateApplied, BoxPlaced, Owned
<1>2. Contract!Commit
  BY <1>1 DEF Contract!Commit
<1> QED
  BY <1>2 DEF CStep, Contract!Next

\* The gateway applies an exec: the command starts while the caller cannot rule it out.
LEMMA RunMaps ==
    ASSUME TypeOK, ExecApplied, runs = 0, made, OpOf[pc] = "exec" \/ verdict = "indeterminate",
           UNCHANGED <<pc, handle, verdict, absent>>
    PROVE  CStep
<1>1. Owned # "never" /\ Owned' = Owned /\ runs' = 1
  BY DEF ExecApplied, Owned
<1>2. Contract!Run
  BY <1>1 DEF Contract!Run
<1> QED
  BY <1>2 DEF CStep, Contract!Next

\* Every step of the adapter and the gateway is a step of the contract or leaves it alone.
LEMMA StepMaps == Inv /\ Inv' /\ [Next]_vars => CStep
<1> SUFFICES ASSUME Inv, Inv', [Next]_vars PROVE CStep
  OBVIOUS
<1>1. TypeOK /\ TypeOK' /\ HandleFits /\ MadeOnce /\ AbsenceIsFinal /\ StartsOnce
  BY DEF Inv
<1>2. pc \in DOMAIN OpOf
  BY <1>1 DEF TypeOK
<1>3. CASE Waits
  <2>1. Owned' = Owned
    BY <1>3, OwnedSame DEF Waits
  <2> QED
    BY <1>3, <2>1 DEF Waits, CStep, Contract!contractVars
<1>4. ASSUME NEW t \in Tag, GatewayAnswers(t) PROVE CStep
  <2>1. call = "sent" /\ UNCHANGED <<pc, handle, verdict, absent>>
    BY <1>1, <1>4, AnswerCases
  <2>2. CASE pc = "c_create" /\ CreateApplied
    <3>1. ~made /\ OpOf[pc] = "create"
      BY <1>1, <1>2, <2>1, <2>2, Operations DEF MadeOnce, HandleFits, Creating
    <3> QED
      BY <1>1, <2>1, <2>2, <3>1, CommitMaps
  <2>3. CASE pc = "e_exec" /\ ExecApplied
    <3>1. runs = 0 /\ made /\ OpOf[pc] = "exec"
      BY <1>1, <1>2, <2>1, <2>3, Operations DEF StartsOnce, MadeOnce, HandleFits, Executing
    <3> QED
      BY <1>1, <2>1, <2>3, <3>1, RunMaps
  <2>4. CASE BoxKept /\ UNCHANGED <<made, runs>>
    BY <2>1, <2>4, BoxMaps
  <2> QED
    BY <1>1, <1>4, <2>2, <2>3, <2>4, AnswerCases DEF DeleteApplied, BoxKept
<1>5. ASSUME NEW rpc \in {"create", "exec", "delete"}, GatewayLate(rpc) PROVE CStep
  <2>1. rpc \in late /\ UNCHANGED <<pc, handle, verdict, absent>>
    BY <1>1, <1>5, LateCases
  <2>2. CASE rpc = "create" /\ CreateApplied
    BY <1>1, <2>1, <2>2, CommitMaps DEF MadeOnce
  <2>3. CASE rpc = "exec" /\ ExecApplied
    <3>1. runs = 0 /\ made /\ verdict = "indeterminate"
      BY <1>1, <2>1, <2>3 DEF StartsOnce, MadeOnce
    <3> QED
      BY <1>1, <2>1, <2>3, <3>1, RunMaps
  <2>4. CASE BoxKept /\ UNCHANGED <<made, runs>>
    BY <2>1, <2>4, BoxMaps
  <2> QED
    BY <1>1, <1>5, <2>2, <2>3, <2>4, LateCases DEF DeleteApplied, BoxKept
<1>6. CASE GatewayMoves
  BY <1>1, <1>6, MoveCases, BoxMaps DEF adapter
<1> QED
  BY <1>1, <1>3, <1>4, <1>5, <1>6, StepCases, BeginsMaps, CreateMaps, ReadyMaps,
     ExecMaps, CleanupMaps

(* The OpenShell adapter implements the contract of the SandboxRuntime     *)
(* trait for every output limit and however often the name is reused:      *)
(* NotCreated, Conflict and NotDispatched are proofs, the command starts   *)
(* at most once, and a confirmed deletion is final.                        *)
THEOREM OpenShellImplementsContract == Spec => ImplementsContract
<1>1. Init => Contract!Init
  <2> SUFFICES ASSUME Init PROVE Contract!Init
    OBVIOUS
  <2>1. OpOf[pc] = "idle"
    BY DEF Init, OpOf
  <2>2. Owned = "never"
    BY DEF Init, Owned
  <2> QED
    BY <2>1, <2>2 DEF Init, Contract!Init
<1>2. Inv /\ Inv' /\ [Next]_vars => [Contract!Next]_(Contract!contractVars)
  BY StepMaps DEF CStep
<1> QED
  BY <1>1, <1>2, Invariance, PTL DEF Spec, ImplementsContract, Contract!Spec
=============================================================================
