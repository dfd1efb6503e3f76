---------------------------- MODULE BoundaryProofs ----------------------------
(***************************************************************************)
(* The safety invariants of Boundary, for every set of identifiers,        *)
(* callers and operations and any number of crashes.                       *)
(*                                                                         *)
(* The invariants are proved in layers, each inductive relative to the     *)
(* ones before it: TypeOK and Shape; Ownership (who holds an entry, and    *)
(* what a Create request may rely on); Execution (one command, behind its  *)
(* fence, for the right caller); Strangers (what becomes of a sandbox of   *)
(* somebody else's); Recovery (a durable record covers every sandbox,      *)
(* during reconciliation too); SandboxReachable; and, apart from them,     *)
(* NoLostWakeup.                                                           *)
(*                                                                         *)
(* All layers from Ownership on assume MaxCreates = 1: an identifier is    *)
(* generated for one Create request and is not sent twice.  The run of     *)
(* MCBoundaryDuplicate.cfg shows that two Create requests for one          *)
(* identifier break DurableCoverage.                                       *)
(***************************************************************************)
EXTENDS Boundary, TLAPS

-----------------------------------------------------------------------------
(***************************************************************************)
(* The strengthenings.                                                     *)
(***************************************************************************)
\* An operation has a request, and holds what its place in the code needs;
\* a process that does not serve runs no operation and owns nothing.
Shape ==
    /\ \A o \in Op : pc[o] # "idle" => req[o].id \in Id /\ req[o].who \in Caller
    /\ \A o \in Op : pc[o] \in HolderPc \ {"cleanup_write"} => held[o] \in Lifecycle
    /\ \A o \in Op : pc[o] \in {"ready_call", "ready_record"} => held[o] = "Created"
    /\ \A o \in Op :
        pc[o] \in {"exec_fence", "exec_call", "exec_running"} => held[o] = "Ready"
    /\ recon.step # "next" => recon.cur \in Id
    /\ svc # "serving" => /\ \A o \in Op : pc[o] = "idle"
                          /\ \A i \in Id : owned[i].life = "none"

\* Nothing was ever done for identifier i.
Untouched(i) ==
    /\ disk[i].stage = "none"
    /\ owned[i].life = "none"
    /\ execs[i] = 0
    /\ i \notin released
    /\ late[i] = "none"
    /\ i \in Mine => box[i] = "absent"

\* Until its first Create request an identifier is untouched; that request
\* finds it so until it calls the provider, and again when the provider
\* created nothing.
Fresh ==
    /\ \A i \in Id :
        creates[i] = 0 => Untouched(i) /\ \A o \in Op : ~Claims(o, i)
    /\ \A o \in Op :
        pc[o] \in {"create_claim", "create_fence"} => Untouched(req[o].id)
    /\ \A o \in Op :
        pc[o] \in {"create_call", "create_record"} =>
            execs[req[o].id] = 0 /\ req[o].id \notin released
    /\ \A o \in Op :
        pc[o] \in {"create_call", "unown_write", "unown_remove"} =>
            /\ late[req[o].id] = "none"
            /\ req[o].id \in Mine => box[req[o].id] = "absent"

\* Only a CleanupOnly entry may stand for a sandbox that is being deleted, and an
\* entry is dropped when its sandbox was reported absent.
Alive ==
    /\ \A i \in Id : owned[i].life \in {"Created", "Ready"} => box[i] \in {"live", "stray"}
    /\ \A o \in Op :
        pc[o] \in HolderPc \ {"cleanup_write"} /\ held[o] \in {"Created", "Ready"} =>
            box[req[o].id] \in {"live", "stray"}
    /\ \A o \in Op : pc[o] = "create_record" => box[req[o].id] = "live"
    /\ \A o \in Op : pc[o] = "gone_remove" => ~Exists(req[o].id)

Ownership == OneClaim /\ Fresh /\ Alive

\* After a command, its sandbox is never offered for another one.
Spent ==
    \A i \in Id :
        /\ execs[i] <= 1
        /\ execs[i] = 1 =>
            /\ owned[i].life \in {"none", "CleanupOnly"}
            /\ \A o \in Op : Claims(o, i) =>
                \/ pc[o] \in {"exec_running", "cleanup_write"}
                \/ pc[o] \in HolderPc /\ held[o] = "CleanupOnly"

Fenced ==
    \A o \in Op : pc[o] \in {"exec_call", "exec_running"} =>
        disk[req[o].id].stage = "ExecPossible"

Belongs ==
    /\ RecordKeepsCaller
    /\ \A o \in Op :
        pc[o] \in CreatePc /\ disk[req[o].id].stage # "none" =>
            disk[req[o].id].caller = req[o].who

\* What was released is not taken up again.
Gone ==
    \A i \in released :
        /\ creates[i] # 0
        /\ owned[i].life = "none"
        /\ \A o \in Op : ~Claims(o, i)
        /\ i \in Mine => ~Exists(i)

Execution == Spent /\ Fenced /\ Belongs /\ Gone

\* A sandbox of somebody else's is only ever claimed for its removal: the one Create
\* request for it finds it live, and its entry is never more than CleanupOnly.
Strangers ==
    /\ \A i \in recon.todo : creates[i] # 0
    /\ recon.step # "next" => creates[recon.cur] # 0
    /\ \A i \in Foreign :
        /\ execs[i] = 0
        /\ creates[i] = 0 => box[i] = "live"
        /\ owned[i].life \in {"none", "CleanupOnly"}
        /\ \A o \in Op : req[o].id = i =>
            /\ pc[o] \notin {"create_record", "ready_call", "ready_record", "exec_fence",
                             "exec_call", "exec_running"}
            /\ pc[o] \in {"create_claim", "create_fence", "create_call"} => box[i] = "live"
            /\ pc[o] \in HolderPc \ {"cleanup_write"} => held[o] = "CleanupOnly"

\* DurableCoverage says that what is Exposed is Recorded.
Exposed(i) ==
    Exists(i) \/ \E o \in Op : pc[o] = "create_call" /\ req[o].id = i
Recorded(i) == disk[i].stage \notin {"none", "Unowned"}

\* A sandbox that was not reported absent to the reconciliation is still to be
\* visited, is the one waited for, or is counted as unresolved.
Pending ==
    svc = "reconciling" =>
        /\ \A i \in Mine : Exists(i) =>
            \/ i \in recon.todo \cup recon.unresolved
            \/ recon.cur = i /\ recon.step = "wait"
        /\ recon.step = "remove" /\ recon.cur \in Mine => ~Exists(recon.cur)

Recovery == DurableCoverage /\ Pending

-----------------------------------------------------------------------------
(***************************************************************************)
(* Types.                                                                  *)
(***************************************************************************)
\* The values that stand for no record, no entry, no request and no loop have
\* their types.
LEMMA NullTypes ==
    /\ NoRecord \in DurableRecord
    /\ NoEntry \in OwnedEntry
    /\ NoReq \in Request
    /\ NoRecon \in Reconciliation
BY DEF NoRecord, DurableRecord, NoEntry, OwnedEntry, NoReq, Request, NoRecon,
       Reconciliation

\* Every step of the service keeps every variable in its type.
LEMMA TypeStep ==
    ASSUME TypeOK, Shape, [Next]_vars PROVE TypeOK'
<1> USE NullTypes DEF TypeOK, memory, process, outside, history, Goto, Pc,
        CreatePc, HolderPc, AcquirePc, OtherPc
<1>0. \A o \in Op : pc[o] # "idle" => req[o].id \in Id
  BY DEF Shape
<1>1. ASSUME NEW o \in Op, NEW i \in Id, NEW c \in Caller,
             CreateAdmit(o, i, c)
      PROVE TypeOK'
  BY <1>1 DEF CreateAdmit, Begin, Request, Kind
<1>2. ASSUME NEW o \in Op, NEW i \in Id, NEW c \in Caller,
             WaitReadyTake(o, i, c)
      PROVE TypeOK'
  BY <1>2 DEF WaitReadyTake, Begin, Request, Kind, OwnedBy, OwnedEntry
<1>3. ASSUME NEW o \in Op, NEW i \in Id, NEW c \in Caller,
             PrepareAdmit(o, i, c)
      PROVE TypeOK'
  BY <1>3 DEF PrepareAdmit, Begin, Request, Kind
<1>4. ASSUME NEW o \in Op, NEW i \in Id, NEW c \in Caller,
             CommitAdmit(o, i, c)
      PROVE TypeOK'
  BY <1>4 DEF CommitAdmit, Begin, Request, Kind
<1>5. ASSUME NEW o \in Op, NEW i \in Id, NEW c \in Caller,
             NEW k \in {"delete", "wait_deleted"}, CleanupBegin(o, k, i, c)
      PROVE TypeOK'
  BY <1>5 DEF CleanupBegin, Begin, Request, Kind
<1>6. ASSUME NEW o \in Op, put_owned(o) PROVE TypeOK'
  BY <1>6 DEF put_owned, OwnedEntry, Request
<1>7. ASSUME NEW o \in Op, CleanupWrite(o) PROVE TypeOK'
  BY <1>7 DEF CleanupWrite, write_record, DurableRecord, Request, Stage,
         Result, Lifecycle
<1>8. ASSUME NEW o \in Op, Refuse(o) PROVE TypeOK'
  BY <1>8 DEF Refuse, Finish
<1>9. ASSUME NEW o \in Op, CreateClaim(o) PROVE TypeOK'
  BY <1>9 DEF CreateClaim
<1>10. ASSUME NEW o \in Op, CreateFence(o) PROVE TypeOK'
  <2>1. disk' \in [Id -> DurableRecord]
    BY <1>10, SMTT(30) DEF CreateFence, write_record, DurableRecord, Request, Stage
  <2> QED BY <1>10, <2>1 DEF CreateFence
<1>11. ASSUME NEW o \in Op, CreateFenceFails(o) PROVE TypeOK'
  <2>1. disk' \in [Id -> DurableRecord]
    BY <1>11 DEF CreateFenceFails, write_record, DurableRecord, Request, Stage
  <2> QED BY <1>11, <1>0, <2>1 DEF CreateFenceFails, Finish
<1>12. ASSUME NEW o \in Op, RuntimeCreateOk(o) PROVE TypeOK'
  BY <1>12 DEF RuntimeCreateOk
<1>13. ASSUME NEW o \in Op, RuntimeCreatePossible(o) PROVE TypeOK'
  BY <1>13 DEF RuntimeCreatePossible
<1>14. ASSUME NEW o \in Op, RuntimeCreateNothing(o) PROVE TypeOK'
  BY <1>14, <1>0 DEF RuntimeCreateNothing
<1>15. ASSUME NEW o \in Op, CreateRecord(o) PROVE TypeOK'
  <2>1. PICK res \in Result :
            /\ write_record(req[o].id, req[o].who, "Created", res)
            /\ held' = [held EXCEPT ![o] = IF res = "ok" THEN "Created" ELSE "CleanupOnly"]
    BY <1>15 DEF CreateRecord
  <2>2. disk' \in [Id -> DurableRecord]
    BY <1>15, <2>1 DEF write_record, DurableRecord, Request, Stage
  <2>3. held' \in [Op -> Lifecycle \cup {"none"}]
    BY <2>1 DEF Lifecycle
  <2> QED BY <1>15, <2>2, <2>3 DEF CreateRecord
<1>16. ASSUME NEW o \in Op, UnownWrite(o) PROVE TypeOK'
  <2>1. disk' \in [Id -> DurableRecord]
    BY <1>16 DEF UnownWrite, write_record, DurableRecord, Request, Stage
  <2> QED BY <1>16, <2>1 DEF UnownWrite
<1>17. ASSUME NEW o \in Op, UnownRemove(o) PROVE TypeOK'
  BY <1>17, <1>0 DEF UnownRemove, Finish, remove_record
<1>18. ASSUME NEW o \in Op, RuntimeWaitReady(o) PROVE TypeOK'
  BY <1>18 DEF RuntimeWaitReady
<1>19. ASSUME NEW o \in Op, ReadyRecord(o) PROVE TypeOK'
  BY <1>19, SMTT(30) DEF ReadyRecord, write_record, DurableRecord, Request,
         Stage, Result, Lifecycle
<1>20. ASSUME NEW o \in Op, PrepareCheck(o) PROVE TypeOK'
  BY <1>20 DEF PrepareCheck
<1>21. ASSUME NEW o \in Op, PrepareInsert(o) PROVE TypeOK'
  BY <1>21 DEF PrepareInsert, Finish, Request
<1>22. ASSUME NEW o \in Op, CommitToken(o) PROVE TypeOK'
  BY <1>22 DEF CommitToken
<1>23. ASSUME NEW o \in Op, NEW j \in Id, CommitTokenSpoiled(o, j)
      PROVE TypeOK'
  BY <1>23 DEF CommitTokenSpoiled, Finish
<1>24. ASSUME NEW o \in Op, CommitTake(o) PROVE TypeOK'
  BY <1>24, <1>0 DEF CommitTake, Take, OwnedEntry
<1>25. ASSUME NEW o \in Op, ExecFence(o) PROVE TypeOK'
  BY <1>25, SMTT(30) DEF ExecFence, write_record, DurableRecord, Request, Stage,
         Result
<1>26. ASSUME NEW o \in Op, RuntimeExec(o) PROVE TypeOK'
  BY <1>26, <1>0 DEF RuntimeExec
<1>27. ASSUME NEW o \in Op, RuntimeExecReturns(o) PROVE TypeOK'
  BY <1>27 DEF RuntimeExecReturns
<1>28. ASSUME NEW o \in Op, AcquireTake(o) PROVE TypeOK'
  BY <1>28, <1>0 DEF AcquireTake, Take, OwnedEntry
<1>29. ASSUME NEW o \in Op, AcquireMiss(o) PROVE TypeOK'
  BY <1>29 DEF AcquireMiss
<1>30. ASSUME NEW o \in Op, AcquireLoad(o) PROVE TypeOK'
  BY <1>30 DEF AcquireLoad
<1>31. ASSUME NEW o \in Op, AcquireWake(o) PROVE TypeOK'
  BY <1>31 DEF AcquireWake
<1>32. ASSUME NEW o \in Op, AcquireGiveUp(o) PROVE TypeOK'
  BY <1>32 DEF AcquireGiveUp, Finish
<1>33. ASSUME NEW o \in Op, DeleteForget(o) PROVE TypeOK'
  BY <1>33 DEF DeleteForget
<1>34. ASSUME NEW o \in Op, DeleteFence(o) PROVE TypeOK'
  BY <1>34, SMTT(30) DEF DeleteFence, write_record, DurableRecord, Request, Stage,
         Result
<1>35. ASSUME NEW o \in Op, DeadlineElapsed(o) PROVE TypeOK'
  BY <1>35 DEF DeadlineElapsed
<1>36. ASSUME NEW o \in Op, RuntimeDelete(o) PROVE TypeOK'
  BY <1>36 DEF RuntimeDelete, ProviderDelete, Lifecycle
<1>37. ASSUME NEW o \in Op, RuntimeWaitDeleted(o) PROVE TypeOK'
  BY <1>37 DEF RuntimeWaitDeleted, ProviderAbsent
<1>38. ASSUME NEW o \in Op, RuntimeWaitDeletedFails(o) PROVE TypeOK'
  BY <1>38 DEF RuntimeWaitDeletedFails, Lifecycle
<1>39. ASSUME NEW o \in Op, GoneRemove(o) PROVE TypeOK'
  BY <1>39, <1>0 DEF GoneRemove, Finish, remove_record
<1>40. ASSUME NEW o \in Op, GoneRemoveFails(o) PROVE TypeOK'
  BY <1>40 DEF GoneRemoveFails, remove_record
<1>41. ASSUME begin_drain PROVE TypeOK'
  BY <1>41 DEF begin_drain
<1>42. ASSUME Crash PROVE TypeOK'
  <2>1. crashes' \in Nat
    BY <1>42 DEF Crash
  <2>2. late' \in [Id -> {"none", "open", "seen"}]
    BY <1>42 DEF Crash
  <2> QED BY <1>42, <2>1, <2>2 DEF Crash, Vanish
<1>43. ASSUME Exit PROVE TypeOK'
  BY <1>43 DEF Exit, Vanish
<1>44. ASSUME Restart PROVE TypeOK'
  BY <1>44 DEF Restart, NoRecon, Reconciliation
<1>45. ASSUME NEW i \in Id, ReconcileUnowned(i) PROVE TypeOK'
  BY <1>45 DEF ReconcileUnowned, Reconciliation
<1>46. ASSUME NEW i \in Id, ReconcileDelete(i) PROVE TypeOK'
  BY <1>46 DEF ReconcileDelete, ProviderDelete, Reconciliation
<1>47. ASSUME ReconcileAbsent PROVE TypeOK'
  BY <1>47 DEF ReconcileAbsent, ProviderAbsent, Reconciliation
<1>48. ASSUME ReconcileUnresolved PROVE TypeOK'
  BY <1>48 DEF ReconcileUnresolved, Reconciliation, Shape
<1>49. ASSUME ReconcileRemove PROVE TypeOK'
  <2>1. recon' \in Reconciliation
    BY <1>49 DEF ReconcileRemove, Reconciliation
  <2>2. disk' \in [Id -> DurableRecord]
    BY <1>49 DEF ReconcileRemove, remove_record
  <2> QED BY <1>49, <2>1, <2>2 DEF ReconcileRemove
<1>50. ASSUME ReconcileRemoveFails PROVE TypeOK'
  BY <1>50 DEF ReconcileRemoveFails, remove_record
<1>51. ASSUME ReconcileDone PROVE TypeOK'
  BY <1>51 DEF ReconcileDone
<1>52. ASSUME NEW i \in Id, ProviderReap(i) PROVE TypeOK'
  BY <1>52 DEF ProviderReap
<1>54. ASSUME NEW i \in Id, ProviderLate(i) PROVE TypeOK'
  BY <1>54 DEF ProviderLate
<1>53. ASSUME UNCHANGED vars PROVE TypeOK'
  BY <1>53 DEF vars
<1> HIDE DEF TypeOK, memory, process, outside, history, Goto, Pc, CreatePc,
         HolderPc, AcquirePc, OtherPc
<1> QED BY [Next]_vars, <1>1, <1>2, <1>3, <1>4, <1>5, <1>6, <1>7, <1>8, <1>9,
         <1>10, <1>11, <1>12, <1>13, <1>14, <1>15, <1>16, <1>17, <1>18, <1>19,
         <1>20, <1>21, <1>22, <1>23, <1>24, <1>25, <1>26, <1>27, <1>28, <1>29,
         <1>30, <1>31, <1>32, <1>33, <1>34, <1>35, <1>36, <1>37, <1>38, <1>39,
         <1>40, <1>41, <1>42, <1>43, <1>44, <1>45, <1>46, <1>47, <1>48, <1>49,
         <1>50, <1>51, <1>52, <1>53, <1>54
       DEF Next, Submit, Step, Reconcile

\* Every step keeps what a handler has in hand consistent with where it is, and
\* Crash and Exit leave no handler behind.
LEMMA ShapeStep ==
    ASSUME TypeOK, Shape, [Next]_vars PROVE Shape'
<1> USE DEF TypeOK, Shape, memory, process, outside, history, Goto, Pc, CreatePc,
        HolderPc, AcquirePc, OtherPc, Request, Lifecycle, NoEntry, NoReq, NoRecon,
        Reconciliation, OwnedEntry
<1>1. ASSUME NEW o \in Op, NEW i \in Id, NEW c \in Caller,
             CreateAdmit(o, i, c)
      PROVE Shape'
  BY <1>1 DEF CreateAdmit, Begin, reject_new_work
<1>2. ASSUME NEW o \in Op, NEW i \in Id, NEW c \in Caller,
             WaitReadyTake(o, i, c)
      PROVE Shape'
  BY <1>2 DEF WaitReadyTake, Begin, OwnedBy
<1>3. ASSUME NEW o \in Op, NEW i \in Id, NEW c \in Caller,
             PrepareAdmit(o, i, c)
      PROVE Shape'
  BY <1>3 DEF PrepareAdmit, Begin, reject_new_work
<1>4. ASSUME NEW o \in Op, NEW i \in Id, NEW c \in Caller,
             CommitAdmit(o, i, c)
      PROVE Shape'
  BY <1>4 DEF CommitAdmit, Begin, reject_new_work
<1>5. ASSUME NEW o \in Op, NEW i \in Id, NEW c \in Caller,
             NEW k \in {"delete", "wait_deleted"}, CleanupBegin(o, k, i, c)
      PROVE Shape'
  BY <1>5 DEF CleanupBegin, Begin
<1>6. ASSUME NEW o \in Op, put_owned(o) PROVE Shape'
  BY <1>6 DEF put_owned
<1>7. ASSUME NEW o \in Op, CleanupWrite(o) PROVE Shape'
  BY <1>7 DEF CleanupWrite, write_record, Result
<1>8. ASSUME NEW o \in Op, Refuse(o) PROVE Shape'
  BY <1>8 DEF Refuse, Finish
<1>9. ASSUME NEW o \in Op, CreateClaim(o) PROVE Shape'
  BY <1>9 DEF CreateClaim
<1>10. ASSUME NEW o \in Op, CreateFence(o) PROVE Shape'
  BY <1>10 DEF CreateFence, write_record
<1>11. ASSUME NEW o \in Op, CreateFenceFails(o) PROVE Shape'
  BY <1>11 DEF CreateFenceFails, Finish, write_record
<1>12. ASSUME NEW o \in Op, RuntimeCreateOk(o) PROVE Shape'
  BY <1>12 DEF RuntimeCreateOk
<1>13. ASSUME NEW o \in Op, RuntimeCreatePossible(o) PROVE Shape'
  BY <1>13 DEF RuntimeCreatePossible
<1>14. ASSUME NEW o \in Op, RuntimeCreateNothing(o) PROVE Shape'
  BY <1>14 DEF RuntimeCreateNothing
<1>15. ASSUME NEW o \in Op, CreateRecord(o) PROVE Shape'
  BY <1>15 DEF CreateRecord, write_record, Result
<1>16. ASSUME NEW o \in Op, UnownWrite(o) PROVE Shape'
  BY <1>16 DEF UnownWrite, write_record, Result
<1>17. ASSUME NEW o \in Op, UnownRemove(o) PROVE Shape'
  BY <1>17 DEF UnownRemove, Finish, remove_record, Result
<1>18. ASSUME NEW o \in Op, RuntimeWaitReady(o) PROVE Shape'
  BY <1>18 DEF RuntimeWaitReady
<1>19. ASSUME NEW o \in Op, ReadyRecord(o) PROVE Shape'
  BY <1>19 DEF ReadyRecord, write_record, Result
<1>20. ASSUME NEW o \in Op, PrepareCheck(o) PROVE Shape'
  BY <1>20 DEF PrepareCheck
<1>21. ASSUME NEW o \in Op, PrepareInsert(o) PROVE Shape'
  BY <1>21 DEF PrepareInsert, Finish
<1>22. ASSUME NEW o \in Op, CommitToken(o) PROVE Shape'
  BY <1>22 DEF CommitToken
<1>23. ASSUME NEW o \in Op, NEW j \in Id, CommitTokenSpoiled(o, j)
      PROVE Shape'
  BY <1>23 DEF CommitTokenSpoiled, Finish
<1>24. ASSUME NEW o \in Op, CommitTake(o) PROVE Shape'
  BY <1>24 DEF CommitTake, Take, OwnedBy
<1>25. ASSUME NEW o \in Op, ExecFence(o) PROVE Shape'
  BY <1>25 DEF ExecFence, write_record, Result
<1>26. ASSUME NEW o \in Op, RuntimeExec(o) PROVE Shape'
  BY <1>26 DEF RuntimeExec
<1>27. ASSUME NEW o \in Op, RuntimeExecReturns(o) PROVE Shape'
  BY <1>27 DEF RuntimeExecReturns
<1>28. ASSUME NEW o \in Op, AcquireTake(o) PROVE Shape'
  BY <1>28 DEF AcquireTake, Take, OwnedBy
<1>29. ASSUME NEW o \in Op, AcquireMiss(o) PROVE Shape'
  BY <1>29 DEF AcquireMiss
<1>30. ASSUME NEW o \in Op, AcquireLoad(o) PROVE Shape'
  BY <1>30 DEF AcquireLoad
<1>31. ASSUME NEW o \in Op, AcquireWake(o) PROVE Shape'
  BY <1>31 DEF AcquireWake
<1>32. ASSUME NEW o \in Op, AcquireGiveUp(o) PROVE Shape'
  BY <1>32 DEF AcquireGiveUp, Finish
<1>33. ASSUME NEW o \in Op, DeleteForget(o) PROVE Shape'
  BY <1>33 DEF DeleteForget
<1>34. ASSUME NEW o \in Op, DeleteFence(o) PROVE Shape'
  BY <1>34 DEF DeleteFence, write_record, Result
<1>35. ASSUME NEW o \in Op, DeadlineElapsed(o) PROVE Shape'
  BY <1>35 DEF DeadlineElapsed
<1>36. ASSUME NEW o \in Op, RuntimeDelete(o) PROVE Shape'
  BY <1>36 DEF RuntimeDelete, ProviderDelete
<1>37. ASSUME NEW o \in Op, RuntimeWaitDeleted(o) PROVE Shape'
  BY <1>37 DEF RuntimeWaitDeleted, ProviderAbsent
<1>38. ASSUME NEW o \in Op, RuntimeWaitDeletedFails(o) PROVE Shape'
  BY <1>38 DEF RuntimeWaitDeletedFails
<1>39. ASSUME NEW o \in Op, GoneRemove(o) PROVE Shape'
  BY <1>39 DEF GoneRemove, Finish, remove_record
<1>40. ASSUME NEW o \in Op, GoneRemoveFails(o) PROVE Shape'
  BY <1>40 DEF GoneRemoveFails, remove_record
<1>41. ASSUME begin_drain PROVE Shape'
  BY <1>41 DEF begin_drain
<1>42. ASSUME Crash PROVE Shape'
  BY <1>42 DEF Crash, Vanish
<1>43. ASSUME Exit PROVE Shape'
  BY <1>43 DEF Exit, Vanish
<1>44. ASSUME Restart PROVE Shape'
  BY <1>44 DEF Restart
<1>45. ASSUME NEW i \in Id, ReconcileUnowned(i) PROVE Shape'
  BY <1>45 DEF ReconcileUnowned
<1>46. ASSUME NEW i \in Id, ReconcileDelete(i) PROVE Shape'
  BY <1>46 DEF ReconcileDelete, ProviderDelete
<1>47. ASSUME ReconcileAbsent PROVE Shape'
  BY <1>47 DEF ReconcileAbsent, ProviderAbsent
<1>48. ASSUME ReconcileUnresolved PROVE Shape'
  BY <1>48 DEF ReconcileUnresolved
<1>49. ASSUME ReconcileRemove PROVE Shape'
  BY <1>49 DEF ReconcileRemove, remove_record
<1>50. ASSUME ReconcileRemoveFails PROVE Shape'
  BY <1>50 DEF ReconcileRemoveFails, remove_record
<1>51. ASSUME ReconcileDone PROVE Shape'
  BY <1>51 DEF ReconcileDone
<1>52. ASSUME NEW i \in Id, ProviderReap(i) PROVE Shape'
  BY <1>52 DEF ProviderReap
<1>54. ASSUME NEW i \in Id, ProviderLate(i) PROVE Shape'
  BY <1>54 DEF ProviderLate
<1>53. ASSUME UNCHANGED vars PROVE Shape'
  BY <1>53 DEF vars
<1> HIDE DEF TypeOK, Shape, memory, process, outside, history, Goto, Pc,
         CreatePc, HolderPc, AcquirePc, OtherPc, Request, Lifecycle, NoEntry,
         NoReq, NoRecon, Reconciliation, OwnedEntry
<1> QED BY [Next]_vars, <1>1, <1>2, <1>3, <1>4, <1>5, <1>6, <1>7, <1>8, <1>9,
         <1>10, <1>11, <1>12, <1>13, <1>14, <1>15, <1>16, <1>17, <1>18, <1>19,
         <1>20, <1>21, <1>22, <1>23, <1>24, <1>25, <1>26, <1>27, <1>28, <1>29,
         <1>30, <1>31, <1>32, <1>33, <1>34, <1>35, <1>36, <1>37, <1>38, <1>39,
         <1>40, <1>41, <1>42, <1>43, <1>44, <1>45, <1>46, <1>47, <1>48, <1>49,
         <1>50, <1>51, <1>52, <1>53, <1>54
       DEF Next, Submit, Step, Reconcile

-----------------------------------------------------------------------------
\* The entry of an identifier stays in one place, a Create request finds its
\* identifier untouched, and only a CleanupOnly entry outlives its sandbox.
LEMMA OwnershipStep ==
    ASSUME MaxCreates = 1, TypeOK, Shape, Ownership, [Next]_vars
    PROVE Ownership'
<1> USE DEF TypeOK, Shape, memory, process, outside, history, Goto, Pc, CreatePc,
        HolderPc, AcquirePc, OtherPc, Request, Lifecycle, NoEntry, NoReq, NoRecord,
        Ownership, OneClaim, Fresh, Alive, Exists, Untouched, Claims
<1>1. ASSUME NEW o \in Op, NEW i \in Id, NEW c \in Caller,
             CreateAdmit(o, i, c)
      PROVE Ownership'
  BY <1>1 DEF CreateAdmit, Begin, reject_new_work
<1>2. ASSUME NEW o \in Op, NEW i \in Id, NEW c \in Caller,
             WaitReadyTake(o, i, c)
      PROVE Ownership'
  BY <1>2 DEF WaitReadyTake, Begin, OwnedBy
<1>3. ASSUME NEW o \in Op, NEW i \in Id, NEW c \in Caller,
             PrepareAdmit(o, i, c)
      PROVE Ownership'
  BY <1>3 DEF PrepareAdmit, Begin, reject_new_work
<1>4. ASSUME NEW o \in Op, NEW i \in Id, NEW c \in Caller,
             CommitAdmit(o, i, c)
      PROVE Ownership'
  BY <1>4 DEF CommitAdmit, Begin, reject_new_work
<1>5. ASSUME NEW o \in Op, NEW i \in Id, NEW c \in Caller,
             NEW k \in {"delete", "wait_deleted"}, CleanupBegin(o, k, i, c)
      PROVE Ownership'
  BY <1>5 DEF CleanupBegin, Begin
<1>6. ASSUME NEW o \in Op, put_owned(o) PROVE Ownership'
  BY <1>6 DEF put_owned
<1>7. ASSUME NEW o \in Op, CleanupWrite(o) PROVE Ownership'
  BY <1>7 DEF CleanupWrite, write_record, Result
<1>8. ASSUME NEW o \in Op, Refuse(o) PROVE Ownership'
  BY <1>8 DEF Refuse, Finish
<1>9. ASSUME NEW o \in Op, CreateClaim(o) PROVE Ownership'
  BY <1>9 DEF CreateClaim
<1>10. ASSUME NEW o \in Op, CreateFence(o) PROVE Ownership'
  BY <1>10 DEF CreateFence, write_record
<1>11. ASSUME NEW o \in Op, CreateFenceFails(o) PROVE Ownership'
  BY <1>11 DEF CreateFenceFails, Finish, write_record
<1>12. ASSUME NEW o \in Op, RuntimeCreateOk(o) PROVE Ownership'
  BY <1>12 DEF RuntimeCreateOk
<1>13. ASSUME NEW o \in Op, RuntimeCreatePossible(o) PROVE Ownership'
  BY <1>13 DEF RuntimeCreatePossible
<1>14. ASSUME NEW o \in Op, RuntimeCreateNothing(o) PROVE Ownership'
  BY <1>14 DEF RuntimeCreateNothing
<1>15. ASSUME NEW o \in Op, CreateRecord(o) PROVE Ownership'
  BY <1>15 DEF CreateRecord, write_record, Result
<1>16. ASSUME NEW o \in Op, UnownWrite(o) PROVE Ownership'
  BY <1>16 DEF UnownWrite, write_record, Result
<1>17. ASSUME NEW o \in Op, UnownRemove(o) PROVE Ownership'
  BY <1>17 DEF UnownRemove, Finish, remove_record, Result
<1>18. ASSUME NEW o \in Op, RuntimeWaitReady(o) PROVE Ownership'
  BY <1>18 DEF RuntimeWaitReady
<1>19. ASSUME NEW o \in Op, ReadyRecord(o) PROVE Ownership'
  BY <1>19 DEF ReadyRecord, write_record, Result
<1>20. ASSUME NEW o \in Op, PrepareCheck(o) PROVE Ownership'
  BY <1>20 DEF PrepareCheck
<1>21. ASSUME NEW o \in Op, PrepareInsert(o) PROVE Ownership'
  BY <1>21 DEF PrepareInsert, Finish
<1>22. ASSUME NEW o \in Op, CommitToken(o) PROVE Ownership'
  BY <1>22 DEF CommitToken
<1>23. ASSUME NEW o \in Op, NEW j \in Id, CommitTokenSpoiled(o, j)
      PROVE Ownership'
  BY <1>23 DEF CommitTokenSpoiled, Finish
<1>24. ASSUME NEW o \in Op, CommitTake(o) PROVE Ownership'
  BY <1>24 DEF CommitTake, Take, OwnedBy
<1>25. ASSUME NEW o \in Op, ExecFence(o) PROVE Ownership'
  BY <1>25 DEF ExecFence, write_record, Result
<1>26. ASSUME NEW o \in Op, RuntimeExec(o) PROVE Ownership'
  BY <1>26 DEF RuntimeExec
<1>27. ASSUME NEW o \in Op, RuntimeExecReturns(o) PROVE Ownership'
  BY <1>27 DEF RuntimeExecReturns
<1>28. ASSUME NEW o \in Op, AcquireTake(o) PROVE Ownership'
  BY <1>28 DEF AcquireTake, Take, OwnedBy
<1>29. ASSUME NEW o \in Op, AcquireMiss(o) PROVE Ownership'
  BY <1>29 DEF AcquireMiss
<1>30. ASSUME NEW o \in Op, AcquireLoad(o) PROVE Ownership'
  BY <1>30 DEF AcquireLoad
<1>31. ASSUME NEW o \in Op, AcquireWake(o) PROVE Ownership'
  BY <1>31 DEF AcquireWake
<1>32. ASSUME NEW o \in Op, AcquireGiveUp(o) PROVE Ownership'
  BY <1>32 DEF AcquireGiveUp, Finish
<1>33. ASSUME NEW o \in Op, DeleteForget(o) PROVE Ownership'
  BY <1>33 DEF DeleteForget
<1>34. ASSUME NEW o \in Op, DeleteFence(o) PROVE Ownership'
  BY <1>34 DEF DeleteFence, write_record, Result
<1>35. ASSUME NEW o \in Op, DeadlineElapsed(o) PROVE Ownership'
  BY <1>35 DEF DeadlineElapsed
<1>36. ASSUME NEW o \in Op, RuntimeDelete(o) PROVE Ownership'
  <2>1. \A i \in Id : i # req[o].id => box'[i] = box[i]
    BY <1>36 DEF RuntimeDelete, ProviderDelete
  <2>2. \A p \in Op : p # o /\ pc[p] \in CreatePc \cup HolderPc => req[p].id # req[o].id
    BY <1>36 DEF RuntimeDelete
  <2>3. owned[req[o].id].life = "none" /\ creates[req[o].id] # 0
    BY <1>36 DEF RuntimeDelete
  <2>4. OneClaim'
    BY <1>36 DEF RuntimeDelete
  <2>5. Fresh'
    BY <1>36, <2>1, <2>2, <2>3 DEF RuntimeDelete
  <2>6. Alive'
    <3>1. pc'[o] = "put" /\ held'[o] = "CleanupOnly" /\ UNCHANGED <<req, late, owned>>
      BY <1>36 DEF RuntimeDelete
    <3>2. \A p \in Op : p # o => pc'[p] = pc[p] /\ held'[p] = held[p]
      BY <1>36 DEF RuntimeDelete
    <3>3. \A i \in Id : owned'[i].life \in {"Created", "Ready"} => box'[i] \in {"live", "stray"}
      BY <2>1, <2>3, <3>1
    <3>4. ASSUME NEW p \in Op, p # o
          PROVE  /\ (pc'[p] \in HolderPc \ {"cleanup_write"}
                        /\ held'[p] \in {"Created", "Ready"}) =>
                       box'[req'[p].id] \in {"live", "stray"}
                 /\ pc'[p] = "create_record" => box'[req'[p].id] = "live"
                 /\ pc'[p] = "gone_remove" => ~Exists(req[p].id)'
      <4>1. CASE pc[p] \in CreatePc \cup HolderPc
        <5>1. box'[req[p].id] = box[req[p].id] /\ late' = late /\ req' = req
          BY <2>1, <2>2, <3>1, <3>4, <4>1
        <5> QED BY <3>2, <3>4, <5>1
      <4>2. CASE pc[p] \notin CreatePc \cup HolderPc
        BY <3>2, <3>4, <4>2
      <4> QED BY <4>1, <4>2
    <3> QED BY <3>1, <3>3, <3>4
  <2> QED BY <2>4, <2>5, <2>6
<1>37. ASSUME NEW o \in Op, RuntimeWaitDeleted(o) PROVE Ownership'
  BY <1>37 DEF RuntimeWaitDeleted, ProviderAbsent
<1>38. ASSUME NEW o \in Op, RuntimeWaitDeletedFails(o) PROVE Ownership'
  BY <1>38 DEF RuntimeWaitDeletedFails
<1>39. ASSUME NEW o \in Op, GoneRemove(o) PROVE Ownership'
  BY <1>39 DEF GoneRemove, Finish, remove_record
<1>40. ASSUME NEW o \in Op, GoneRemoveFails(o) PROVE Ownership'
  BY <1>40 DEF GoneRemoveFails, remove_record
<1>41. ASSUME begin_drain PROVE Ownership'
  BY <1>41 DEF begin_drain
<1>42. ASSUME Crash PROVE Ownership'
  BY <1>42 DEF Crash, Vanish
<1>43. ASSUME Exit PROVE Ownership'
  BY <1>43 DEF Exit, Vanish
<1>44. ASSUME Restart PROVE Ownership'
  BY <1>44 DEF Restart
<1>45. ASSUME NEW i \in Id, ReconcileUnowned(i) PROVE Ownership'
  BY <1>45 DEF ReconcileUnowned
<1>46. ASSUME NEW i \in Id, ReconcileDelete(i) PROVE Ownership'
  BY <1>46 DEF ReconcileDelete, ProviderDelete
<1>47. ASSUME ReconcileAbsent PROVE Ownership'
  BY <1>47 DEF ReconcileAbsent, ProviderAbsent
<1>48. ASSUME ReconcileUnresolved PROVE Ownership'
  BY <1>48 DEF ReconcileUnresolved
<1>49. ASSUME ReconcileRemove PROVE Ownership'
  BY <1>49 DEF ReconcileRemove, remove_record
<1>50. ASSUME ReconcileRemoveFails PROVE Ownership'
  BY <1>50 DEF ReconcileRemoveFails, remove_record
<1>51. ASSUME ReconcileDone PROVE Ownership'
  BY <1>51 DEF ReconcileDone
<1>52. ASSUME NEW i \in Id, ProviderReap(i) PROVE Ownership'
  BY <1>52 DEF ProviderReap
<1>54. ASSUME NEW i \in Id, ProviderLate(i) PROVE Ownership'
  BY <1>54 DEF ProviderLate
<1>53. ASSUME UNCHANGED vars PROVE Ownership'
  BY <1>53 DEF vars
<1> HIDE DEF TypeOK, Shape, memory, process, outside, history, Goto, Pc,
         CreatePc, HolderPc, AcquirePc, OtherPc, Request, Lifecycle, NoEntry,
         NoReq, NoRecord, Ownership, OneClaim, Fresh, Alive, Exists, Untouched, Claims
<1> QED BY [Next]_vars, <1>1, <1>2, <1>3, <1>4, <1>5, <1>6, <1>7, <1>8, <1>9,
         <1>10, <1>11, <1>12, <1>13, <1>14, <1>15, <1>16, <1>17, <1>18, <1>19,
         <1>20, <1>21, <1>22, <1>23, <1>24, <1>25, <1>26, <1>27, <1>28, <1>29,
         <1>30, <1>31, <1>32, <1>33, <1>34, <1>35, <1>36, <1>37, <1>38, <1>39,
         <1>40, <1>41, <1>42, <1>43, <1>44, <1>45, <1>46, <1>47, <1>48, <1>49,
         <1>50, <1>51, <1>52, <1>53, <1>54
       DEF Next, Submit, Step, Reconcile

\* One command at most, behind its fence and for the caller of the record; a
\* released identifier stays absent.
LEMMA ExecutionStep ==
    ASSUME MaxCreates = 1, TypeOK, Shape, Ownership, Execution, [Next]_vars
    PROVE Execution'
<1> USE DEF TypeOK, Shape, memory, process, outside, history, Goto, Pc, CreatePc,
        HolderPc, AcquirePc, OtherPc, Request, Lifecycle, NoEntry, NoReq, NoRecord,
        Ownership, OneClaim, Fresh, Alive, Exists, Untouched, Claims, Execution, Spent,
        Fenced, Belongs, RecordKeepsCaller, Gone
<1>1. ASSUME NEW o \in Op, NEW i \in Id, NEW c \in Caller,
             CreateAdmit(o, i, c)
      PROVE Execution'
  BY <1>1 DEF CreateAdmit, Begin, reject_new_work
<1>2. ASSUME NEW o \in Op, NEW i \in Id, NEW c \in Caller,
             WaitReadyTake(o, i, c)
      PROVE Execution'
  BY <1>2 DEF WaitReadyTake, Begin, OwnedBy
<1>3. ASSUME NEW o \in Op, NEW i \in Id, NEW c \in Caller,
             PrepareAdmit(o, i, c)
      PROVE Execution'
  BY <1>3 DEF PrepareAdmit, Begin, reject_new_work
<1>4. ASSUME NEW o \in Op, NEW i \in Id, NEW c \in Caller,
             CommitAdmit(o, i, c)
      PROVE Execution'
  BY <1>4 DEF CommitAdmit, Begin, reject_new_work
<1>5. ASSUME NEW o \in Op, NEW i \in Id, NEW c \in Caller,
             NEW k \in {"delete", "wait_deleted"}, CleanupBegin(o, k, i, c)
      PROVE Execution'
  BY <1>5 DEF CleanupBegin, Begin
<1>6. ASSUME NEW o \in Op, put_owned(o) PROVE Execution'
  BY <1>6 DEF put_owned
<1>7. ASSUME NEW o \in Op, CleanupWrite(o) PROVE Execution'
  BY <1>7 DEF CleanupWrite, write_record, Result
<1>8. ASSUME NEW o \in Op, Refuse(o) PROVE Execution'
  <2>1. Spent'
    BY <1>8, SMTT(30) DEF Refuse, Finish
  <2>2. Fenced'
    BY <1>8 DEF Refuse, Finish
  <2>3. Belongs'
    BY <1>8, SMTT(30) DEF Refuse, Finish
  <2>4. Gone'
    BY <1>8, SMTT(30) DEF Refuse, Finish
  <2> QED BY <2>1, <2>2, <2>3, <2>4
<1>9. ASSUME NEW o \in Op, CreateClaim(o) PROVE Execution'
  BY <1>9 DEF CreateClaim
<1>10. ASSUME NEW o \in Op, CreateFence(o) PROVE Execution'
  BY <1>10 DEF CreateFence, write_record
<1>11. ASSUME NEW o \in Op, CreateFenceFails(o) PROVE Execution'
  BY <1>11 DEF CreateFenceFails, Finish, write_record
<1>12. ASSUME NEW o \in Op, RuntimeCreateOk(o) PROVE Execution'
  BY <1>12 DEF RuntimeCreateOk
<1>13. ASSUME NEW o \in Op, RuntimeCreatePossible(o) PROVE Execution'
  BY <1>13 DEF RuntimeCreatePossible
<1>14. ASSUME NEW o \in Op, RuntimeCreateNothing(o) PROVE Execution'
  BY <1>14 DEF RuntimeCreateNothing
<1>15. ASSUME NEW o \in Op, CreateRecord(o) PROVE Execution'
  BY <1>15 DEF CreateRecord, write_record, Result
<1>16. ASSUME NEW o \in Op, UnownWrite(o) PROVE Execution'
  <2>1. Spent'
    BY <1>16 DEF UnownWrite
  <2>2. Fenced'
    BY <1>16 DEF UnownWrite, write_record
  <2>3. Belongs'
    BY <1>16 DEF UnownWrite, write_record
  <2>4. Gone'
    BY <1>16 DEF UnownWrite
  <2> QED BY <2>1, <2>2, <2>3, <2>4
<1>17. ASSUME NEW o \in Op, UnownRemove(o) PROVE Execution'
  BY <1>17 DEF UnownRemove, Finish, remove_record, Result
<1>18. ASSUME NEW o \in Op, RuntimeWaitReady(o) PROVE Execution'
  BY <1>18 DEF RuntimeWaitReady
<1>19. ASSUME NEW o \in Op, ReadyRecord(o) PROVE Execution'
  BY <1>19 DEF ReadyRecord, write_record, Result
<1>20. ASSUME NEW o \in Op, PrepareCheck(o) PROVE Execution'
  BY <1>20 DEF PrepareCheck
<1>21. ASSUME NEW o \in Op, PrepareInsert(o) PROVE Execution'
  BY <1>21 DEF PrepareInsert, Finish
<1>22. ASSUME NEW o \in Op, CommitToken(o) PROVE Execution'
  BY <1>22 DEF CommitToken
<1>23. ASSUME NEW o \in Op, NEW j \in Id, CommitTokenSpoiled(o, j)
      PROVE Execution'
  BY <1>23 DEF CommitTokenSpoiled, Finish
<1>24. ASSUME NEW o \in Op, CommitTake(o) PROVE Execution'
  BY <1>24 DEF CommitTake, Take, OwnedBy
<1>25. ASSUME NEW o \in Op, ExecFence(o) PROVE Execution'
  BY <1>25 DEF ExecFence, write_record, Result
<1>26. ASSUME NEW o \in Op, RuntimeExec(o) PROVE Execution'
  <2>1. /\ req[o].id \in Id
        /\ execs[req[o].id] = 0
        /\ \A p \in Op : Claims(p, req[o].id) => p = o
    <3>1. pc[o] = "exec_call" /\ held[o] = "Ready" /\ req[o].id \in Id
      BY <1>26 DEF RuntimeExec
    <3>2. Claims(o, req[o].id)
      BY <3>1
    <3>3. execs[req[o].id] # 1 /\ execs[req[o].id] <= 1 /\ execs[req[o].id] \in Nat
      BY <3>1, <3>2, SMTT(30)
    <3>4. \A n \in Nat : n # 1 /\ n <= 1 => n = 0
      OBVIOUS
    <3>5. \A p \in Op : Claims(p, req[o].id) => p = o
      BY <3>1, <3>2
    <3> QED BY <3>1, <3>3, <3>4, <3>5, ZenonT(30)
  <2>2. execs' = [execs EXCEPT ![req[o].id] = 1]
    BY <1>26, <2>1 DEF RuntimeExec
  <2>3. Spent'
    BY <1>26, <2>1, <2>2 DEF RuntimeExec
  <2>4. Fenced'
    BY <1>26 DEF RuntimeExec
  <2>5. Belongs'
    BY <1>26 DEF RuntimeExec
  <2>6. Gone'
    BY <1>26 DEF RuntimeExec
  <2> QED BY <2>3, <2>4, <2>5, <2>6
<1>27. ASSUME NEW o \in Op, RuntimeExecReturns(o) PROVE Execution'
  BY <1>27 DEF RuntimeExecReturns
<1>28. ASSUME NEW o \in Op, AcquireTake(o) PROVE Execution'
  BY <1>28, SMTT(30) DEF AcquireTake, Take, OwnedBy
<1>29. ASSUME NEW o \in Op, AcquireMiss(o) PROVE Execution'
  BY <1>29 DEF AcquireMiss
<1>30. ASSUME NEW o \in Op, AcquireLoad(o) PROVE Execution'
  BY <1>30 DEF AcquireLoad
<1>31. ASSUME NEW o \in Op, AcquireWake(o) PROVE Execution'
  BY <1>31 DEF AcquireWake
<1>32. ASSUME NEW o \in Op, AcquireGiveUp(o) PROVE Execution'
  BY <1>32 DEF AcquireGiveUp, Finish
<1>33. ASSUME NEW o \in Op, DeleteForget(o) PROVE Execution'
  BY <1>33 DEF DeleteForget
<1>34. ASSUME NEW o \in Op, DeleteFence(o) PROVE Execution'
  BY <1>34 DEF DeleteFence, write_record, Result
<1>35. ASSUME NEW o \in Op, DeadlineElapsed(o) PROVE Execution'
  BY <1>35 DEF DeadlineElapsed
<1>36. ASSUME NEW o \in Op, RuntimeDelete(o) PROVE Execution'
  BY <1>36 DEF RuntimeDelete, ProviderDelete
<1>37. ASSUME NEW o \in Op, RuntimeWaitDeleted(o) PROVE Execution'
  BY <1>37 DEF RuntimeWaitDeleted, ProviderAbsent
<1>38. ASSUME NEW o \in Op, RuntimeWaitDeletedFails(o) PROVE Execution'
  BY <1>38 DEF RuntimeWaitDeletedFails
<1>39. ASSUME NEW o \in Op, GoneRemove(o) PROVE Execution'
  BY <1>39 DEF GoneRemove, Finish, remove_record
<1>40. ASSUME NEW o \in Op, GoneRemoveFails(o) PROVE Execution'
  BY <1>40 DEF GoneRemoveFails, remove_record
<1>41. ASSUME begin_drain PROVE Execution'
  BY <1>41 DEF begin_drain
<1>42. ASSUME Crash PROVE Execution'
  BY <1>42 DEF Crash, Vanish
<1>43. ASSUME Exit PROVE Execution'
  BY <1>43 DEF Exit, Vanish
<1>44. ASSUME Restart PROVE Execution'
  BY <1>44 DEF Restart
<1>45. ASSUME NEW i \in Id, ReconcileUnowned(i) PROVE Execution'
  BY <1>45 DEF ReconcileUnowned
<1>46. ASSUME NEW i \in Id, ReconcileDelete(i) PROVE Execution'
  BY <1>46 DEF ReconcileDelete, ProviderDelete
<1>47. ASSUME ReconcileAbsent PROVE Execution'
  BY <1>47 DEF ReconcileAbsent, ProviderAbsent
<1>48. ASSUME ReconcileUnresolved PROVE Execution'
  BY <1>48 DEF ReconcileUnresolved
<1>49. ASSUME ReconcileRemove PROVE Execution'
  BY <1>49 DEF ReconcileRemove, remove_record
<1>50. ASSUME ReconcileRemoveFails PROVE Execution'
  BY <1>50 DEF ReconcileRemoveFails, remove_record
<1>51. ASSUME ReconcileDone PROVE Execution'
  BY <1>51 DEF ReconcileDone
<1>52. ASSUME NEW i \in Id, ProviderReap(i) PROVE Execution'
  BY <1>52 DEF ProviderReap
<1>54. ASSUME NEW i \in Id, ProviderLate(i) PROVE Execution'
  BY <1>54 DEF ProviderLate
<1>53. ASSUME UNCHANGED vars PROVE Execution'
  BY <1>53 DEF vars
<1> HIDE DEF TypeOK, Shape, memory, process, outside, history, Goto, Pc,
         CreatePc, HolderPc, AcquirePc, OtherPc, Request, Lifecycle, NoEntry,
         NoReq, NoRecord, Ownership, OneClaim, Fresh, Alive, Exists, Untouched,
         Claims, Execution, Spent, Fenced, Belongs, RecordKeepsCaller, Gone
<1> QED BY [Next]_vars, <1>1, <1>2, <1>3, <1>4, <1>5, <1>6, <1>7, <1>8, <1>9,
         <1>10, <1>11, <1>12, <1>13, <1>14, <1>15, <1>16, <1>17, <1>18, <1>19,
         <1>20, <1>21, <1>22, <1>23, <1>24, <1>25, <1>26, <1>27, <1>28, <1>29,
         <1>30, <1>31, <1>32, <1>33, <1>34, <1>35, <1>36, <1>37, <1>38, <1>39,
         <1>40, <1>41, <1>42, <1>43, <1>44, <1>45, <1>46, <1>47, <1>48, <1>49,
         <1>50, <1>51, <1>52, <1>53, <1>54
       DEF Next, Submit, Step, Reconcile

\* A sandbox of somebody else's is at most removed.
LEMMA StrangersStep ==
    ASSUME MaxCreates = 1, TypeOK, Shape, Ownership, Strangers, [Next]_vars
    PROVE Strangers'
<1> USE BoundaryAssumption DEF TypeOK, Shape, memory, process, outside, history, Goto, Pc,
        CreatePc, HolderPc, AcquirePc, OtherPc, Request, Lifecycle, Reconciliation, NoEntry,
        NoReq, NoRecord, NoRecon, Ownership, OneClaim, Fresh, Untouched, Claims, Strangers
<1>1. ASSUME NEW o \in Op, NEW i \in Id, NEW c \in Caller,
             CreateAdmit(o, i, c)
      PROVE Strangers'
  BY <1>1 DEF CreateAdmit, Begin, reject_new_work
<1>2. ASSUME NEW o \in Op, NEW i \in Id, NEW c \in Caller,
             WaitReadyTake(o, i, c)
      PROVE Strangers'
  BY <1>2 DEF WaitReadyTake, Begin, OwnedBy
<1>3. ASSUME NEW o \in Op, NEW i \in Id, NEW c \in Caller,
             PrepareAdmit(o, i, c)
      PROVE Strangers'
  BY <1>3 DEF PrepareAdmit, Begin, reject_new_work
<1>4. ASSUME NEW o \in Op, NEW i \in Id, NEW c \in Caller,
             CommitAdmit(o, i, c)
      PROVE Strangers'
  BY <1>4 DEF CommitAdmit, Begin, reject_new_work
<1>5. ASSUME NEW o \in Op, NEW i \in Id, NEW c \in Caller,
             NEW k \in {"delete", "wait_deleted"}, CleanupBegin(o, k, i, c)
      PROVE Strangers'
  BY <1>5 DEF CleanupBegin, Begin
<1>6. ASSUME NEW o \in Op, put_owned(o) PROVE Strangers'
  BY <1>6 DEF put_owned
<1>7. ASSUME NEW o \in Op, CleanupWrite(o) PROVE Strangers'
  BY <1>7 DEF CleanupWrite
<1>8. ASSUME NEW o \in Op, Refuse(o) PROVE Strangers'
  BY <1>8 DEF Refuse, Finish
<1>9. ASSUME NEW o \in Op, CreateClaim(o) PROVE Strangers'
  BY <1>9 DEF CreateClaim
<1>10. ASSUME NEW o \in Op, CreateFence(o) PROVE Strangers'
  BY <1>10 DEF CreateFence
<1>11. ASSUME NEW o \in Op, CreateFenceFails(o) PROVE Strangers'
  BY <1>11 DEF CreateFenceFails, Finish
<1>12. ASSUME NEW o \in Op, RuntimeCreateOk(o) PROVE Strangers'
  BY <1>12 DEF RuntimeCreateOk
<1>13. ASSUME NEW o \in Op, RuntimeCreatePossible(o) PROVE Strangers'
  BY <1>13 DEF RuntimeCreatePossible
<1>14. ASSUME NEW o \in Op, RuntimeCreateNothing(o) PROVE Strangers'
  BY <1>14 DEF RuntimeCreateNothing
<1>15. ASSUME NEW o \in Op, CreateRecord(o) PROVE Strangers'
  BY <1>15 DEF CreateRecord
<1>16. ASSUME NEW o \in Op, UnownWrite(o) PROVE Strangers'
  BY <1>16 DEF UnownWrite
<1>17. ASSUME NEW o \in Op, UnownRemove(o) PROVE Strangers'
  BY <1>17 DEF UnownRemove, Finish
<1>18. ASSUME NEW o \in Op, RuntimeWaitReady(o) PROVE Strangers'
  BY <1>18 DEF RuntimeWaitReady
<1>19. ASSUME NEW o \in Op, ReadyRecord(o) PROVE Strangers'
  BY <1>19 DEF ReadyRecord
<1>20. ASSUME NEW o \in Op, PrepareCheck(o) PROVE Strangers'
  BY <1>20 DEF PrepareCheck
<1>21. ASSUME NEW o \in Op, PrepareInsert(o) PROVE Strangers'
  BY <1>21 DEF PrepareInsert, Finish
<1>22. ASSUME NEW o \in Op, CommitToken(o) PROVE Strangers'
  BY <1>22 DEF CommitToken
<1>23. ASSUME NEW o \in Op, NEW j \in Id, CommitTokenSpoiled(o, j)
      PROVE Strangers'
  BY <1>23 DEF CommitTokenSpoiled, Finish
<1>24. ASSUME NEW o \in Op, CommitTake(o) PROVE Strangers'
  BY <1>24 DEF CommitTake, Take, OwnedBy
<1>25. ASSUME NEW o \in Op, ExecFence(o) PROVE Strangers'
  BY <1>25 DEF ExecFence
<1>26. ASSUME NEW o \in Op, RuntimeExec(o) PROVE Strangers'
  BY <1>26 DEF RuntimeExec
<1>27. ASSUME NEW o \in Op, RuntimeExecReturns(o) PROVE Strangers'
  BY <1>27 DEF RuntimeExecReturns
<1>28. ASSUME NEW o \in Op, AcquireTake(o) PROVE Strangers'
  BY <1>28 DEF AcquireTake, Take, OwnedBy
<1>29. ASSUME NEW o \in Op, AcquireMiss(o) PROVE Strangers'
  BY <1>29 DEF AcquireMiss
<1>30. ASSUME NEW o \in Op, AcquireLoad(o) PROVE Strangers'
  BY <1>30 DEF AcquireLoad
<1>31. ASSUME NEW o \in Op, AcquireWake(o) PROVE Strangers'
  BY <1>31 DEF AcquireWake
<1>32. ASSUME NEW o \in Op, AcquireGiveUp(o) PROVE Strangers'
  BY <1>32 DEF AcquireGiveUp, Finish
<1>33. ASSUME NEW o \in Op, DeleteForget(o) PROVE Strangers'
  BY <1>33 DEF DeleteForget
<1>34. ASSUME NEW o \in Op, DeleteFence(o) PROVE Strangers'
  BY <1>34 DEF DeleteFence
<1>35. ASSUME NEW o \in Op, DeadlineElapsed(o) PROVE Strangers'
  BY <1>35 DEF DeadlineElapsed
<1>36. ASSUME NEW o \in Op, RuntimeDelete(o) PROVE Strangers'
  BY <1>36 DEF RuntimeDelete, ProviderDelete
<1>37. ASSUME NEW o \in Op, RuntimeWaitDeleted(o) PROVE Strangers'
  BY <1>37 DEF RuntimeWaitDeleted, ProviderAbsent
<1>38. ASSUME NEW o \in Op, RuntimeWaitDeletedFails(o) PROVE Strangers'
  BY <1>38 DEF RuntimeWaitDeletedFails
<1>39. ASSUME NEW o \in Op, GoneRemove(o) PROVE Strangers'
  BY <1>39 DEF GoneRemove, Finish
<1>40. ASSUME NEW o \in Op, GoneRemoveFails(o) PROVE Strangers'
  BY <1>40 DEF GoneRemoveFails
<1>41. ASSUME begin_drain PROVE Strangers'
  BY <1>41 DEF begin_drain
<1>42. ASSUME Crash PROVE Strangers'
  BY <1>42 DEF Crash, Vanish
<1>43. ASSUME Exit PROVE Strangers'
  BY <1>43 DEF Exit, Vanish
<1>44. ASSUME Restart PROVE Strangers'
  BY <1>44 DEF Restart
<1>45. ASSUME NEW i \in Id, ReconcileUnowned(i) PROVE Strangers'
  BY <1>45 DEF ReconcileUnowned
<1>46. ASSUME NEW i \in Id, ReconcileDelete(i) PROVE Strangers'
  BY <1>46 DEF ReconcileDelete, ProviderDelete
<1>47. ASSUME ReconcileAbsent PROVE Strangers'
  BY <1>47 DEF ReconcileAbsent, ProviderAbsent
<1>48. ASSUME ReconcileUnresolved PROVE Strangers'
  BY <1>48 DEF ReconcileUnresolved
<1>49. ASSUME ReconcileRemove PROVE Strangers'
  BY <1>49 DEF ReconcileRemove
<1>50. ASSUME ReconcileRemoveFails PROVE Strangers'
  BY <1>50 DEF ReconcileRemoveFails
<1>51. ASSUME ReconcileDone PROVE Strangers'
  BY <1>51 DEF ReconcileDone
<1>52. ASSUME NEW i \in Id, ProviderReap(i) PROVE Strangers'
  BY <1>52 DEF ProviderReap
<1>54. ASSUME NEW i \in Id, ProviderLate(i) PROVE Strangers'
  BY <1>54 DEF ProviderLate
<1>53. ASSUME UNCHANGED vars PROVE Strangers'
  BY <1>53 DEF vars
<1> HIDE DEF TypeOK, Shape, memory, process, outside, history, Goto, Pc,
         CreatePc, HolderPc, AcquirePc, OtherPc, Request, Lifecycle, Reconciliation,
         NoEntry, NoReq, NoRecord, NoRecon, Ownership, OneClaim, Fresh, Untouched,
         Claims, Strangers
<1> QED BY [Next]_vars, <1>1, <1>2, <1>3, <1>4, <1>5, <1>6, <1>7, <1>8, <1>9,
         <1>10, <1>11, <1>12, <1>13, <1>14, <1>15, <1>16, <1>17, <1>18, <1>19,
         <1>20, <1>21, <1>22, <1>23, <1>24, <1>25, <1>26, <1>27, <1>28, <1>29,
         <1>30, <1>31, <1>32, <1>33, <1>34, <1>35, <1>36, <1>37, <1>38, <1>39,
         <1>40, <1>41, <1>42, <1>43, <1>44, <1>45, <1>46, <1>47, <1>48, <1>49,
         <1>50, <1>51, <1>52, <1>53, <1>54
       DEF Next, Submit, Step, Reconcile

-----------------------------------------------------------------------------
\* A write of any stage but Unowned keeps what is recorded recorded, even if it
\* reports a failure.
LEMMA WriteRecorded ==
    ASSUME TypeOK, NEW j \in Id, NEW c, NEW s \in Stage \ {"Unowned"}, NEW res,
           write_record(j, c, s, res)
    PROVE  \A i \in Id : Recorded(i) => Recorded(i)'
BY DEF TypeOK, write_record, Recorded, Stage, DurableRecord

\* While the service serves, a step that exposes only what was exposed or is now
\* recorded, and forgets nothing exposed, keeps Recovery.
LEMMA RecoveryKept ==
    ASSUME Recovery, svc' = "serving",
           \A i \in Mine : Exposed(i)' => Exposed(i) \/ Recorded(i)',
           \A i \in Mine : Recorded(i) /\ Exposed(i)' => Recorded(i)'
    PROVE  Recovery'
<1>1. \A i \in Mine : Exposed(i) => Recorded(i)
  BY DEF Recovery, DurableCoverage, Exposed, Recorded
<1>2. \A i \in Mine : Exposed(i)' => Recorded(i)'
  BY <1>1
<1>3. DurableCoverage'
  BY <1>2 DEF DurableCoverage, Exposed, Recorded, Mine
<1> QED BY <1>3 DEF Recovery, Pending

\* Every step, reconciliation included, keeps a durable record of every sandbox
\* this service may have created.
LEMMA RecoveryStep ==
    ASSUME MaxCreates = 1, TypeOK, Shape, Ownership, Recovery, [Next]_vars
    PROVE Recovery'
<1> USE DEF TypeOK, Shape, memory, process, outside, history, Goto, Pc, CreatePc,
        HolderPc, AcquirePc, OtherPc, Request, Lifecycle, NoEntry, NoReq, NoRecord, NoRecon, Mine,
        Reconciliation
<1>1. ASSUME NEW o \in Op, NEW i \in Id, NEW c \in Caller,
             CreateAdmit(o, i, c)
      PROVE Recovery'
  BY <1>1 DEF CreateAdmit, Begin, reject_new_work, Recovery, DurableCoverage,
         Pending, Exists
<1>2. ASSUME NEW o \in Op, NEW i \in Id, NEW c \in Caller,
             WaitReadyTake(o, i, c)
      PROVE Recovery'
  BY <1>2 DEF WaitReadyTake, Begin, OwnedBy, Recovery, DurableCoverage,
         Pending, Exists
<1>3. ASSUME NEW o \in Op, NEW i \in Id, NEW c \in Caller,
             PrepareAdmit(o, i, c)
      PROVE Recovery'
  BY <1>3 DEF PrepareAdmit, Begin, reject_new_work, Recovery, DurableCoverage,
         Pending, Exists
<1>4. ASSUME NEW o \in Op, NEW i \in Id, NEW c \in Caller,
             CommitAdmit(o, i, c)
      PROVE Recovery'
  BY <1>4 DEF CommitAdmit, Begin, reject_new_work, Recovery, DurableCoverage,
         Pending, Exists
<1>5. ASSUME NEW o \in Op, NEW i \in Id, NEW c \in Caller,
             NEW k \in {"delete", "wait_deleted"}, CleanupBegin(o, k, i, c)
      PROVE Recovery'
  BY <1>5 DEF CleanupBegin, Begin, Recovery, DurableCoverage, Pending, Exists
<1>6. ASSUME NEW o \in Op, put_owned(o) PROVE Recovery'
  BY <1>6 DEF put_owned, Recovery, DurableCoverage, Pending, Exists
<1>7. ASSUME NEW o \in Op, CleanupWrite(o) PROVE Recovery'
  <2>1. PICK res : write_record(req[o].id, req[o].who, "CleanupOnly", res)
    BY <1>7 DEF CleanupWrite
  <2>2. \A i \in Id : Recorded(i) => Recorded(i)'
    <3>1. req[o].id \in Id /\ "CleanupOnly" \in Stage \ {"Unowned"}
      BY <1>7 DEF CleanupWrite, Stage
    <3> HIDE DEF TypeOK
    <3> QED BY <2>1, <3>1, WriteRecorded
  <2>3. \A i \in Id : Exposed(i)' => Exposed(i)
    BY <1>7 DEF CleanupWrite, Exposed, Exists
  <2> QED BY <1>7, <2>2, <2>3, RecoveryKept DEF CleanupWrite
<1>8. ASSUME NEW o \in Op, Refuse(o) PROVE Recovery'
  BY <1>8 DEF Refuse, Finish, Recovery, DurableCoverage, Pending, Exists
<1>9. ASSUME NEW o \in Op, CreateClaim(o) PROVE Recovery'
  BY <1>9 DEF CreateClaim, Recovery, DurableCoverage, Pending, Exists
<1>10. ASSUME NEW o \in Op, CreateFence(o) PROVE Recovery'
  <2>1. PICK res : write_record(req[o].id, req[o].who, "CreatePossible", res)
    BY <1>10 DEF CreateFence
  <2>2. \A i \in Id : Recorded(i) => Recorded(i)'
    <3>1. req[o].id \in Id /\ "CreatePossible" \in Stage \ {"Unowned"}
      BY <1>10 DEF CreateFence, Stage
    <3> HIDE DEF TypeOK
    <3> QED BY <2>1, <3>1, WriteRecorded
  <2>3. \A i \in Id : Exposed(i)' => Exposed(i) \/ i = req[o].id
    BY <1>10 DEF CreateFence, Exposed, Exists
  <2>4. Recorded(req[o].id)'
    BY <1>10 DEF CreateFence, write_record, Recorded
  <2> QED BY <1>10, <2>2, <2>3, <2>4, RecoveryKept DEF CreateFence
<1>11. ASSUME NEW o \in Op, CreateFenceFails(o) PROVE Recovery'
  <2>1. PICK res : write_record(req[o].id, req[o].who, "CreatePossible", res)
    BY <1>11 DEF CreateFenceFails
  <2>2. \A i \in Id : Recorded(i) => Recorded(i)'
    <3>1. req[o].id \in Id /\ "CreatePossible" \in Stage \ {"Unowned"}
      BY <1>11 DEF CreateFenceFails, Stage
    <3> HIDE DEF TypeOK
    <3> QED BY <2>1, <3>1, WriteRecorded
  <2>3. \A i \in Id : Exposed(i)' => Exposed(i)
    BY <1>11 DEF CreateFenceFails, Finish, Exposed, Exists
  <2> QED BY <1>11, <2>2, <2>3, RecoveryKept DEF CreateFenceFails
<1>12. ASSUME NEW o \in Op, RuntimeCreateOk(o) PROVE Recovery'
  <2>1. \A i \in Id : Exposed(i)' => Exposed(i)
    BY <1>12 DEF RuntimeCreateOk, Exposed, Exists
  <2>2. \A i \in Id : Recorded(i) => Recorded(i)'
    BY <1>12 DEF RuntimeCreateOk, Recorded
  <2> QED BY <1>12, <2>1, <2>2, RecoveryKept DEF RuntimeCreateOk
<1>13. ASSUME NEW o \in Op, RuntimeCreatePossible(o) PROVE Recovery'
  <2>1. \A i \in Id : Exposed(i)' => Exposed(i)
    BY <1>13 DEF RuntimeCreatePossible, Exposed, Exists
  <2>2. \A i \in Id : Recorded(i) => Recorded(i)'
    BY <1>13 DEF RuntimeCreatePossible, Recorded
  <2> QED BY <1>13, <2>1, <2>2, RecoveryKept DEF RuntimeCreatePossible
<1>14. ASSUME NEW o \in Op, RuntimeCreateNothing(o) PROVE Recovery'
  BY <1>14 DEF RuntimeCreateNothing, Recovery, DurableCoverage, Pending, Exists
<1>15. ASSUME NEW o \in Op, CreateRecord(o) PROVE Recovery'
  <2>1. PICK res : write_record(req[o].id, req[o].who, "Created", res)
    BY <1>15 DEF CreateRecord
  <2>2. \A i \in Id : Recorded(i) => Recorded(i)'
    <3>1. req[o].id \in Id /\ "Created" \in Stage \ {"Unowned"}
      BY <1>15 DEF CreateRecord, Stage
    <3> HIDE DEF TypeOK
    <3> QED BY <2>1, <3>1, WriteRecorded
  <2>3. \A i \in Id : Exposed(i)' => Exposed(i)
    BY <1>15 DEF CreateRecord, Exposed, Exists
  <2> QED BY <1>15, <2>2, <2>3, RecoveryKept DEF CreateRecord
<1>16. ASSUME NEW o \in Op, UnownWrite(o) PROVE Recovery'
  <2>1. \A i \in Id : Recorded(i) /\ i # req[o].id => Recorded(i)'
    BY <1>16 DEF UnownWrite, write_record, Result, Recorded
  <2>2. \A i \in Id : Exposed(i)' => Exposed(i)
    BY <1>16 DEF UnownWrite, Exposed, Exists
  <2>3. req[o].id \in Mine => ~Exists(req[o].id) /\ UNCHANGED <<box, late>>
    BY <1>16 DEF UnownWrite, Ownership, Fresh, Alive, Exists
  <2>4. \A p \in Op : pc'[p] = "create_call" => req'[p].id # req[o].id
    <3>1. \A p \in Op : p # o /\ pc[p] = "create_call" => req[p].id # req[o].id
      BY <1>16 DEF UnownWrite, Ownership, OneClaim, Claims
    <3> QED BY <1>16, <3>1 DEF UnownWrite
  <2>5. \A i \in Mine : i = req[o].id => ~Exposed(i)'
    BY <2>3, <2>4 DEF Exposed, Exists
  <2> QED BY <1>16, <2>1, <2>2, <2>5, RecoveryKept DEF UnownWrite
<1>17. ASSUME NEW o \in Op, UnownRemove(o) PROVE Recovery'
  <2>1. \A i \in Id : Recorded(i) /\ i # req[o].id => Recorded(i)'
    BY <1>17 DEF UnownRemove, Finish, remove_record, Result, Recorded
  <2>2. \A i \in Id : Exposed(i)' => Exposed(i)
    BY <1>17 DEF UnownRemove, Finish, Exposed, Exists
  <2>3. req[o].id \in Mine => ~Exists(req[o].id) /\ UNCHANGED <<box, late>>
    BY <1>17 DEF UnownRemove, Ownership, Fresh, Alive, Exists
  <2>4. \A p \in Op : pc'[p] = "create_call" => req'[p].id # req[o].id
    <3>1. \A p \in Op : p # o /\ pc[p] = "create_call" => req[p].id # req[o].id
      BY <1>17 DEF UnownRemove, Ownership, OneClaim, Claims
    <3> QED BY <1>17, <3>1 DEF UnownRemove, Finish
  <2>5. \A i \in Mine : i = req[o].id => ~Exposed(i)'
    BY <2>3, <2>4 DEF Exposed, Exists
  <2> QED BY <1>17, <2>1, <2>2, <2>5, RecoveryKept DEF UnownRemove
<1>18. ASSUME NEW o \in Op, RuntimeWaitReady(o) PROVE Recovery'
  BY <1>18 DEF RuntimeWaitReady, Recovery, DurableCoverage, Pending, Exists
<1>19. ASSUME NEW o \in Op, ReadyRecord(o) PROVE Recovery'
  <2>1. PICK res : write_record(req[o].id, req[o].who, "Ready", res)
    BY <1>19 DEF ReadyRecord
  <2>2. \A i \in Id : Recorded(i) => Recorded(i)'
    <3>1. req[o].id \in Id /\ "Ready" \in Stage \ {"Unowned"}
      BY <1>19 DEF ReadyRecord, Stage
    <3> HIDE DEF TypeOK
    <3> QED BY <2>1, <3>1, WriteRecorded
  <2>3. \A i \in Id : Exposed(i)' => Exposed(i)
    BY <1>19 DEF ReadyRecord, Exposed, Exists
  <2> QED BY <1>19, <2>2, <2>3, RecoveryKept DEF ReadyRecord
<1>20. ASSUME NEW o \in Op, PrepareCheck(o) PROVE Recovery'
  BY <1>20 DEF PrepareCheck, Recovery, DurableCoverage, Pending, Exists
<1>21. ASSUME NEW o \in Op, PrepareInsert(o) PROVE Recovery'
  BY <1>21 DEF PrepareInsert, Finish, Recovery, DurableCoverage, Pending, Exists
<1>22. ASSUME NEW o \in Op, CommitToken(o) PROVE Recovery'
  BY <1>22 DEF CommitToken, Recovery, DurableCoverage, Pending, Exists
<1>23. ASSUME NEW o \in Op, NEW j \in Id, CommitTokenSpoiled(o, j)
      PROVE Recovery'
  BY <1>23 DEF CommitTokenSpoiled, Finish, Recovery, DurableCoverage, Pending, Exists
<1>24. ASSUME NEW o \in Op, CommitTake(o) PROVE Recovery'
  BY <1>24 DEF CommitTake, Take, OwnedBy, Recovery, DurableCoverage, Pending, Exists
<1>25. ASSUME NEW o \in Op, ExecFence(o) PROVE Recovery'
  <2>1. PICK res : write_record(req[o].id, req[o].who, "ExecPossible", res)
    BY <1>25 DEF ExecFence
  <2>2. \A i \in Id : Recorded(i) => Recorded(i)'
    <3>1. req[o].id \in Id /\ "ExecPossible" \in Stage \ {"Unowned"}
      BY <1>25 DEF ExecFence, Stage
    <3> HIDE DEF TypeOK
    <3> QED BY <2>1, <3>1, WriteRecorded
  <2>3. \A i \in Id : Exposed(i)' => Exposed(i)
    BY <1>25 DEF ExecFence, Exposed, Exists
  <2> QED BY <1>25, <2>2, <2>3, RecoveryKept DEF ExecFence
<1>26. ASSUME NEW o \in Op, RuntimeExec(o) PROVE Recovery'
  BY <1>26 DEF RuntimeExec, Recovery, DurableCoverage, Pending, Exists
<1>27. ASSUME NEW o \in Op, RuntimeExecReturns(o) PROVE Recovery'
  BY <1>27 DEF RuntimeExecReturns, Recovery, DurableCoverage, Pending, Exists
<1>28. ASSUME NEW o \in Op, AcquireTake(o) PROVE Recovery'
  BY <1>28 DEF AcquireTake, Take, OwnedBy, Recovery, DurableCoverage, Pending, Exists
<1>29. ASSUME NEW o \in Op, AcquireMiss(o) PROVE Recovery'
  BY <1>29 DEF AcquireMiss, Recovery, DurableCoverage, Pending, Exists
<1>30. ASSUME NEW o \in Op, AcquireLoad(o) PROVE Recovery'
  BY <1>30 DEF AcquireLoad, Recovery, DurableCoverage, Pending, Exists
<1>31. ASSUME NEW o \in Op, AcquireWake(o) PROVE Recovery'
  BY <1>31 DEF AcquireWake, Recovery, DurableCoverage, Pending, Exists
<1>32. ASSUME NEW o \in Op, AcquireGiveUp(o) PROVE Recovery'
  BY <1>32 DEF AcquireGiveUp, Finish, Recovery, DurableCoverage, Pending, Exists
<1>33. ASSUME NEW o \in Op, DeleteForget(o) PROVE Recovery'
  BY <1>33 DEF DeleteForget, Recovery, DurableCoverage, Pending, Exists
<1>34. ASSUME NEW o \in Op, DeleteFence(o) PROVE Recovery'
  <2>1. PICK res : write_record(req[o].id, req[o].who, "DeletePending", res)
    BY <1>34 DEF DeleteFence
  <2>2. \A i \in Id : Recorded(i) => Recorded(i)'
    <3>1. req[o].id \in Id /\ "DeletePending" \in Stage \ {"Unowned"}
      BY <1>34 DEF DeleteFence, Stage
    <3> HIDE DEF TypeOK
    <3> QED BY <2>1, <3>1, WriteRecorded
  <2>3. \A i \in Id : Exposed(i)' => Exposed(i)
    BY <1>34 DEF DeleteFence, Exposed, Exists
  <2> QED BY <1>34, <2>2, <2>3, RecoveryKept DEF DeleteFence
<1>35. ASSUME NEW o \in Op, DeadlineElapsed(o) PROVE Recovery'
  BY <1>35 DEF DeadlineElapsed, Recovery, DurableCoverage, Pending, Exists
<1>36. ASSUME NEW o \in Op, RuntimeDelete(o) PROVE Recovery'
  BY <1>36 DEF RuntimeDelete, ProviderDelete, Recovery, DurableCoverage, Pending, Exists
<1>37. ASSUME NEW o \in Op, RuntimeWaitDeleted(o) PROVE Recovery'
  BY <1>37 DEF RuntimeWaitDeleted, ProviderAbsent, Recovery, DurableCoverage, Pending, Exists
<1>38. ASSUME NEW o \in Op, RuntimeWaitDeletedFails(o) PROVE Recovery'
  BY <1>38 DEF RuntimeWaitDeletedFails, Recovery, DurableCoverage, Pending, Exists
<1>39. ASSUME NEW o \in Op, GoneRemove(o) PROVE Recovery'
  <2>1. \A i \in Id : Recorded(i) /\ i # req[o].id => Recorded(i)'
    BY <1>39 DEF GoneRemove, Finish, remove_record, Recorded
  <2>2. \A i \in Id : Exposed(i)' => Exposed(i)
    BY <1>39 DEF GoneRemove, Finish, Exposed, Exists
  <2>3. req[o].id \in Mine => ~Exists(req[o].id) /\ UNCHANGED <<box, late>>
    BY <1>39 DEF GoneRemove, Ownership, Fresh, Alive, Exists
  <2>4. \A p \in Op : pc'[p] = "create_call" => req'[p].id # req[o].id
    <3>1. \A p \in Op : p # o /\ pc[p] = "create_call" => req[p].id # req[o].id
      BY <1>39 DEF GoneRemove, Ownership, OneClaim, Claims
    <3> QED BY <1>39, <3>1 DEF GoneRemove, Finish
  <2>5. \A i \in Mine : i = req[o].id => ~Exposed(i)'
    BY <2>3, <2>4 DEF Exposed, Exists
  <2> QED BY <1>39, <2>1, <2>2, <2>5, RecoveryKept DEF GoneRemove
<1>40. ASSUME NEW o \in Op, GoneRemoveFails(o) PROVE Recovery'
  <2>1. \A i \in Id : Recorded(i) /\ i # req[o].id => Recorded(i)'
    BY <1>40 DEF GoneRemoveFails, remove_record, Recorded
  <2>2. \A i \in Id : Exposed(i)' => Exposed(i)
    BY <1>40 DEF GoneRemoveFails, Exposed, Exists
  <2>3. req[o].id \in Mine => ~Exists(req[o].id) /\ UNCHANGED <<box, late>>
    BY <1>40 DEF GoneRemoveFails, Ownership, Fresh, Alive, Exists
  <2>4. \A p \in Op : pc'[p] = "create_call" => req'[p].id # req[o].id
    <3>1. \A p \in Op : p # o /\ pc[p] = "create_call" => req[p].id # req[o].id
      BY <1>40 DEF GoneRemoveFails, Ownership, OneClaim, Claims
    <3> QED BY <1>40, <3>1 DEF GoneRemoveFails
  <2>5. \A i \in Mine : i = req[o].id => ~Exposed(i)'
    BY <2>3, <2>4 DEF Exposed, Exists
  <2> QED BY <1>40, <2>1, <2>2, <2>5, RecoveryKept DEF GoneRemoveFails
<1>41. ASSUME begin_drain PROVE Recovery'
  BY <1>41 DEF begin_drain, Recovery, DurableCoverage, Pending, Exists
<1>42. ASSUME Crash PROVE Recovery'
  BY <1>42 DEF Crash, Vanish, Recovery, DurableCoverage, Pending, Exists
<1>43. ASSUME Exit PROVE Recovery'
  BY <1>43 DEF Exit, Vanish, Recovery, DurableCoverage, Pending, Exists
<1>44. ASSUME Restart PROVE Recovery'
  BY <1>44 DEF Restart, Recovery, DurableCoverage, Pending, Exists
<1>45. ASSUME NEW i \in Id, ReconcileUnowned(i) PROVE Recovery'
  BY <1>45 DEF ReconcileUnowned, Recovery, DurableCoverage, Pending, Exists
<1>46. ASSUME NEW i \in Id, ReconcileDelete(i) PROVE Recovery'
  BY <1>46 DEF ReconcileDelete, ProviderDelete, Recovery, DurableCoverage, Pending, Exists
<1>47. ASSUME ReconcileAbsent PROVE Recovery'
  BY <1>47 DEF ReconcileAbsent, ProviderAbsent, Recovery, DurableCoverage, Pending, Exists
<1>48. ASSUME ReconcileUnresolved PROVE Recovery'
  BY <1>48 DEF ReconcileUnresolved, Recovery, DurableCoverage, Pending, Exists
<1>49. ASSUME ReconcileRemove PROVE Recovery'
  BY <1>49 DEF ReconcileRemove, remove_record, Recovery, DurableCoverage,
         Pending, Exists
<1>50. ASSUME ReconcileRemoveFails PROVE Recovery'
  <2>1. svc' = "down" /\ UNCHANGED <<box, late, pc, req>>
    BY <1>50 DEF ReconcileRemoveFails
  <2>2. \A i \in Id : i # recon.cur => disk'[i] = disk[i]
    BY <1>50 DEF ReconcileRemoveFails, remove_record
  <2>3. recon.cur \in Mine => ~Exists(recon.cur)
    BY <1>50 DEF ReconcileRemoveFails, Recovery, Pending
  <2>4. \A o \in Op : pc[o] = "idle"
    BY <1>50 DEF ReconcileRemoveFails
  <2> QED BY <2>1, <2>2, <2>3, <2>4 DEF Recovery, DurableCoverage, Pending, Exists
<1>51. ASSUME ReconcileDone PROVE Recovery'
  BY <1>51 DEF ReconcileDone, Recovery, DurableCoverage, Pending, Exists
<1>52. ASSUME NEW i \in Id, ProviderReap(i) PROVE Recovery'
  BY <1>52 DEF ProviderReap, Recovery, DurableCoverage, Pending, Exists
<1>54. ASSUME NEW i \in Id, ProviderLate(i) PROVE Recovery'
  BY <1>54 DEF ProviderLate, Recovery, DurableCoverage, Pending, Exists
<1>53. ASSUME UNCHANGED vars PROVE Recovery'
  BY <1>53 DEF vars, Recovery, DurableCoverage, Pending, Exists
<1> HIDE DEF TypeOK, Shape, memory, process, outside, history, Goto, Pc,
         CreatePc, HolderPc, AcquirePc, OtherPc, Request, Lifecycle, NoEntry,
         NoReq, NoRecord, NoRecon, Mine, Reconciliation
<1> QED BY [Next]_vars, <1>1, <1>2, <1>3, <1>4, <1>5, <1>6, <1>7, <1>8, <1>9,
         <1>10, <1>11, <1>12, <1>13, <1>14, <1>15, <1>16, <1>17, <1>18, <1>19,
         <1>20, <1>21, <1>22, <1>23, <1>24, <1>25, <1>26, <1>27, <1>28, <1>29,
         <1>30, <1>31, <1>32, <1>33, <1>34, <1>35, <1>36, <1>37, <1>38, <1>39,
         <1>40, <1>41, <1>42, <1>43, <1>44, <1>45, <1>46, <1>47, <1>48, <1>49,
         <1>50, <1>51, <1>52, <1>53, <1>54
       DEF Next, Submit, Step, Reconcile

\* Every sandbox stays in the map or with an operation that puts it back.
LEMMA ReachableStep ==
    ASSUME MaxCreates = 1, TypeOK, Shape, Ownership, Pending, SandboxReachable,
           [Next]_vars
    PROVE SandboxReachable'
<1> USE DEF TypeOK, Shape, memory, process, outside, history, Goto, Pc, CreatePc,
        HolderPc, AcquirePc, OtherPc, Request, Lifecycle, NoEntry, NoReq, NoRecord, NoRecon,
        Mine, Ownership, OneClaim, Fresh, Alive, Exists, Untouched, Claims, Pending, Reconciliation,
        SandboxReachable
<1>1. ASSUME NEW o \in Op, NEW i \in Id, NEW c \in Caller,
             CreateAdmit(o, i, c)
      PROVE SandboxReachable'
  BY <1>1 DEF CreateAdmit, Begin, reject_new_work
<1>2. ASSUME NEW o \in Op, NEW i \in Id, NEW c \in Caller,
             WaitReadyTake(o, i, c)
      PROVE SandboxReachable'
  <2>1. UNCHANGED <<svc, box, late>> /\ Claims(o, i)'
    BY <1>2 DEF WaitReadyTake, Begin
  <2>2. \A j \in Id, p \in Op : Claims(p, j) => Claims(p, j)'
    BY <1>2 DEF WaitReadyTake, Begin
  <2>3. \A j \in Id \ {i} : owned'[j] = owned[j]
    BY <1>2 DEF WaitReadyTake
  <2> QED BY <2>1, <2>2, <2>3
<1>3. ASSUME NEW o \in Op, NEW i \in Id, NEW c \in Caller,
             PrepareAdmit(o, i, c)
      PROVE SandboxReachable'
  <2>1. UNCHANGED <<svc, box, late, owned>>
    BY <1>3 DEF PrepareAdmit
  <2>2. \A j \in Id, p \in Op : Claims(p, j) => Claims(p, j)'
    BY <1>3 DEF PrepareAdmit, Begin
  <2> QED BY <2>1, <2>2
<1>4. ASSUME NEW o \in Op, NEW i \in Id, NEW c \in Caller,
             CommitAdmit(o, i, c)
      PROVE SandboxReachable'
  <2>1. UNCHANGED <<svc, box, late, owned>>
    BY <1>4 DEF CommitAdmit
  <2>2. \A j \in Id, p \in Op : Claims(p, j) => Claims(p, j)'
    BY <1>4 DEF CommitAdmit, Begin
  <2> QED BY <2>1, <2>2
<1>5. ASSUME NEW o \in Op, NEW i \in Id, NEW c \in Caller,
             NEW k \in {"delete", "wait_deleted"}, CleanupBegin(o, k, i, c)
      PROVE SandboxReachable'
  BY <1>5, SMTT(30) DEF CleanupBegin, Begin
<1>6. ASSUME NEW o \in Op, put_owned(o) PROVE SandboxReachable'
  <2>1. UNCHANGED <<svc, box, late>>
    BY <1>6 DEF put_owned
  <2>4. owned'[req[o].id].life # "none"
    BY <1>6, SMTT(30) DEF put_owned
  <2>2. \A i \in Id, p \in Op : Claims(p, i) => Claims(p, i)' \/ i = req[o].id
    BY <1>6 DEF put_owned
  <2>3. \A i \in Id : i # req[o].id => owned'[i] = owned[i]
    BY <1>6 DEF put_owned
  <2> QED BY <2>1, <2>2, <2>3, <2>4
<1>7. ASSUME NEW o \in Op, CleanupWrite(o) PROVE SandboxReachable'
  BY <1>7 DEF CleanupWrite, write_record, Result
<1>8. ASSUME NEW o \in Op, Refuse(o) PROVE SandboxReachable'
  <2>1. UNCHANGED <<svc, box, late, owned>>
    BY <1>8 DEF Refuse
  <2>2. \A i \in Id, p \in Op : Claims(p, i) => Claims(p, i)' \/ p = o
    BY <1>8 DEF Refuse, Finish
  <2>3. \A i \in Mine : Claims(o, i) => ~Exists(i) \/ owned[i].life # "none"
    BY <1>8 DEF Refuse
  <2> QED BY <2>1, <2>2, <2>3
<1>9. ASSUME NEW o \in Op, CreateClaim(o) PROVE SandboxReachable'
  BY <1>9 DEF CreateClaim
<1>10. ASSUME NEW o \in Op, CreateFence(o) PROVE SandboxReachable'
  BY <1>10 DEF CreateFence, write_record
<1>11. ASSUME NEW o \in Op, CreateFenceFails(o) PROVE SandboxReachable'
  BY <1>11 DEF CreateFenceFails, Finish, write_record
<1>12. ASSUME NEW o \in Op, RuntimeCreateOk(o) PROVE SandboxReachable'
  BY <1>12 DEF RuntimeCreateOk
<1>13. ASSUME NEW o \in Op, RuntimeCreatePossible(o) PROVE SandboxReachable'
  BY <1>13 DEF RuntimeCreatePossible
<1>14. ASSUME NEW o \in Op, RuntimeCreateNothing(o) PROVE SandboxReachable'
  BY <1>14 DEF RuntimeCreateNothing
<1>15. ASSUME NEW o \in Op, CreateRecord(o) PROVE SandboxReachable'
  BY <1>15 DEF CreateRecord, write_record, Result
<1>16. ASSUME NEW o \in Op, UnownWrite(o) PROVE SandboxReachable'
  BY <1>16 DEF UnownWrite, write_record, Result
<1>17. ASSUME NEW o \in Op, UnownRemove(o) PROVE SandboxReachable'
  BY <1>17 DEF UnownRemove, Finish, remove_record, Result
<1>18. ASSUME NEW o \in Op, RuntimeWaitReady(o) PROVE SandboxReachable'
  BY <1>18 DEF RuntimeWaitReady
<1>19. ASSUME NEW o \in Op, ReadyRecord(o) PROVE SandboxReachable'
  BY <1>19 DEF ReadyRecord, write_record, Result
<1>20. ASSUME NEW o \in Op, PrepareCheck(o) PROVE SandboxReachable'
  BY <1>20 DEF PrepareCheck
<1>21. ASSUME NEW o \in Op, PrepareInsert(o) PROVE SandboxReachable'
  <2>1. UNCHANGED <<svc, box, late, owned>>
    BY <1>21 DEF PrepareInsert
  <2>2. \A i \in Id, p \in Op : Claims(p, i) => Claims(p, i)'
    BY <1>21 DEF PrepareInsert, Finish
  <2> QED BY <2>1, <2>2
<1>22. ASSUME NEW o \in Op, CommitToken(o) PROVE SandboxReachable'
  <2>1. UNCHANGED <<svc, box, late, owned>>
    BY <1>22 DEF CommitToken
  <2>2. \A i \in Id, p \in Op : Claims(p, i) => Claims(p, i)'
    BY <1>22 DEF CommitToken
  <2> QED BY <2>1, <2>2
<1>23. ASSUME NEW o \in Op, NEW j \in Id, CommitTokenSpoiled(o, j)
      PROVE SandboxReachable'
  <2>1. UNCHANGED <<svc, box, late, owned>>
    BY <1>23 DEF CommitTokenSpoiled
  <2>2. \A i \in Id, p \in Op : Claims(p, i) => Claims(p, i)'
    BY <1>23 DEF CommitTokenSpoiled, Finish
  <2> QED BY <2>1, <2>2
<1>24. ASSUME NEW o \in Op, CommitTake(o) PROVE SandboxReachable'
  BY <1>24 DEF CommitTake, Take, OwnedBy
<1>25. ASSUME NEW o \in Op, ExecFence(o) PROVE SandboxReachable'
  BY <1>25 DEF ExecFence, write_record, Result
<1>26. ASSUME NEW o \in Op, RuntimeExec(o) PROVE SandboxReachable'
  BY <1>26 DEF RuntimeExec
<1>27. ASSUME NEW o \in Op, RuntimeExecReturns(o) PROVE SandboxReachable'
  BY <1>27 DEF RuntimeExecReturns
<1>28. ASSUME NEW o \in Op, AcquireTake(o) PROVE SandboxReachable'
  BY <1>28 DEF AcquireTake, Take, OwnedBy
<1>29. ASSUME NEW o \in Op, AcquireMiss(o) PROVE SandboxReachable'
  <2>1. UNCHANGED <<svc, box, late, owned>>
    BY <1>29 DEF AcquireMiss
  <2>2. \A i \in Id, p \in Op : Claims(p, i) => Claims(p, i)'
    BY <1>29 DEF AcquireMiss
  <2> QED BY <2>1, <2>2
<1>30. ASSUME NEW o \in Op, AcquireLoad(o) PROVE SandboxReachable'
  <2>1. UNCHANGED <<svc, box, late, owned>>
    BY <1>30 DEF AcquireLoad
  <2>2. \A i \in Id, p \in Op : Claims(p, i) => Claims(p, i)'
    BY <1>30 DEF AcquireLoad
  <2> QED BY <2>1, <2>2
<1>31. ASSUME NEW o \in Op, AcquireWake(o) PROVE SandboxReachable'
  <2>1. UNCHANGED <<svc, box, late, owned>>
    BY <1>31 DEF AcquireWake
  <2>2. \A i \in Id, p \in Op : Claims(p, i) => Claims(p, i)'
    BY <1>31 DEF AcquireWake
  <2> QED BY <2>1, <2>2
<1>32. ASSUME NEW o \in Op, AcquireGiveUp(o) PROVE SandboxReachable'
  <2>1. UNCHANGED <<svc, box, late, owned>>
    BY <1>32 DEF AcquireGiveUp
  <2>2. \A i \in Id, p \in Op : Claims(p, i) => Claims(p, i)'
    BY <1>32 DEF AcquireGiveUp, Finish
  <2> QED BY <2>1, <2>2
<1>33. ASSUME NEW o \in Op, DeleteForget(o) PROVE SandboxReachable'
  BY <1>33 DEF DeleteForget
<1>34. ASSUME NEW o \in Op, DeleteFence(o) PROVE SandboxReachable'
  BY <1>34 DEF DeleteFence, write_record, Result
<1>35. ASSUME NEW o \in Op, DeadlineElapsed(o) PROVE SandboxReachable'
  BY <1>35 DEF DeadlineElapsed
<1>36. ASSUME NEW o \in Op, RuntimeDelete(o) PROVE SandboxReachable'
  BY <1>36 DEF RuntimeDelete, ProviderDelete
<1>37. ASSUME NEW o \in Op, RuntimeWaitDeleted(o) PROVE SandboxReachable'
  BY <1>37 DEF RuntimeWaitDeleted, ProviderAbsent
<1>38. ASSUME NEW o \in Op, RuntimeWaitDeletedFails(o) PROVE SandboxReachable'
  BY <1>38 DEF RuntimeWaitDeletedFails
<1>39. ASSUME NEW o \in Op, GoneRemove(o) PROVE SandboxReachable'
  BY <1>39 DEF GoneRemove, Finish, remove_record
<1>40. ASSUME NEW o \in Op, GoneRemoveFails(o) PROVE SandboxReachable'
  BY <1>40 DEF GoneRemoveFails, remove_record
<1>41. ASSUME begin_drain PROVE SandboxReachable'
  BY <1>41 DEF begin_drain
<1>42. ASSUME Crash PROVE SandboxReachable'
  BY <1>42 DEF Crash, Vanish
<1>43. ASSUME Exit PROVE SandboxReachable'
  BY <1>43 DEF Exit, Vanish
<1>44. ASSUME Restart PROVE SandboxReachable'
  BY <1>44 DEF Restart
<1>45. ASSUME NEW i \in Id, ReconcileUnowned(i) PROVE SandboxReachable'
  BY <1>45 DEF ReconcileUnowned
<1>46. ASSUME NEW i \in Id, ReconcileDelete(i) PROVE SandboxReachable'
  BY <1>46 DEF ReconcileDelete, ProviderDelete
<1>47. ASSUME ReconcileAbsent PROVE SandboxReachable'
  BY <1>47 DEF ReconcileAbsent, ProviderAbsent
<1>48. ASSUME ReconcileUnresolved PROVE SandboxReachable'
  BY <1>48 DEF ReconcileUnresolved
<1>49. ASSUME ReconcileRemove PROVE SandboxReachable'
  BY <1>49 DEF ReconcileRemove, remove_record
<1>50. ASSUME ReconcileRemoveFails PROVE SandboxReachable'
  BY <1>50 DEF ReconcileRemoveFails, remove_record
<1>51. ASSUME ReconcileDone PROVE SandboxReachable'
  BY <1>51 DEF ReconcileDone
<1>52. ASSUME NEW i \in Id, ProviderReap(i) PROVE SandboxReachable'
  BY <1>52 DEF ProviderReap
<1>54. ASSUME NEW i \in Id, ProviderLate(i) PROVE SandboxReachable'
  BY <1>54 DEF ProviderLate
<1>53. ASSUME UNCHANGED vars PROVE SandboxReachable'
  BY <1>53 DEF vars
<1> HIDE DEF TypeOK, Shape, memory, process, outside, history, Goto, Pc,
         CreatePc, HolderPc, AcquirePc, OtherPc, Request, Lifecycle, NoEntry,
         NoReq, NoRecord, NoRecon, Mine, Ownership, OneClaim, Fresh, Alive,
         Untouched, Claims, Pending, Reconciliation, SandboxReachable
<1> QED BY [Next]_vars, <1>1, <1>2, <1>3, <1>4, <1>5, <1>6, <1>7, <1>8, <1>9,
         <1>10, <1>11, <1>12, <1>13, <1>14, <1>15, <1>16, <1>17, <1>18, <1>19,
         <1>20, <1>21, <1>22, <1>23, <1>24, <1>25, <1>26, <1>27, <1>28, <1>29,
         <1>30, <1>31, <1>32, <1>33, <1>34, <1>35, <1>36, <1>37, <1>38, <1>39,
         <1>40, <1>41, <1>42, <1>43, <1>44, <1>45, <1>46, <1>47, <1>48, <1>49,
         <1>50, <1>51, <1>52, <1>53, <1>54
       DEF Next, Submit, Step, Reconcile

\* Every step that puts an entry into the map wakes the cleanups that look for
\* it: a waiter without a wakeup has nothing to take.
LEMMA WakeupStep ==
    ASSUME TypeOK, Shape, NoLostWakeup, [Next]_vars PROVE NoLostWakeup'
<1> USE DEF TypeOK, Shape, memory, process, outside, history, Goto, Pc, CreatePc,
        HolderPc, AcquirePc, OtherPc, Request, NoEntry, NoReq, NoLostWakeup, OwnedBy
<1>1. ASSUME NEW o \in Op, NEW i \in Id, NEW c \in Caller,
             CreateAdmit(o, i, c)
      PROVE NoLostWakeup'
  BY <1>1 DEF CreateAdmit, Begin
<1>2. ASSUME NEW o \in Op, NEW i \in Id, NEW c \in Caller,
             WaitReadyTake(o, i, c)
      PROVE NoLostWakeup'
  BY <1>2 DEF WaitReadyTake, Begin
<1>3. ASSUME NEW o \in Op, NEW i \in Id, NEW c \in Caller,
             PrepareAdmit(o, i, c)
      PROVE NoLostWakeup'
  BY <1>3 DEF PrepareAdmit, Begin
<1>4. ASSUME NEW o \in Op, NEW i \in Id, NEW c \in Caller,
             CommitAdmit(o, i, c)
      PROVE NoLostWakeup'
  BY <1>4 DEF CommitAdmit, Begin
<1>5. ASSUME NEW o \in Op, NEW i \in Id, NEW c \in Caller,
             NEW k \in {"delete", "wait_deleted"}, CleanupBegin(o, k, i, c)
      PROVE NoLostWakeup'
  BY <1>5 DEF CleanupBegin, Begin
<1>6. ASSUME NEW o \in Op, put_owned(o) PROVE NoLostWakeup'
  BY <1>6 DEF put_owned
<1>7. ASSUME NEW o \in Op, CleanupWrite(o) PROVE NoLostWakeup'
  BY <1>7 DEF CleanupWrite
<1>8. ASSUME NEW o \in Op, Refuse(o) PROVE NoLostWakeup'
  BY <1>8 DEF Refuse, Finish
<1>9. ASSUME NEW o \in Op, CreateClaim(o) PROVE NoLostWakeup'
  BY <1>9 DEF CreateClaim
<1>10. ASSUME NEW o \in Op, CreateFence(o) PROVE NoLostWakeup'
  BY <1>10 DEF CreateFence
<1>11. ASSUME NEW o \in Op, CreateFenceFails(o) PROVE NoLostWakeup'
  BY <1>11 DEF CreateFenceFails, Finish
<1>12. ASSUME NEW o \in Op, RuntimeCreateOk(o) PROVE NoLostWakeup'
  BY <1>12 DEF RuntimeCreateOk
<1>13. ASSUME NEW o \in Op, RuntimeCreatePossible(o) PROVE NoLostWakeup'
  BY <1>13 DEF RuntimeCreatePossible
<1>14. ASSUME NEW o \in Op, RuntimeCreateNothing(o) PROVE NoLostWakeup'
  BY <1>14 DEF RuntimeCreateNothing
<1>15. ASSUME NEW o \in Op, CreateRecord(o) PROVE NoLostWakeup'
  BY <1>15 DEF CreateRecord
<1>16. ASSUME NEW o \in Op, UnownWrite(o) PROVE NoLostWakeup'
  BY <1>16 DEF UnownWrite
<1>17. ASSUME NEW o \in Op, UnownRemove(o) PROVE NoLostWakeup'
  BY <1>17 DEF UnownRemove, Finish
<1>18. ASSUME NEW o \in Op, RuntimeWaitReady(o) PROVE NoLostWakeup'
  BY <1>18 DEF RuntimeWaitReady
<1>19. ASSUME NEW o \in Op, ReadyRecord(o) PROVE NoLostWakeup'
  BY <1>19 DEF ReadyRecord
<1>20. ASSUME NEW o \in Op, PrepareCheck(o) PROVE NoLostWakeup'
  BY <1>20 DEF PrepareCheck
<1>21. ASSUME NEW o \in Op, PrepareInsert(o) PROVE NoLostWakeup'
  BY <1>21 DEF PrepareInsert, Finish
<1>22. ASSUME NEW o \in Op, CommitToken(o) PROVE NoLostWakeup'
  BY <1>22 DEF CommitToken
<1>23. ASSUME NEW o \in Op, NEW j \in Id, CommitTokenSpoiled(o, j)
      PROVE NoLostWakeup'
  BY <1>23 DEF CommitTokenSpoiled, Finish
<1>24. ASSUME NEW o \in Op, CommitTake(o) PROVE NoLostWakeup'
  BY <1>24 DEF CommitTake, Take
<1>25. ASSUME NEW o \in Op, ExecFence(o) PROVE NoLostWakeup'
  BY <1>25 DEF ExecFence
<1>26. ASSUME NEW o \in Op, RuntimeExec(o) PROVE NoLostWakeup'
  BY <1>26 DEF RuntimeExec
<1>27. ASSUME NEW o \in Op, RuntimeExecReturns(o) PROVE NoLostWakeup'
  BY <1>27 DEF RuntimeExecReturns
<1>28. ASSUME NEW o \in Op, AcquireTake(o) PROVE NoLostWakeup'
  BY <1>28 DEF AcquireTake, Take
<1>29. ASSUME NEW o \in Op, AcquireMiss(o) PROVE NoLostWakeup'
  BY <1>29 DEF AcquireMiss
<1>30. ASSUME NEW o \in Op, AcquireLoad(o) PROVE NoLostWakeup'
  BY <1>30 DEF AcquireLoad
<1>31. ASSUME NEW o \in Op, AcquireWake(o) PROVE NoLostWakeup'
  BY <1>31 DEF AcquireWake
<1>32. ASSUME NEW o \in Op, AcquireGiveUp(o) PROVE NoLostWakeup'
  BY <1>32 DEF AcquireGiveUp, Finish
<1>33. ASSUME NEW o \in Op, DeleteForget(o) PROVE NoLostWakeup'
  BY <1>33 DEF DeleteForget
<1>34. ASSUME NEW o \in Op, DeleteFence(o) PROVE NoLostWakeup'
  BY <1>34 DEF DeleteFence
<1>35. ASSUME NEW o \in Op, DeadlineElapsed(o) PROVE NoLostWakeup'
  BY <1>35 DEF DeadlineElapsed
<1>36. ASSUME NEW o \in Op, RuntimeDelete(o) PROVE NoLostWakeup'
  BY <1>36 DEF RuntimeDelete, ProviderDelete
<1>37. ASSUME NEW o \in Op, RuntimeWaitDeleted(o) PROVE NoLostWakeup'
  BY <1>37 DEF RuntimeWaitDeleted, ProviderAbsent
<1>38. ASSUME NEW o \in Op, RuntimeWaitDeletedFails(o) PROVE NoLostWakeup'
  BY <1>38 DEF RuntimeWaitDeletedFails
<1>39. ASSUME NEW o \in Op, GoneRemove(o) PROVE NoLostWakeup'
  BY <1>39 DEF GoneRemove, Finish
<1>40. ASSUME NEW o \in Op, GoneRemoveFails(o) PROVE NoLostWakeup'
  BY <1>40 DEF GoneRemoveFails
<1>41. ASSUME begin_drain PROVE NoLostWakeup'
  BY <1>41 DEF begin_drain
<1>42. ASSUME Crash PROVE NoLostWakeup'
  BY <1>42 DEF Crash, Vanish
<1>43. ASSUME Exit PROVE NoLostWakeup'
  BY <1>43 DEF Exit, Vanish
<1>44. ASSUME Restart PROVE NoLostWakeup'
  BY <1>44 DEF Restart
<1>45. ASSUME NEW i \in Id, ReconcileUnowned(i) PROVE NoLostWakeup'
  BY <1>45 DEF ReconcileUnowned
<1>46. ASSUME NEW i \in Id, ReconcileDelete(i) PROVE NoLostWakeup'
  BY <1>46 DEF ReconcileDelete, ProviderDelete
<1>47. ASSUME ReconcileAbsent PROVE NoLostWakeup'
  BY <1>47 DEF ReconcileAbsent, ProviderAbsent
<1>48. ASSUME ReconcileUnresolved PROVE NoLostWakeup'
  BY <1>48 DEF ReconcileUnresolved
<1>49. ASSUME ReconcileRemove PROVE NoLostWakeup'
  BY <1>49 DEF ReconcileRemove
<1>50. ASSUME ReconcileRemoveFails PROVE NoLostWakeup'
  BY <1>50 DEF ReconcileRemoveFails
<1>51. ASSUME ReconcileDone PROVE NoLostWakeup'
  BY <1>51 DEF ReconcileDone
<1>52. ASSUME NEW i \in Id, ProviderReap(i) PROVE NoLostWakeup'
  BY <1>52 DEF ProviderReap
<1>54. ASSUME NEW i \in Id, ProviderLate(i) PROVE NoLostWakeup'
  BY <1>54 DEF ProviderLate
<1>53. ASSUME UNCHANGED vars PROVE NoLostWakeup'
  BY <1>53 DEF vars
<1> HIDE DEF TypeOK, Shape, memory, process, outside, history, Goto, Pc,
         CreatePc, HolderPc, AcquirePc, OtherPc, Request, NoEntry, NoReq,
         NoLostWakeup, OwnedBy
<1> QED BY [Next]_vars, <1>1, <1>2, <1>3, <1>4, <1>5, <1>6, <1>7, <1>8, <1>9,
         <1>10, <1>11, <1>12, <1>13, <1>14, <1>15, <1>16, <1>17, <1>18, <1>19,
         <1>20, <1>21, <1>22, <1>23, <1>24, <1>25, <1>26, <1>27, <1>28, <1>29,
         <1>30, <1>31, <1>32, <1>33, <1>34, <1>35, <1>36, <1>37, <1>38, <1>39,
         <1>40, <1>41, <1>42, <1>43, <1>44, <1>45, <1>46, <1>47, <1>48, <1>49,
         <1>50, <1>51, <1>52, <1>53, <1>54
       DEF Next, Submit, Step, Reconcile

-----------------------------------------------------------------------------
(***************************************************************************)
(* The theorems.                                                           *)
(***************************************************************************)
\* The initial state satisfies every layer.
LEMMA InitLayers ==
    ASSUME Init
    PROVE  /\ TypeOK /\ Shape /\ Ownership /\ Execution /\ Recovery
           /\ SandboxReachable /\ NoLostWakeup
<1> USE DEF Init, NoRecon, NoReq, NoEntry, NoRecord
<1>1. TypeOK
  BY NullTypes DEF TypeOK, Pc, CreatePc, HolderPc, AcquirePc, OtherPc
<1>2. Shape
  BY DEF Shape, HolderPc
<1>3. \A o \in Op, i \in Id : ~Claims(o, i)
  BY DEF Claims, CreatePc, HolderPc
<1>4. \A i \in Id : late[i] = "none" /\ (i \in Mine => box[i] = "absent")
  BY DEF Mine
<1>5. Ownership
  BY <1>3, <1>4 DEF Ownership, OneClaim, Fresh, Alive, Exists, Untouched, HolderPc
<1>6. Execution
  BY DEF Execution, Spent, Fenced, Belongs, RecordKeepsCaller, Gone, CreatePc,
         HolderPc
<1>7. Recovery
  BY <1>4 DEF Recovery, DurableCoverage, Pending, Exists, Mine
<1>8. SandboxReachable
  BY DEF SandboxReachable
<1>9. NoLostWakeup
  BY DEF NoLostWakeup
<1> QED BY <1>1, <1>2, <1>5, <1>6, <1>7, <1>8, <1>9

\* Every variable keeps its type in every behaviour of the service, through
\* any number of requests, crashes and restarts.
THEOREM TypeCorrect == Spec => [](TypeOK /\ Shape)
<1>1. Init => TypeOK /\ Shape
  BY InitLayers
<1>2. TypeOK /\ Shape /\ [Next]_vars => (TypeOK /\ Shape)'
  BY TypeStep, ShapeStep
<1> QED BY <1>1, <1>2, PTL DEF Spec

\* A cleanup that waits in acquire_for_cleanup without a pending wakeup has
\* nothing it could take: put_owned never slips between the look at the map
\* and the wait.
THEOREM WakeupsAreKept == Spec => []NoLostWakeup
<1>1. Init => NoLostWakeup
  BY InitLayers
<1>2. TypeOK /\ Shape /\ NoLostWakeup /\ [Next]_vars => NoLostWakeup'
  BY WakeupStep
<1> QED BY <1>1, <1>2, TypeCorrect, PTL DEF Spec

\* All layers together are invariants of a service that is sent one Create
\* request for an identifier.
THEOREM Layers ==
    ASSUME MaxCreates = 1
    PROVE  Spec => [](/\ TypeOK /\ Shape /\ Ownership /\ Execution /\ Recovery
                      /\ SandboxReachable)
<1> DEFINE Layer == /\ TypeOK /\ Shape /\ Ownership /\ Execution /\ Recovery
                    /\ SandboxReachable
<1>1. Init => Layer
  BY InitLayers
<1>2. ASSUME Layer, [Next]_vars PROVE Layer'
  <2>1. Pending
    BY <1>2 DEF Recovery
  <2> QED BY <1>2, <2>1, TypeStep, ShapeStep, OwnershipStep, ExecutionStep,
             RecoveryStep, ReachableStep
<1>3. Layer /\ [Next]_vars => Layer'
  BY <1>2
<1> QED BY <1>1, <1>3, PTL DEF Spec

\* The entry of a sandbox is in the owned map or with one handler, never both.
THEOREM EntriesAreUnique ==
    ASSUME MaxCreates = 1 PROVE Spec => []OneClaim
<1>1. Ownership /\ Shape /\ Execution /\ Recovery /\ SandboxReachable => OneClaim
  BY DEF Ownership
<1> QED BY <1>1, Layers, PTL

\* A sandbox the service may have created, or that a Create it gave up may still make, has
\* a durable record that names it as owned, in every state a crash can leave behind and
\* until the provider reports it absent.  What the provider makes after that report is
\* covered by no record.
THEOREM RecordsCoverSandboxes ==
    ASSUME MaxCreates = 1 PROVE Spec => []DurableCoverage
<1>1. Ownership /\ Shape /\ Execution /\ Recovery /\ SandboxReachable => DurableCoverage
  BY DEF Recovery
<1> QED BY <1>1, Layers, PTL

\* A sandbox is not lost while the service runs: until it is reported absent it is in the
\* map or with a handler that puts it back.
THEOREM SandboxesAreReachable ==
    ASSUME MaxCreates = 1 PROVE Spec => []SandboxReachable
<1>1. Ownership /\ Shape /\ Execution /\ Recovery /\ SandboxReachable => SandboxReachable
  BY DEF Ownership
<1> QED BY <1>1, Layers, PTL

\* At most one command is started in a sandbox, over all commits and restarts.
THEOREM OneCommand ==
    ASSUME MaxCreates = 1 PROVE Spec => []ExecAtMostOnce
<1>1. Ownership /\ Shape /\ Execution /\ Recovery /\ SandboxReachable => ExecAtMostOnce
  BY DEF Execution, Spent, ExecAtMostOnce
<1> QED BY <1>1, Layers, PTL

\* While a command is dispatched its record says ExecPossible and its sandbox is
\* not deleted.
THEOREM CommandsAreFenced ==
    ASSUME MaxCreates = 1 PROVE Spec => []ExecFenced
<1>1. Ownership /\ Shape /\ Execution /\ Recovery /\ SandboxReachable => ExecFenced
  BY DEF Execution, Fenced, ExecFenced, Ownership, Alive, Shape, HolderPc
<1> QED BY <1>1, Layers, PTL

\* The record, the entry and the handler of a sandbox agree on its caller.
THEOREM CallersAreKept ==
    ASSUME MaxCreates = 1 PROVE Spec => []RecordKeepsCaller
<1>1. Ownership /\ Shape /\ Execution /\ Recovery /\ SandboxReachable => RecordKeepsCaller
  BY DEF Execution, Belongs
<1> QED BY <1>1, Layers, PTL

\* A caller is told that nothing is left to clean up only after the provider reported the
\* sandbox absent or never created: the answer is as good as that report, and a Create
\* that is applied after it makes the answer wrong.
THEOREM ReleaseIsTruthful ==
    ASSUME MaxCreates = 1 PROVE Spec => []ReleasedIsAbsent
<1>1. Ownership /\ Shape /\ Execution /\ Recovery /\ SandboxReachable => ReleasedIsAbsent
  BY DEF Execution, Gone, ReleasedIsAbsent
<1> QED BY <1>1, Layers, PTL

\* A sandbox is in somebody's custody from its Create until the provider reports it absent
\* (the owned map, the handlers that take entries out of it, and what callers are told at
\* the end).
THEOREM CustodyIsKept ==
    ASSUME MaxCreates = 1 PROVE Spec => []Custody
<1>1. SandboxReachable /\ OneClaim /\ RecordKeepsCaller /\ ReleasedIsAbsent => Custody
  BY DEF Custody
<1> QED
  BY <1>1, SandboxesAreReachable, EntriesAreUnique, CallersAreKept, ReleaseIsTruthful, PTL

\* CommitExec starts one command at most in a sandbox, behind its durable fence.
THEOREM CommandsRunFencedOnce ==
    ASSUME MaxCreates = 1 PROVE Spec => []FencedOnce
<1>1. ExecAtMostOnce /\ ExecFenced => FencedOnce
  BY DEF FencedOnce
<1> QED BY <1>1, OneCommand, CommandsAreFenced, PTL

\* No command is started in a sandbox that somebody else created (the handlers
\* of Create and CommitExec): not by the Create that finds it, and not by what follows its removal.
THEOREM ForeignSandboxesRunNothing ==
    ASSUME MaxCreates = 1 PROVE Spec => []ForeignNeverExecuted
<1>1. Init => Strangers
  BY BoundaryAssumption DEF Init, Strangers, NoRecon, NoReq, NoEntry, HolderPc
<1>2. TypeOK /\ Shape /\ Ownership /\ Strangers /\ [Next]_vars => Strangers'
  BY StrangersStep
<1>3. Strangers => ForeignNeverExecuted
  BY DEF Strangers, ForeignNeverExecuted
<1> QED BY <1>1, <1>2, <1>3, Layers, PTL DEF Spec
===============================================================================
