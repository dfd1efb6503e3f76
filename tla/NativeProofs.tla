---------------------------- MODULE NativeProofs ----------------------------
(***************************************************************************)
(* The safety of the native runtime, for any limits, connections, bounds   *)
(* and either kind of runner, and the proof that it implements the         *)
(* contract of SandboxRuntime.  Inv says what is known at each step: the   *)
(* caller's handle, whether our mkdir succeeded, whether the runner was    *)
(* spawned and lives, where every written byte is, and what the proxy      *)
(* kept.                                                                   *)
(***************************************************************************)
EXTENDS Native, FiniteSetTheorems, TLAPS

-----------------------------------------------------------------------------
Creating == pc \in {"c_check", "c_root", "c_mkdir", "c_chmod"}
Preparing == pc \in {"e_check", "e_net", "e_spawn"}
Spawned == pc \in {"e_wait", "e_kill", "e_join", "e_finish"}
CleaningUp == pc \in {"d_remove", "d_done", "w_check"}

Reader == [st : {"read", "load", "eof"}, n : Nat, seen : Nat, kept : Nat,
           over : BOOLEAN, broken : BOOLEAN]

\* TypeOK with the readers, and without what Conserved and Counted give.
CallerTypes ==
    /\ pc \in DOMAIN OpOf /\ fired \subseteq {"cancelled", "deadline", "timeout"}
    /\ handle \in {"none", "created", "ready", "spent", "possible", "not_created", "conflict"}
    /\ verdict \in {"none", "completed", "not_dispatched", "indeterminate"}
    /\ absent \in {"no", "seen", "blind"}
FileTypes ==
    /\ made \in BOOLEAN
    /\ root \in {"present", "absent", "link"} /\ ws \in {"absent", "own", "foreign"}
    /\ profile \in {"pinned", "other"}
ProcessTypes ==
    /\ proc \in {"none", "running", "exited"} /\ kids \in {"none", "holding", "detached"}
    /\ outcome \in {"none", "exited", "failed", "overflow", "timeout", "deadline", "cancelled"}
    /\ runs \in 0..1
OutputTypes ==
    /\ pipe \in [Streams -> Nat] /\ count \in [Streams -> Nat] /\ wrote \in [Streams -> 0..MaxBytes]
    /\ rd \in [Streams -> Reader] /\ notice \in BOOLEAN
ProxyTypes ==
    /\ net \in {"deny", "allowlist"} /\ listening \in BOOLEAN
    /\ conn \in [Conns -> {"none", "accepted", "relaying", "closed", "direct"}]
    /\ logged \subseteq Conns /\ relayed \subseteq Conns
Types == CallerTypes /\ FileTypes /\ ProcessTypes /\ OutputTypes /\ ProxyTypes

\* The handle the caller is left with, and whether our mkdir succeeded.
Lifecycle ==
    /\ Creating => handle = "none"
    /\ pc = "r_check" \/ Preparing \/ Spawned => handle = "spent"
    /\ CleaningUp => handle \in {"created", "ready", "spent", "possible"}
    /\ made => handle \in {"created", "ready", "spent", "possible"} \/ pc = "c_chmod"
    /\ handle \in {"created", "ready", "spent"} \/ pc = "c_chmod" => made
    /\ ws = "own" => made

\* The runner is spawned at most once, for the one exec.
StartsOnce ==
    /\ pc = "r_check" \/ Preparing \/ Spawned => verdict = "none"
    /\ verdict # "none" => handle = "spent"
    /\ runs # 0 => Spawned \/ verdict # "none"
    /\ Spawned => runs = 1

\* The proxy runs from just before the spawn to its finish, and nothing connects to it
\* before the command runs.
ProxyScoped ==
    /\ runs = 0 => proc = "none" /\ kids = "none"
    /\ listening => pc = "e_spawn" \/ Spawned
    /\ Spawned \/ Live = {}

\* Every written byte is in the pipe or counted; what is counted is kept, about to be
\* checked, or was dropped after an overflow.
Conserved ==
    \A s \in Streams :
        /\ pipe[s] + count[s] = wrote[s]
        /\ rd[s].st # "load" => rd[s].n = 0
        /\ rd[s].kept + rd[s].n <= count[s]
        /\ rd[s].over \/ rd[s].kept + rd[s].n = count[s]

\* A reader ends at an empty pipe that nobody can write to any more, or broken.
EndsEmpty ==
    /\ \A s \in Streams : rd[s].st = "eof" /\ ~rd[s].broken => pipe[s] = 0 /\ ~Holders
    /\ pc = "e_finish" \/ verdict = "completed" => \A s \in Streams : rd[s].st = "eof"
    /\ ~Spawned /\ verdict # "completed" => \A s \in Streams : rd[s].st # "eof"
    /\ verdict = "completed" => \A s \in Streams : ~rd[s].over

\* The proxy serves and keeps no more than its limits.
Counted == Cardinality(Live) <= MaxConcurrent /\ Cardinality(logged) <= MaxRetained

\* What was relayed is in the evidence, unless the list was full.
Recorded == relayed \subseteq logged \/ Cardinality(logged) = MaxRetained

Inv ==
    /\ Types /\ Lifecycle /\ StartsOnce /\ ProxyScoped
    /\ Conserved /\ KeptWithinLimits /\ EndsEmpty /\ Counted /\ Recorded
-----------------------------------------------------------------------------
\* The steps of the operations.
LEMMA Steps ==
    DOMAIN OpOf = {"idle", "c_check", "c_root", "c_mkdir", "c_chmod", "r_check", "e_check",
                   "e_net", "e_spawn", "e_wait", "e_kill", "e_join", "e_finish",
                   "d_remove", "d_done", "w_check"}
BY DEF OpOf

\* The operation each step belongs to.
LEMMA Operations ==
    ASSUME NEW p \in DOMAIN OpOf
    PROVE  /\ OpOf[p] = "create" <=> p \in {"c_check", "c_root", "c_mkdir", "c_chmod"}
           /\ OpOf[p] = "wait_ready" <=> p = "r_check"
           /\ OpOf[p] = "exec" <=> p \in {"e_check", "e_net", "e_spawn", "e_wait", "e_kill",
                                          "e_join", "e_finish"}
           /\ OpOf[p] = "delete" <=> p \in {"d_remove", "d_done"}
           /\ OpOf[p] = "wait_deleted" <=> p = "w_check"
           /\ OpOf[p] = "idle" <=> p = "idle"
BY DEF OpOf

-----------------------------------------------------------------------------
(* The actions summed up: what a step of each operation may change.            *)

Begins ==
    /\ pc = "idle"
    /\ UNCHANGED <<verdict, absent, files, process, output, proxy>>
    /\ \/ handle = "none" /\ pc' = "c_check" /\ handle' = handle
       \/ handle = "created" /\ pc' = "r_check" /\ handle' = "spent"
       \/ handle = "ready" /\ pc' = "e_check" /\ handle' = "spent"
       \/ /\ handle \in {"created", "ready", "spent", "possible"}
          /\ pc' \in {"d_remove", "w_check"} /\ handle' = handle

CreateMoves ==
    /\ Creating /\ UNCHANGED <<verdict, absent, profile, process, output, proxy>>
    /\ \/ pc = "c_check" /\ pc' = "c_root" /\ UNCHANGED <<handle, ws, made>>
       \/ pc = "c_root" /\ pc' = "c_mkdir" /\ UNCHANGED <<handle, ws, made>>
       \/ /\ pc = "c_mkdir" /\ pc' = "c_chmod" /\ handle' = handle
          /\ ws' = "own" /\ made' = TRUE
       \/ /\ pc # "c_chmod" /\ pc' = "idle" /\ handle' \in {"not_created", "conflict"}
          /\ UNCHANGED <<ws, made>>
       \/ /\ pc = "c_chmod" /\ pc' = "idle" /\ handle' \in {"created", "possible"}
          /\ UNCHANGED <<ws, made>>

ReadyMoves ==
    /\ pc = "r_check" /\ pc' = "idle" /\ handle' \in {"ready", "spent"}
    /\ UNCHANGED <<verdict, absent, files, process, output, proxy>>

CleanupMoves ==
    /\ UNCHANGED <<handle, verdict, root, made, profile, process, output, proxy>>
    /\ \/ pc = "d_remove" /\ pc' = "d_done" /\ ws' \in {ws, "absent"} /\ UNCHANGED absent
       \/ pc = "d_done" /\ pc' = "idle" /\ UNCHANGED <<ws, absent>>
       \/ /\ pc = "w_check" /\ pc' = "idle" /\ UNCHANGED ws
          /\ \/ absent' = "seen" <=> absent = "seen"
             \/ absent' = "seen" /\ ws = "absent"

\* An execution goes on.
ExecMoves ==
    /\ UNCHANGED <<handle, verdict, absent, root, ws, made, profile, output>>
    /\ \/ pc = "e_check" /\ pc' = "e_net" /\ UNCHANGED <<process, proxy>>
       \/ pc = "e_net" /\ pc' = "e_spawn" /\ UNCHANGED <<process, conn, logged, relayed>>
       \/ /\ pc = "e_spawn" /\ pc' = "e_wait" /\ proc' = "running" /\ runs' = runs + 1
          /\ UNCHANGED <<kids, proxy>>
       \/ /\ pc = "e_wait" /\ pc' \in {"e_join", "e_kill"} /\ (pc' = "e_join" => proc = "exited")
          /\ UNCHANGED <<process, proxy>>
       \/ /\ pc = "e_kill" /\ pc' = "e_join" /\ proc' = "exited" /\ kids' = Orphans
          /\ UNCHANGED <<runs, proxy>>
       \/ /\ pc = "e_join" /\ pc' = "e_finish" /\ (\A s \in Streams : rd[s].st = "eof")
          /\ UNCHANGED <<process, proxy>>
       \/ /\ pc = "e_finish" /\ pc' = pc /\ UNCHANGED <<process, net, logged, relayed>>
          /\ conn' \in {conn, [c \in Conns |-> IF c \in Live THEN "closed" ELSE conn[c]]}

\* An execution returns.
ExecEnds ==
    /\ pc' = "idle"
    /\ UNCHANGED <<handle, absent, files, process, conn, logged, relayed>>
    /\ listening' => listening /\ pc \in {"e_check", "e_net"}
    /\ pc = "e_finish" => Live = {}
    /\ \/ Preparing /\ verdict' = "not_dispatched" /\ DropOutput
       \/ pc = "e_finish" /\ verdict' = "indeterminate" /\ DropOutput
       \/ /\ pc = "e_finish" /\ verdict' = "completed" /\ UNCHANGED output
          /\ \A s \in Streams : ~rd[s].over

\* A task, the command, a clock or the host acts: the operation stays where it is.
Aside == UNCHANGED <<pc, handle, verdict, absent, made, runs>> /\ ws' \in {ws, "absent"}

ReaderStep == \E s \in Streams : Read(s) \/ Check(s) \/ EndOfPipe(s) \/ ReadFails(s)
WriteStep == \E s \in Streams : Write(s)
ProxyStep == (\E c \in Conns : Accept(c) \/ Serve(c) \/ Close(c) \/ Bypass(c)) \/ AcceptFails
ProcessStep == Fork \/ Exit \/ ForkExits
ClockStep == DeadlineElapses \/ TimeoutElapses \/ CancelRequested \/ UNCHANGED vars
HostStep == RootPruned \/ RootLinked \/ ProfileReplaced

\* Every step is one of these, or a crash.
LEMMA StepCases ==
    ASSUME Types, [Next]_vars
    PROVE  \/ Begins \/ CreateMoves \/ ReadyMoves \/ CleanupMoves \/ ExecMoves \/ ExecEnds
           \/ Crash
           \/ /\ Aside
              /\ \/ ReaderStep \/ WriteStep \/ ProxyStep
                 \/ ProcessStep \/ ClockStep \/ HostStep
<1>1. ASSUME Create PROVE Begins
  BY <1>1 DEF Create, Call, Step, Begins
<1>2. ASSUME WaitReady PROVE Begins
  BY <1>2 DEF WaitReady, Call, Step, Begins
<1>3. ASSUME Exec PROVE Begins
  BY <1>3 DEF Exec, Call, Step, Begins
<1>4. ASSUME Delete PROVE Begins
  BY <1>4 DEF Delete, Call, Step, Begins
<1>5. ASSUME WaitDeleted PROVE Begins
  BY <1>5 DEF WaitDeleted, Call, Step, Begins
<1>6. ASSUME CreateCheck PROVE CreateMoves
  BY <1>6 DEF CreateCheck, CreateReturns, Continue, files, CreateMoves, Creating
<1>7. ASSUME EnsureWorkspaceRoot PROVE CreateMoves
  BY <1>7 DEF EnsureWorkspaceRoot, CreateReturns, Continue, CreateMoves, Creating
<1>8. ASSUME CreateDir PROVE CreateMoves
  BY <1>8 DEF CreateDir, CreateReturns, Continue, CreateMoves, Creating
<1>9. ASSUME CreatePermissions PROVE CreateMoves
  BY <1>9 DEF CreatePermissions, CreateReturns, files, CreateMoves, Creating
<1>10. ASSUME ReadyCheck PROVE ReadyMoves
  BY <1>10 DEF ReadyCheck, ReadyReturns, ReadyMoves
<1>11. ASSUME RemoveDirAll PROVE CleanupMoves
  BY <1>11 DEF RemoveDirAll, Step, Continue, CleanupMoves
<1>12. ASSUME DeleteReturns PROVE CleanupMoves
  BY <1>12 DEF DeleteReturns, CleanupReturns, Types, CallerTypes, CleanupMoves
<1>13. ASSUME DeletedCheck PROVE CleanupMoves
  <2>1. \/ absent' = "seen" <=> absent = "seen"
        \/ absent' = "seen" /\ ws = "absent"
    BY <1>13 DEF DeletedCheck, CleanupReturns, Types, CallerTypes
  <2> QED
    BY <1>13, <2>1 DEF DeletedCheck, CleanupReturns, CleanupMoves
<1>14. ASSUME Select PROVE ExecMoves
  BY <1>14 DEF Select, Outcomes, files, ExecMoves
<1>15. ASSUME Kill PROVE ExecMoves
  BY <1>15 DEF Kill, Step, files, process, ExecMoves
<1>16. ASSUME JoinReaders PROVE ExecMoves
  BY <1>16 DEF JoinReaders, Step, files, ExecMoves
<1>17. ASSUME StopProxy PROVE ExecMoves
  BY <1>17 DEF StopProxy, caller, files, proxy, ExecMoves
<1>18. ASSUME GraceEnds PROVE ExecMoves
  BY <1>18 DEF GraceEnds, caller, files, Live, ExecMoves
<1>19. ASSUME ExecCheck PROVE ExecMoves \/ ExecEnds
  BY <1>19 DEF ExecCheck, ExecReturns, ExecFlows, proxy, ExecMoves, ExecEnds, Preparing
<1>20. ASSUME ExecNetwork PROVE ExecMoves \/ ExecEnds
  BY <1>20 DEF ExecNetwork, ExecReturns, ExecFlows, ExecMoves, ExecEnds, Preparing
<1>21. ASSUME ExecSpawn PROVE ExecMoves \/ ExecEnds
  BY <1>21 DEF ExecSpawn, ExecReturns, ExecFlows, ExecMoves, ExecEnds, Preparing
<1>22. ASSUME ExecFinish PROVE ExecEnds
  BY <1>22 DEF ExecFinish, ExecReturns, Overflowed, ExecEnds, Preparing, Live
<1>23. ASSUME ReaderStep PROVE Aside
  BY <1>23 DEF ReaderStep, Read, Check, EndOfPipe, ReadFails, ReaderOnly, Aside, caller, files, process
<1>24. ASSUME WriteStep PROVE Aside
  BY <1>24 DEF WriteStep, Write, Aside, caller, files, process
<1>25. ASSUME ProxyStep PROVE Aside
  BY <1>25 DEF ProxyStep, Accept, Serve, Close, Bypass, AcceptFails, ProxyOnly, Aside, caller, files, process
<1>26. ASSUME ProcessStep PROVE Aside
  BY <1>26 DEF ProcessStep, Fork, Exit, ForkExits, ProcessOnly, Aside, caller, files, process
<1>27. ASSUME ClockStep PROVE Aside
  BY <1>27 DEF ClockStep, DeadlineElapses, TimeoutElapses, CancelRequested, Fires, vars, Aside, caller, files, process
<1>28. ASSUME HostStep PROVE Aside
  BY <1>28 DEF HostStep, RootPruned, RootLinked, ProfileReplaced, HostOnly, Aside, caller, files, process
<1>29. \/ Create \/ WaitReady \/ Exec \/ Delete \/ WaitDeleted \/ Executor
      \/ ReaderStep \/ WriteStep \/ ProxyStep \/ ProcessStep \/ ClockStep \/ HostStep \/ Crash
  BY DEF Next, ReaderStep, WriteStep, ProxyStep, ProcessStep, ClockStep, HostStep
<1> QED
  BY <1>1, <1>2, <1>3, <1>4, <1>5, <1>6, <1>7, <1>8, <1>9, <1>10, <1>11, <1>12,
     <1>13, <1>14, <1>15, <1>16, <1>17, <1>18, <1>19, <1>20, <1>21, <1>22,
     <1>23, <1>24, <1>25, <1>26, <1>27, <1>28, <1>29 DEF Executor

\* The values of an unused pipe and of a fresh reader.
LEMMA Values ==
    /\ Empty \in [Streams -> Nat] /\ Empty \in [Streams -> 0..MaxBytes]
    /\ NewReader \in Reader /\ [s \in Streams |-> NewReader] \in [Streams -> Reader]
    /\ NewReader.st = "read" /\ NewReader.n = 0 /\ NewReader.kept = 0
    /\ NewReader.over = FALSE /\ NewReader.broken = FALSE
    /\ \A s \in Streams : Empty[s] = 0 /\ Other(s) \in Streams /\ Other(s) # s
    /\ MaxBytes \in Nat
BY NativeAssumption DEF Empty, NewReader, Reader, Other, Streams

\* Dropped output is as in the initial state.
LEMMA Dropped ==
    ASSUME DropOutput
    PROVE  /\ pipe' \in [Streams -> Nat] /\ count' \in [Streams -> Nat]
           /\ wrote' \in [Streams -> 0..MaxBytes] /\ rd' \in [Streams -> Reader] /\ notice' \in BOOLEAN
           /\ \A s \in Streams : pipe'[s] = 0 /\ count'[s] = 0 /\ wrote'[s] = 0 /\ rd'[s] = NewReader
BY Values DEF DropOutput

\* A reader whose fields are assigned is a reader.
LEMMA ReaderFields ==
    ASSUME NEW r \in Reader, NEW st \in {"read", "load", "eof"}, NEW n \in Nat, NEW seen \in Nat,
           NEW kept \in Nat, NEW over \in BOOLEAN, NEW broken \in BOOLEAN
    PROVE  /\ [r EXCEPT !.st = st, !.n = n] \in Reader
           /\ [r EXCEPT !.st = st, !.n = n, !.seen = seen, !.over = over, !.kept = kept] \in Reader
           /\ [r EXCEPT !.st = st] \in Reader
           /\ [r EXCEPT !.st = st, !.broken = broken] \in Reader
BY DEF Reader

\* What a reader step leaves: the other reader is untouched, and this one
\* has taken bytes from its pipe, checked them, or ended.
Took(s, n) ==
    /\ Reading(s) /\ n \in 1..pipe[s]
    /\ pipe' = [pipe EXCEPT ![s] = pipe[s] - n] /\ count' = [count EXCEPT ![s] = count[s] + n]
    /\ rd'[s].st = "load" /\ rd'[s].n = n
    /\ rd'[s].kept = rd[s].kept /\ rd'[s].over = rd[s].over /\ rd'[s].broken = rd[s].broken
Checked(s) ==
    /\ rd[s].st = "load" /\ rd'[s].st = "read" /\ rd'[s].n = 0 /\ rd'[s].broken = rd[s].broken
    /\ UNCHANGED <<pipe, count>>
    /\ \/ rd'[s].over = TRUE /\ rd'[s].kept = rd[s].kept
       \/ /\ rd'[s].over = rd[s].over /\ ~rd[s].over /\ rd'[s].kept = rd[s].kept + rd[s].n
          /\ ~StaleLoads => count[s] + count[Other(s)] <= CombinedBytes
Ended(s) ==
    /\ Reading(s) /\ rd'[s].st = "eof" /\ UNCHANGED <<pipe, count>>
    /\ rd'[s].n = rd[s].n /\ rd'[s].kept = rd[s].kept /\ rd'[s].over = rd[s].over
    /\ rd'[s].broken \/ (pipe[s] = 0 /\ ~Holders)

\* One read of a reader thread moves bytes from the pipe to its count.
LEMMA ReadCase ==
    ASSUME Types, NEW s \in Streams, Read(s)
    PROVE  /\ \E n \in Nat : Took(s, n)
           /\ rd' \in [Streams -> Reader] /\ \A x \in Streams \ {s} : rd'[x] = rd[x]
           /\ ReaderOnly /\ notice' \in BOOLEAN
<1>1. PICK n \in 1..pipe[s] :
        /\ pipe' = [pipe EXCEPT ![s] = @ - n]
        /\ count' = [count EXCEPT ![s] = @ + n]
        /\ rd' = [rd EXCEPT ![s].st = "load", ![s].n = n]
  BY DEF Read
<1>2. rd \in [Streams -> Reader] /\ rd[s] \in Reader /\ n \in Nat /\ pipe[s] \in Nat
  BY <1>1 DEF Types, OutputTypes
<1>3. rd' = [rd EXCEPT ![s] = [rd[s] EXCEPT !.st = "load", !.n = n]]
  BY <1>1, <1>2 DEF Reader
<1>4. [rd[s] EXCEPT !.st = "load", !.n = n] \in Reader
  BY <1>2, ReaderFields
<1>5. rd' \in [Streams -> Reader] /\ rd'[s] = [rd[s] EXCEPT !.st = "load", !.n = n]
  BY <1>2, <1>3, <1>4
<1>6. Took(s, n)
  BY <1>1, <1>2, <1>5 DEF Took, Read, Reader
<1> QED
  BY <1>2, <1>3, <1>5, <1>6 DEF Read, Types, OutputTypes

\* The comparison with the limits that follows a read keeps the bytes or gives up.
LEMMA CheckCase ==
    ASSUME Types, NEW s \in Streams, Check(s)
    PROVE  /\ Checked(s)
           /\ rd' \in [Streams -> Reader] /\ \A x \in Streams \ {s} : rd'[x] = rd[x]
           /\ ReaderOnly /\ notice' \in BOOLEAN
<1>1. /\ rd \in [Streams -> Reader] /\ rd[s] \in Reader
      /\ count[s] \in Nat /\ count[Other(s)] \in Nat
      /\ rd[s].seen \in Nat /\ rd[s].kept \in Nat /\ rd[s].n \in Nat
      /\ rd[s].over \in BOOLEAN /\ rd[s].broken \in BOOLEAN
  BY Values DEF Types, OutputTypes, Reader
<1>2. PICK v \in (IF StaleLoads THEN rd[s].seen..count[Other(s)] ELSE {count[Other(s)]}) :
        LET over == rd[s].n > ChunkBytes \/ count[s] > StreamBytes \/ count[s] + v > CombinedBytes IN
        /\ rd' = [rd EXCEPT ![s].st = "read", ![s].n = 0, ![s].seen = IF StaleLoads THEN v ELSE 0,
                            ![s].over = @ \/ over,
                            ![s].kept = IF over \/ rd[s].over THEN @ ELSE @ + rd[s].n]
        /\ notice' = (notice \/ over)
  BY DEF Check
<1> DEFINE over == rd[s].n > ChunkBytes \/ count[s] > StreamBytes \/ count[s] + v > CombinedBytes
           seen == IF StaleLoads THEN v ELSE 0
           kept == IF over \/ rd[s].over THEN rd[s].kept ELSE rd[s].kept + rd[s].n
<1>3. /\ over \in BOOLEAN /\ (rd[s].over \/ over) \in BOOLEAN /\ (notice \/ over) \in BOOLEAN
      /\ seen \in Nat /\ kept \in Nat
  BY <1>1
<1>4. /\ ~StaleLoads => v = count[Other(s)]
      /\ ~over => count[s] + v <= CombinedBytes
  BY <1>1, NativeAssumption
<1>5. /\ rd' = [rd EXCEPT ![s] = [rd[s] EXCEPT !.st = "read", !.n = 0, !.seen = seen,
                                               !.over = (rd[s].over \/ over), !.kept = kept]]
      /\ notice' = (notice \/ over)
  BY <1>1, <1>2 DEF Reader
<1> HIDE DEF over, seen
<1>6. [rd[s] EXCEPT !.st = "read", !.n = 0, !.seen = seen,
                    !.over = (rd[s].over \/ over), !.kept = kept] \in Reader
  BY <1>1, <1>3, ReaderFields
<1>7. /\ rd' \in [Streams -> Reader]
      /\ rd'[s] = [rd[s] EXCEPT !.st = "read", !.n = 0, !.seen = seen,
                                !.over = (rd[s].over \/ over), !.kept = kept]
      /\ \A x \in Streams \ {s} : rd'[x] = rd[x]
  BY <1>1, <1>5, <1>6
<1>8. /\ rd'[s].st = "read" /\ rd'[s].n = 0 /\ rd'[s].broken = rd[s].broken
      /\ rd'[s].over = (rd[s].over \/ over) /\ rd'[s].kept = kept
  BY <1>1, <1>7 DEF Reader
<1>9. \/ rd'[s].over = TRUE /\ rd'[s].kept = rd[s].kept
      \/ /\ rd'[s].over = rd[s].over /\ ~rd[s].over /\ rd'[s].kept = rd[s].kept + rd[s].n
         /\ ~StaleLoads => count[s] + count[Other(s)] <= CombinedBytes
  <2>1. CASE over \/ rd[s].over
    BY <1>3, <1>8, <2>1
  <2>2. CASE ~(over \/ rd[s].over)
    BY <1>1, <1>3, <1>4, <1>8, <2>2
  <2> QED
    BY <2>1, <2>2
<1> QED
  BY <1>3, <1>5, <1>7, <1>8, <1>9 DEF Check, Checked

\* A reader ends at the end of the pipe or on a failed read.
LEMMA EndCase ==
    ASSUME Types, NEW s \in Streams, EndOfPipe(s) \/ ReadFails(s)
    PROVE  /\ Ended(s)
           /\ rd' \in [Streams -> Reader] /\ \A x \in Streams \ {s} : rd'[x] = rd[x]
           /\ ReaderOnly /\ notice' \in BOOLEAN
<1>1. rd \in [Streams -> Reader] /\ rd[s] \in Reader /\ notice \in BOOLEAN
  BY DEF Types, OutputTypes
<1>2. CASE EndOfPipe(s)
  <2>1. rd' = [rd EXCEPT ![s] = [rd[s] EXCEPT !.st = "eof"]]
    BY <1>1, <1>2 DEF EndOfPipe
  <2>2. [rd[s] EXCEPT !.st = "eof"] \in Reader
    BY <1>1 DEF Reader
  <2>3. rd' \in [Streams -> Reader] /\ rd'[s] = [rd[s] EXCEPT !.st = "eof"]
    BY <1>1, <2>1, <2>2
  <2> QED
    BY <1>1, <1>2, <2>1, <2>3 DEF EndOfPipe, Ended, Reader
<1>3. CASE ReadFails(s)
  <2>1. rd' = [rd EXCEPT ![s] = [rd[s] EXCEPT !.st = "eof", !.broken = TRUE]]
    BY <1>1, <1>3 DEF ReadFails, Reader
  <2>2. [rd[s] EXCEPT !.st = "eof", !.broken = TRUE] \in Reader
    BY <1>1 DEF Reader
  <2>3. rd' \in [Streams -> Reader] /\ rd'[s] = [rd[s] EXCEPT !.st = "eof", !.broken = TRUE]
    BY <1>1, <2>1, <2>2
  <2> QED
    BY <1>1, <1>3, <2>1, <2>3 DEF ReadFails, Ended, Reader
<1> QED
  BY <1>2, <1>3

\* The readers, summed up.
LEMMA ReaderCases ==
    ASSUME Types, ReaderStep
    PROVE  \E s \in Streams :
             /\ (\E n \in Nat : Took(s, n)) \/ Checked(s) \/ Ended(s)
             /\ rd' \in [Streams -> Reader] /\ (\A x \in Streams \ {s} : rd'[x] = rd[x])
             /\ ReaderOnly /\ notice' \in BOOLEAN
BY ReadCase, CheckCase, EndCase DEF ReaderStep

\* Every action keeps the types.
LEMMA TypesStep == Types /\ StartsOnce /\ [Next]_vars => Types'
<1> SUFFICES ASSUME Types, StartsOnce, [Next]_vars PROVE Types'
  OBVIOUS
<1> USE Steps DEF Types, caller, files, process, output, proxy
<1>1. CASE Create
  <2>1. CallerTypes'
    BY <1>1 DEF Create, Call, Step, CallerTypes
  <2>2. FileTypes' /\ ProcessTypes' /\ OutputTypes' /\ ProxyTypes'
    BY <1>1 DEF Create, Call, Step, FileTypes, ProcessTypes, OutputTypes, ProxyTypes
  <2> QED
    BY <2>1, <2>2
<1>2. CASE WaitReady
  <2>1. CallerTypes'
    BY <1>2 DEF WaitReady, Call, Step, CallerTypes
  <2>2. FileTypes' /\ ProcessTypes' /\ OutputTypes' /\ ProxyTypes'
    BY <1>2 DEF WaitReady, Call, Step, FileTypes, ProcessTypes, OutputTypes, ProxyTypes
  <2> QED
    BY <2>1, <2>2
<1>3. CASE Exec
  <2>1. CallerTypes'
    BY <1>3 DEF Exec, Call, Step, CallerTypes
  <2>2. FileTypes' /\ ProcessTypes' /\ OutputTypes' /\ ProxyTypes'
    BY <1>3 DEF Exec, Call, Step, FileTypes, ProcessTypes, OutputTypes, ProxyTypes
  <2> QED
    BY <2>1, <2>2
<1>4. CASE Delete
  <2>1. CallerTypes'
    BY <1>4 DEF Delete, Call, Step, CallerTypes
  <2>2. FileTypes' /\ ProcessTypes' /\ OutputTypes' /\ ProxyTypes'
    BY <1>4 DEF Delete, Call, Step, FileTypes, ProcessTypes, OutputTypes, ProxyTypes
  <2> QED
    BY <2>1, <2>2
<1>5. CASE WaitDeleted
  <2>1. CallerTypes'
    BY <1>5 DEF WaitDeleted, Call, Step, CallerTypes
  <2>2. FileTypes' /\ ProcessTypes' /\ OutputTypes' /\ ProxyTypes'
    BY <1>5 DEF WaitDeleted, Call, Step, FileTypes, ProcessTypes, OutputTypes, ProxyTypes
  <2> QED
    BY <2>1, <2>2
<1>6. CASE CreateCheck
  <2>1. CallerTypes'
    BY <1>6 DEF CreateCheck, CreateReturns, Continue, CallerTypes
  <2>2. FileTypes' /\ ProcessTypes' /\ OutputTypes' /\ ProxyTypes'
    BY <1>6 DEF CreateCheck, CreateReturns, Continue, FileTypes, ProcessTypes, OutputTypes, ProxyTypes
  <2> QED
    BY <2>1, <2>2
<1>7. CASE EnsureWorkspaceRoot
  <2>1. CallerTypes'
    BY <1>7 DEF EnsureWorkspaceRoot, CreateReturns, Continue, CallerTypes
  <2>2. FileTypes'
    BY <1>7 DEF EnsureWorkspaceRoot, CreateReturns, Continue, FileTypes
  <2>3. ProcessTypes' /\ OutputTypes' /\ ProxyTypes'
    BY <1>7 DEF EnsureWorkspaceRoot, CreateReturns, Continue, ProcessTypes, OutputTypes, ProxyTypes
  <2> QED
    BY <2>1, <2>2, <2>3
<1>8. CASE CreateDir
  <2>1. CallerTypes'
    BY <1>8 DEF CreateDir, CreateReturns, Continue, CallerTypes
  <2>2. FileTypes'
    BY <1>8 DEF CreateDir, CreateReturns, Continue, FileTypes
  <2>3. ProcessTypes' /\ OutputTypes' /\ ProxyTypes'
    BY <1>8 DEF CreateDir, CreateReturns, Continue, ProcessTypes, OutputTypes, ProxyTypes
  <2> QED
    BY <2>1, <2>2, <2>3
<1>9. CASE CreatePermissions
  <2>1. CallerTypes'
    BY <1>9 DEF CreatePermissions, CreateReturns, CallerTypes
  <2>2. FileTypes' /\ ProcessTypes' /\ OutputTypes' /\ ProxyTypes'
    BY <1>9 DEF CreatePermissions, CreateReturns, FileTypes, ProcessTypes, OutputTypes, ProxyTypes
  <2> QED
    BY <2>1, <2>2
<1>10. CASE ReadyCheck
  <2>1. CallerTypes'
    BY <1>10 DEF ReadyCheck, ReadyReturns, CallerTypes
  <2>2. FileTypes' /\ ProcessTypes' /\ OutputTypes' /\ ProxyTypes'
    BY <1>10 DEF ReadyCheck, ReadyReturns, FileTypes, ProcessTypes, OutputTypes, ProxyTypes
  <2> QED
    BY <2>1, <2>2
<1>11. CASE RemoveDirAll
  <2>1. CallerTypes'
    BY <1>11 DEF RemoveDirAll, Step, Continue, CallerTypes
  <2>2. FileTypes'
    BY <1>11 DEF RemoveDirAll, Step, Continue, FileTypes
  <2>3. ProcessTypes' /\ OutputTypes' /\ ProxyTypes'
    BY <1>11 DEF RemoveDirAll, Step, Continue, ProcessTypes, OutputTypes, ProxyTypes
  <2> QED
    BY <2>1, <2>2, <2>3
<1>12. CASE DeleteReturns
  <2>1. CallerTypes'
    BY <1>12 DEF DeleteReturns, CleanupReturns, CallerTypes
  <2>2. FileTypes' /\ ProcessTypes' /\ OutputTypes' /\ ProxyTypes'
    BY <1>12 DEF DeleteReturns, CleanupReturns, FileTypes, ProcessTypes, OutputTypes, ProxyTypes
  <2> QED
    BY <2>1, <2>2
<1>13. CASE DeletedCheck
  <2>1. CallerTypes'
    BY <1>13 DEF DeletedCheck, CleanupReturns, CallerTypes
  <2>2. FileTypes' /\ ProcessTypes' /\ OutputTypes' /\ ProxyTypes'
    BY <1>13 DEF DeletedCheck, CleanupReturns, FileTypes, ProcessTypes, OutputTypes, ProxyTypes
  <2> QED
    BY <2>1, <2>2
<1>14. CASE ExecCheck
  <2>1. CallerTypes'
    BY <1>14 DEF ExecCheck, ExecReturns, ExecFlows, CallerTypes
  <2>2. FileTypes'
    BY <1>14 DEF ExecCheck, ExecReturns, ExecFlows, FileTypes
  <2>3. OutputTypes'
    BY <1>14, Dropped DEF ExecCheck, ExecReturns, ExecFlows, OutputTypes
  <2>4. ProcessTypes' /\ ProxyTypes'
    BY <1>14 DEF ExecCheck, ExecReturns, ExecFlows, ProcessTypes, ProxyTypes
  <2> QED
    BY <2>1, <2>2, <2>3, <2>4
<1>15. CASE ExecNetwork
  <2>1. CallerTypes'
    BY <1>15 DEF ExecNetwork, ExecReturns, ExecFlows, CallerTypes
  <2>2. OutputTypes'
    BY <1>15, Dropped DEF ExecNetwork, ExecReturns, ExecFlows, OutputTypes
  <2>3. ProxyTypes'
    BY <1>15 DEF ExecNetwork, ExecReturns, ExecFlows, ProxyTypes
  <2>4. FileTypes' /\ ProcessTypes'
    BY <1>15 DEF ExecNetwork, ExecReturns, ExecFlows, FileTypes, ProcessTypes
  <2> QED
    BY <2>1, <2>2, <2>3, <2>4
<1>16. CASE ExecSpawn
  <2>1. CallerTypes'
    BY <1>16 DEF ExecSpawn, ExecReturns, ExecFlows, CallerTypes
  <2>2. FileTypes'
    BY <1>16 DEF ExecSpawn, ExecReturns, ExecFlows, FileTypes
  <2>3. ProcessTypes'
    <3>1. runs = 0
      BY <1>16 DEF ExecSpawn, StartsOnce, Preparing, Spawned, ProcessTypes, CallerTypes
    <3> QED
      BY <1>16, <3>1 DEF ExecSpawn, ExecReturns, ExecFlows, ProcessTypes
  <2>4. OutputTypes'
    BY <1>16, Dropped DEF ExecSpawn, ExecReturns, ExecFlows, OutputTypes
  <2>5. ProxyTypes'
    BY <1>16 DEF ExecSpawn, ExecReturns, ExecFlows, ProxyTypes
  <2> QED
    BY <2>1, <2>2, <2>3, <2>4, <2>5
<1>17. CASE Select
  <2>1. CallerTypes'
    BY <1>17 DEF Select, Outcomes, CallerTypes
  <2>2. ProcessTypes'
    BY <1>17 DEF Select, Outcomes, ProcessTypes
  <2>3. FileTypes' /\ OutputTypes' /\ ProxyTypes'
    BY <1>17 DEF Select, Outcomes, FileTypes, OutputTypes, ProxyTypes
  <2> QED
    BY <2>1, <2>2, <2>3
<1>18. CASE Kill
  <2>1. CallerTypes'
    BY <1>18 DEF Kill, Step, Orphans, CallerTypes
  <2>2. ProcessTypes'
    BY <1>18 DEF Kill, Step, Orphans, ProcessTypes
  <2>3. FileTypes' /\ OutputTypes' /\ ProxyTypes'
    BY <1>18 DEF Kill, Step, Orphans, FileTypes, OutputTypes, ProxyTypes
  <2> QED
    BY <2>1, <2>2, <2>3
<1>19. CASE JoinReaders
  <2>1. CallerTypes'
    BY <1>19 DEF JoinReaders, Step, CallerTypes
  <2>2. FileTypes' /\ ProcessTypes' /\ OutputTypes' /\ ProxyTypes'
    BY <1>19 DEF JoinReaders, Step, FileTypes, ProcessTypes, OutputTypes, ProxyTypes
  <2> QED
    BY <2>1, <2>2
<1>20. CASE StopProxy
  <2>1. ProxyTypes'
    BY <1>20 DEF StopProxy, ProxyTypes
  <2>2. CallerTypes' /\ FileTypes' /\ ProcessTypes' /\ OutputTypes'
    BY <1>20 DEF StopProxy, CallerTypes, FileTypes, ProcessTypes, OutputTypes
  <2> QED
    BY <2>1, <2>2
<1>21. CASE GraceEnds
  <2>1. ProxyTypes'
    BY <1>21 DEF GraceEnds, ProxyTypes, Live
  <2>2. CallerTypes' /\ FileTypes' /\ ProcessTypes' /\ OutputTypes'
    BY <1>21 DEF GraceEnds, CallerTypes, FileTypes, ProcessTypes, OutputTypes
  <2> QED
    BY <2>1, <2>2
<1>22. CASE ExecFinish
  <2>1. CallerTypes'
    BY <1>22 DEF ExecFinish, ExecReturns, CallerTypes
  <2>2. OutputTypes'
    BY <1>22, Dropped DEF ExecFinish, ExecReturns, OutputTypes
  <2>3. FileTypes' /\ ProcessTypes' /\ ProxyTypes'
    BY <1>22 DEF ExecFinish, ExecReturns, FileTypes, ProcessTypes, ProxyTypes
  <2> QED
    BY <2>1, <2>2, <2>3
<1>23. CASE ReaderStep
  <2>1. OutputTypes'
    <3>1. PICK s \in Streams :
            /\ (\E n \in Nat : Took(s, n)) \/ Checked(s) \/ Ended(s)
            /\ rd' \in [Streams -> Reader] /\ ReaderOnly /\ notice' \in BOOLEAN
      BY <1>23, ReaderCases
    <3>2. CASE UNCHANGED <<pipe, count>>
      BY <3>1, <3>2 DEF OutputTypes, ReaderOnly
    <3>3. ASSUME NEW n \in Nat, Took(s, n) PROVE OutputTypes'
      <4>1. pipe[s] \in Nat /\ count[s] \in Nat
        BY DEF OutputTypes
      <4>2. pipe[s] - n \in Nat /\ count[s] + n \in Nat
        BY <3>3, <4>1 DEF Took
      <4> QED
        BY <3>1, <3>3, <4>2 DEF Took, OutputTypes, ReaderOnly
    <3> QED
      BY <3>1, <3>2, <3>3 DEF Checked, Ended
  <2>2. CallerTypes' /\ FileTypes' /\ ProcessTypes' /\ ProxyTypes'
    <3>1. ReaderOnly
      BY <1>23 DEF ReaderStep, Read, Check, EndOfPipe, ReadFails
    <3> QED
      BY <3>1 DEF ReaderOnly, CallerTypes, FileTypes, ProcessTypes, ProxyTypes
  <2> QED
    BY <2>1, <2>2
<1>24. CASE WriteStep
  <2>1. OutputTypes'
    <3>1. PICK s \in Streams : Write(s)
      BY <1>24 DEF WriteStep
    <3>2. pipe[s] \in Nat /\ wrote[s] \in 0..MaxBytes
      BY DEF OutputTypes
    <3>3. pipe[s] + 1 \in Nat /\ wrote[s] + 1 \in 0..MaxBytes
      BY <3>1, <3>2, Values DEF Write
    <3> QED
      BY <3>1, <3>3 DEF Write, OutputTypes
  <2>2. CallerTypes' /\ FileTypes' /\ ProcessTypes' /\ ProxyTypes'
    BY <1>24 DEF WriteStep, Write, CallerTypes, FileTypes, ProcessTypes, ProxyTypes
  <2> QED
    BY <2>1, <2>2
<1>25. CASE ProxyStep
  <2>1. ProxyTypes'
    <3>1. ASSUME NEW c \in Conns, Accept(c) PROVE ProxyTypes'
      BY <3>1 DEF Accept, ProxyOnly, ProxyTypes
    <3>2. ASSUME NEW c \in Conns, Serve(c) PROVE ProxyTypes'
      BY <3>2, NativeAssumption DEF Serve, ProxyOnly, ProxyTypes
    <3>3. ASSUME NEW c \in Conns, Close(c) PROVE ProxyTypes'
      BY <3>3 DEF Close, ProxyOnly, ProxyTypes
    <3>4. CASE AcceptFails
      BY <3>4 DEF AcceptFails, ProxyOnly, ProxyTypes
    <3>5. ASSUME NEW c \in Conns, Bypass(c) PROVE ProxyTypes'
      BY <3>5 DEF Bypass, ProxyOnly, ProxyTypes
    <3> QED
      BY <1>25, <3>1, <3>2, <3>3, <3>4, <3>5 DEF ProxyStep
  <2>2. CallerTypes' /\ FileTypes' /\ ProcessTypes' /\ OutputTypes'
    <3>1. ProxyOnly
      BY <1>25 DEF ProxyStep, Accept, Serve, Close, Bypass, AcceptFails
    <3> QED
      BY <3>1 DEF ProxyOnly, CallerTypes, FileTypes, ProcessTypes, OutputTypes
  <2> QED
    BY <2>1, <2>2
<1>26. CASE ProcessStep
  <2>1. ProcessTypes'
    BY <1>26 DEF ProcessStep, Fork, Exit, ForkExits, ProcessOnly, Orphans, ProcessTypes
  <2>2. CallerTypes' /\ FileTypes' /\ OutputTypes' /\ ProxyTypes'
    <3>1. ProcessOnly
      BY <1>26 DEF ProcessStep, Fork, Exit, ForkExits
    <3> QED
      BY <3>1 DEF ProcessOnly, CallerTypes, FileTypes, OutputTypes, ProxyTypes
  <2> QED
    BY <2>1, <2>2
<1>27. CASE ClockStep
  <2>1. CallerTypes'
    BY <1>27 DEF ClockStep, DeadlineElapses, TimeoutElapses, CancelRequested, Fires, vars, CallerTypes
  <2>2. FileTypes' /\ ProcessTypes' /\ OutputTypes' /\ ProxyTypes'
    BY <1>27 DEF ClockStep, DeadlineElapses, TimeoutElapses, CancelRequested, Fires, vars, FileTypes, ProcessTypes, OutputTypes, ProxyTypes
  <2> QED
    BY <2>1, <2>2
<1>28. CASE HostStep
  <2>1. FileTypes'
    <3>1. CASE RootPruned \/ RootLinked
      BY <3>1 DEF RootPruned, RootLinked, FileTypes
    <3>2. CASE ProfileReplaced
      BY <3>2 DEF ProfileReplaced, FileTypes
    <3> QED
      BY <1>28, <3>1, <3>2 DEF HostStep
  <2>2. CallerTypes' /\ ProcessTypes' /\ OutputTypes' /\ ProxyTypes'
    <3>1. HostOnly
      BY <1>28 DEF HostStep, RootPruned, RootLinked, ProfileReplaced
    <3> QED
      BY <3>1 DEF HostOnly, CallerTypes, ProcessTypes, OutputTypes, ProxyTypes
  <2> QED
    BY <2>1, <2>2
<1>29. CASE Crash
  <2>1. CallerTypes'
    BY <1>29 DEF Crash, Orphans, CallerTypes
  <2>2. ProcessTypes'
    BY <1>29 DEF Crash, Orphans, ProcessTypes
  <2>3. OutputTypes'
    BY <1>29, Dropped DEF Crash, Orphans, OutputTypes
  <2>4. ProxyTypes'
    BY <1>29 DEF Crash, Orphans, ProxyTypes, Live
  <2>5. FileTypes'
    BY <1>29 DEF Crash, Orphans, FileTypes
  <2> QED
    BY <2>1, <2>2, <2>3, <2>4, <2>5
<1> HIDE DEF Types, caller, files, process, output, proxy
<1>30. \/ Create \/ WaitReady \/ Exec \/ Delete \/ WaitDeleted \/ Executor
      \/ ReaderStep \/ WriteStep \/ ProxyStep \/ ProcessStep \/ ClockStep \/ HostStep \/ Crash
  BY DEF Next, ReaderStep, WriteStep, ProxyStep, ProcessStep, ClockStep, HostStep
<1> QED
  BY <1>1, <1>2, <1>3, <1>4, <1>5, <1>6, <1>7, <1>8, <1>9, <1>10, <1>11, <1>12,
     <1>13, <1>14, <1>15, <1>16, <1>17, <1>18, <1>19, <1>20, <1>21, <1>22,
     <1>23, <1>24, <1>25, <1>26, <1>27, <1>28, <1>29, <1>30 DEF Executor

\* The caller holds what the running operation left it, and mkdir succeeds once.
LEMMA LifecycleStep == Types /\ Lifecycle /\ [Next]_vars => Lifecycle'
<1> SUFFICES ASSUME Types, Lifecycle, [Next]_vars PROVE Lifecycle'
  OBVIOUS
<1> USE DEF Lifecycle, Creating, Preparing, Spawned, CleaningUp, files
<1>0. pc \in DOMAIN OpOf /\ runs \in 0..1
  BY DEF Types, CallerTypes, ProcessTypes
<1>1. CASE Begins
  BY <1>1 DEF Begins
<1>2. CASE CreateMoves
  BY <1>2 DEF CreateMoves
<1>3. CASE ReadyMoves
  BY <1>3 DEF ReadyMoves
<1>4. CASE CleanupMoves
  BY <1>4 DEF CleanupMoves
<1>5. CASE ExecMoves
  BY <1>5 DEF ExecMoves
<1>6. CASE ExecEnds
  BY <1>6 DEF ExecEnds
<1>7. CASE Crash
  BY <1>7, <1>0, Operations DEF Crash, Types, CallerTypes, ProcessTypes
<1>8. CASE Aside
  BY <1>8 DEF Aside
<1> HIDE DEF Lifecycle, Creating, Preparing, Spawned, CleaningUp, files
<1> QED
  BY <1>1, <1>2, <1>3, <1>4, <1>5, <1>6, <1>7, <1>8, StepCases

\* The runner is spawned once.
LEMMA StartsStep == Types /\ Lifecycle /\ StartsOnce /\ [Next]_vars => StartsOnce'
<1> SUFFICES ASSUME Types, Lifecycle, StartsOnce, [Next]_vars PROVE StartsOnce'
  OBVIOUS
<1> USE DEF Lifecycle, StartsOnce, files, process, Creating, Preparing, Spawned, CleaningUp
<1>0. pc \in DOMAIN OpOf /\ runs \in 0..1
  BY DEF Types, CallerTypes, ProcessTypes
<1>1. CASE Begins
  BY <1>1, <1>0 DEF Begins
<1>2. CASE CreateMoves
  BY <1>2, <1>0 DEF CreateMoves
<1>3. CASE ReadyMoves
  BY <1>3, <1>0 DEF ReadyMoves
<1>4. CASE CleanupMoves
  BY <1>4, <1>0 DEF CleanupMoves
<1>5. CASE ExecMoves
  BY <1>5, <1>0 DEF ExecMoves
<1>6. CASE ExecEnds
  BY <1>6, <1>0 DEF ExecEnds
<1>7. CASE Crash
  BY <1>7, <1>0, Operations DEF Crash, Types, CallerTypes, ProcessTypes
<1>8. CASE Aside
  BY <1>8 DEF Aside
<1> HIDE DEF Lifecycle, StartsOnce, files, process, Creating, Preparing, Spawned, CleaningUp
<1> QED
  BY <1>1, <1>2, <1>3, <1>4, <1>5, <1>6, <1>7, <1>8, StepCases

\* The proxy and its connections stay within the execution.
LEMMA ScopeStep == Types /\ StartsOnce /\ ProxyScoped /\ [Next]_vars => ProxyScoped'
<1> SUFFICES ASSUME Types, StartsOnce, ProxyScoped, [Next]_vars PROVE ProxyScoped'
  OBVIOUS
<1> USE DEF StartsOnce, ProxyScoped, process, proxy, Creating, Preparing, Spawned
<1>0. pc \in DOMAIN OpOf /\ runs \in 0..1 /\ conn \in [Conns -> {"none", "accepted", "relaying", "closed", "direct"}]
  BY DEF Types, CallerTypes, ProcessTypes, ProxyTypes
<1>1. CASE Begins
  BY <1>1 DEF Begins, Live
<1>2. CASE CreateMoves
  BY <1>2 DEF CreateMoves, Live
<1>3. CASE ReadyMoves
  BY <1>3 DEF ReadyMoves, Live
<1>4. CASE CleanupMoves
  BY <1>4 DEF CleanupMoves, Live
<1>5. CASE ExecMoves
  <2>1. Live' \subseteq Live
    BY <1>0, <1>5 DEF ExecMoves, Live
  <2>2. (listening' => pc' = "e_spawn" \/ Spawned') /\ (~Spawned' => ~Spawned)
    BY <1>5 DEF ExecMoves
  <2>3. runs' = 0 => runs = 0 /\ UNCHANGED <<proc, kids>>
    BY <1>0, <1>5 DEF ExecMoves, Orphans
  <2> QED
    BY <2>1, <2>2, <2>3
<1>6. CASE ExecEnds
  <2>1. Live' = Live /\ Live = {}
    BY <1>6 DEF ExecEnds, Live
  <2>2. ~listening' /\ UNCHANGED <<proc, kids, runs>>
    BY <1>6 DEF ExecEnds
  <2> QED
    BY <2>1, <2>2
<1>7. CASE Crash
  <2>1. Live' = {}
    BY <1>0, <1>7 DEF Crash, Live
  <2>2. ~listening' /\ runs' = runs /\ (proc = "none" => proc' = "none") /\ (kids = "none" => kids' = "none")
    BY <1>7 DEF Crash, Orphans
  <2> QED
    BY <2>1, <2>2
<1>8. CASE Aside /\ ReaderStep
  <2>1. UNCHANGED <<pc, runs, proc, kids, conn, listening>>
    BY <1>8, ReaderCases DEF ReaderOnly, Aside
  <2> QED
    BY <2>1 DEF Live
<1>9. CASE Aside /\ WriteStep
  BY <1>9 DEF Aside, WriteStep, Write, Live
<1>10. CASE Aside /\ ProxyStep
  <2>1. UNCHANGED <<pc, runs, proc, kids>> /\ (listening' => listening)
    BY <1>10 DEF Aside, ProxyStep, Accept, Serve, Close, Bypass, AcceptFails, ProxyOnly
  <2>2. Spawned \/ Live' \subseteq Live
    <3>1. ASSUME NEW c \in Conns, Accept(c) PROVE Spawned
      BY <1>0, <3>1 DEF Accept
    <3>2. ASSUME NEW c \in Conns, Serve(c) \/ Close(c) \/ Bypass(c) PROVE Live' \subseteq Live
      BY <1>0, <3>2 DEF Serve, Close, Bypass, Live
    <3>3. ASSUME AcceptFails PROVE Live' \subseteq Live
      BY <3>3 DEF AcceptFails, Live
    <3> QED
      BY <1>10, <3>1, <3>2, <3>3 DEF ProxyStep
  <2> QED
    BY <2>1, <2>2
<1>11. CASE Aside /\ ProcessStep
  <2>1. UNCHANGED <<pc, runs, conn, listening>>
    BY <1>11 DEF ProcessStep, Fork, Exit, ForkExits, ProcessOnly, caller
  <2>2. (proc = "none" => proc' = "none") /\ (proc = "none" /\ kids = "none" => kids' = "none")
    BY <1>11 DEF ProcessStep, Fork, Exit, ForkExits, ProcessOnly, Orphans
  <2> QED
    BY <2>1, <2>2 DEF Live
<1>12. CASE Aside /\ ClockStep
  BY <1>12 DEF Aside, ClockStep, DeadlineElapses, TimeoutElapses, CancelRequested, Fires, vars, Live
<1>13. CASE Aside /\ HostStep
  BY <1>13 DEF Aside, HostStep, RootPruned, RootLinked, ProfileReplaced, HostOnly, Live
<1> HIDE DEF StartsOnce, ProxyScoped, process, proxy, Creating, Preparing, Spawned
<1> QED
  BY <1>1, <1>2, <1>3, <1>4, <1>5, <1>6, <1>7, <1>8, <1>9, <1>10, <1>11, <1>12, <1>13, StepCases

\* No byte is lost between the pipe, the counter and the reader.
LEMMA ConservedStep == Types /\ Conserved /\ [Next]_vars => Conserved'
<1> SUFFICES ASSUME Types, Conserved, [Next]_vars PROVE Conserved'
  OBVIOUS
<1> USE DEF Conserved, output
<1>0. wrote \in [Streams -> Nat] /\ MaxBytes \in Nat
  BY Values DEF Types, OutputTypes
<1>1. CASE Begins
  BY <1>1 DEF Begins
<1>2. CASE CreateMoves
  BY <1>2 DEF CreateMoves
<1>3. CASE ReadyMoves
  BY <1>3 DEF ReadyMoves
<1>4. CASE CleanupMoves
  BY <1>4 DEF CleanupMoves
<1>5. CASE ExecMoves
  BY <1>5 DEF ExecMoves
<1>6. CASE ExecEnds
  <2>1. CASE DropOutput
    BY <2>1, Dropped, Values, NativeAssumption
  <2>2. CASE UNCHANGED output
    BY <2>2
  <2> QED
    BY <1>6, <2>1, <2>2 DEF ExecEnds
<1>7. CASE Crash
  BY <1>7, Dropped, Values DEF Crash
<1>8. CASE Aside /\ ReaderStep
  <2>1. PICK s \in Streams :
          /\ (\E n \in Nat : Took(s, n)) \/ Checked(s) \/ Ended(s)
          /\ rd' \in [Streams -> Reader] /\ (\A x \in Streams \ {s} : rd'[x] = rd[x])
          /\ ReaderOnly
    BY <1>8, ReaderCases
  <2>2. /\ pipe[s] \in Nat /\ count[s] \in Nat /\ wrote[s] \in Nat /\ wrote' = wrote
        /\ rd[s].kept \in Nat /\ rd[s].n \in Nat /\ rd[s].over \in BOOLEAN
    BY <2>1, <1>0 DEF ReaderOnly, Types, OutputTypes, Reader
  <2>3. ASSUME NEW x \in Streams \ {s}
        PROVE  pipe'[x] = pipe[x] /\ count'[x] = count[x] /\ rd'[x] = rd[x]
    BY <2>1, <2>3 DEF Took, Checked, Ended, Types, OutputTypes
  <2>4. /\ pipe'[s] + count'[s] = wrote'[s] /\ (rd'[s].st # "load" => rd'[s].n = 0)
        /\ rd'[s].kept + rd'[s].n <= count'[s]
        /\ rd'[s].over \/ rd'[s].kept + rd'[s].n = count'[s]
    <3>1. ASSUME NEW n \in Nat, Took(s, n) 
          PROVE  /\ pipe'[s] + count'[s] = wrote'[s] /\ (rd'[s].st # "load" => rd'[s].n = 0)
                 /\ rd'[s].kept + rd'[s].n <= count'[s]
                 /\ rd'[s].over \/ rd'[s].kept + rd'[s].n = count'[s]
      <4>1. pipe'[s] = pipe[s] - n /\ count'[s] = count[s] + n
        BY <3>1 DEF Took, Types, OutputTypes
      <4>2. rd[s].n = 0 /\ rd'[s].kept = rd[s].kept /\ rd'[s].n = n
        BY <3>1 DEF Took, Reading
      <4> QED
        BY <2>2, <3>1, <4>1, <4>2 DEF Took
    <3>2. CASE Checked(s)
      BY <2>2, <3>2 DEF Checked
    <3>3. CASE Ended(s)
      BY <2>2, <3>3 DEF Ended, Reading
    <3> QED
      BY <2>1, <3>1, <3>2, <3>3
  <2> QED
    BY <2>2, <2>3, <2>4
<1>9. CASE Aside /\ WriteStep
  <2>1. PICK s \in Streams : Write(s)
    BY <1>9 DEF WriteStep
  <2>2. /\ pipe' = [pipe EXCEPT ![s] = pipe[s] + 1] /\ wrote' = [wrote EXCEPT ![s] = wrote[s] + 1]
        /\ UNCHANGED <<count, rd>>
    BY <2>1 DEF Write
  <2>3. /\ pipe \in [Streams -> Nat] /\ count \in [Streams -> Nat]
    BY DEF Types, OutputTypes
  <2>4. \A x \in Streams : pipe'[x] + count'[x] = wrote'[x]
    BY <1>0, <2>2, <2>3
  <2> QED
    BY <2>2, <2>4
<1>10. CASE Aside /\ ProxyStep
  BY <1>10 DEF Aside, ProxyStep, Accept, Serve, Close, Bypass, AcceptFails, ProxyOnly
<1>11. CASE Aside /\ ProcessStep
  BY <1>11 DEF Aside, ProcessStep, Fork, Exit, ForkExits, ProcessOnly, Orphans
<1>12. CASE Aside /\ ClockStep
  BY <1>12 DEF Aside, ClockStep, DeadlineElapses, TimeoutElapses, CancelRequested, Fires, vars
<1>13. CASE Aside /\ HostStep
  BY <1>13 DEF Aside, HostStep, RootPruned, RootLinked, ProfileReplaced, HostOnly
<1> HIDE DEF Conserved, output
<1> QED
  BY <1>1, <1>2, <1>3, <1>4, <1>5, <1>6, <1>7, <1>8, <1>9, <1>10, <1>11, <1>12, <1>13, StepCases

\* The two readers stay within the combined limit.
LEMMA KeptStep == Types /\ Conserved /\ KeptWithinLimits /\ [Next]_vars => KeptWithinLimits'
<1> SUFFICES ASSUME Types, Conserved, KeptWithinLimits, [Next]_vars PROVE KeptWithinLimits'
  OBVIOUS
<1> USE DEF KeptWithinLimits, Conserved, output
<1>0. wrote \in [Streams -> Nat] /\ MaxBytes \in Nat
  BY Values DEF Types, OutputTypes
<1>1. CASE Begins
  BY <1>1 DEF Begins
<1>2. CASE CreateMoves
  BY <1>2 DEF CreateMoves
<1>3. CASE ReadyMoves
  BY <1>3 DEF ReadyMoves
<1>4. CASE CleanupMoves
  BY <1>4 DEF CleanupMoves
<1>5. CASE ExecMoves
  BY <1>5 DEF ExecMoves
<1>6. CASE ExecEnds
  <2>1. CASE DropOutput
    <3>1. rd'["out"].kept = 0 /\ rd'["err"].kept = 0
      BY <2>1, Dropped, Values DEF Streams
    <3> QED
      BY <3>1, NativeAssumption
  <2>2. CASE UNCHANGED output
    BY <2>2
  <2> QED
    BY <1>6, <2>1, <2>2 DEF ExecEnds
<1>7. CASE Crash
  <2>1. rd'["out"].kept = 0 /\ rd'["err"].kept = 0
    BY <1>7, Dropped, Values DEF Crash, Streams
  <2> QED
    BY <2>1, NativeAssumption
<1>8. CASE Aside /\ ReaderStep
  <2>1. PICK s \in Streams :
          /\ (\E n \in Nat : Took(s, n)) \/ Checked(s) \/ Ended(s)
          /\ rd' \in [Streams -> Reader] /\ (\A x \in Streams \ {s} : rd'[x] = rd[x])
          /\ ReaderOnly
    BY <1>8, ReaderCases
  <2>2. /\ pipe[s] \in Nat /\ count[s] \in Nat /\ wrote[s] \in Nat /\ wrote' = wrote
        /\ rd[s].kept \in Nat /\ rd[s].n \in Nat /\ rd[s].over \in BOOLEAN
    BY <2>1, <1>0 DEF ReaderOnly, Types, OutputTypes, Reader
  <2>3. /\ Other(s) \in Streams /\ rd[Other(s)].kept \in Nat /\ rd[Other(s)].n \in Nat
        /\ count[Other(s)] \in Nat /\ rd'[Other(s)] = rd[Other(s)]
    BY <2>1, Values DEF Types, OutputTypes, Reader
  <2>4. rd[Other(s)].kept <= count[Other(s)]
    BY <2>3
  <2>5. ~StaleLoads => rd'[s].kept + rd'[Other(s)].kept <= CombinedBytes
    <3>1. CASE rd'[s].kept = rd[s].kept
      BY <2>1, <2>2, <2>3, <3>1 DEF Other, Streams
    <3>2. CASE Checked(s) /\ rd'[s].kept = rd[s].kept + rd[s].n
                /\ (~StaleLoads => count[s] + count[Other(s)] <= CombinedBytes)
      <4>1. rd[s].kept + rd[s].n <= count[s]
        OBVIOUS
      <4> QED
        BY <2>2, <2>3, <2>4, <3>2, <4>1, NativeAssumption
    <3> QED
      BY <2>1, <3>1, <3>2 DEF Took, Checked, Ended
  <2>6. rd'["out"].kept \in Nat /\ rd'["err"].kept \in Nat
    BY <2>1 DEF Streams, Reader
  <2>7. CASE s = "out"
    BY <2>5, <2>7 DEF Other
  <2>8. CASE s = "err"
    BY <2>5, <2>6, <2>8 DEF Other
  <2> QED
    BY <2>7, <2>8 DEF Streams
<1>9. CASE Aside /\ WriteStep
  BY <1>9 DEF WriteStep, Write
<1>10. CASE Aside /\ ProxyStep
  BY <1>10 DEF Aside, ProxyStep, Accept, Serve, Close, Bypass, AcceptFails, ProxyOnly
<1>11. CASE Aside /\ ProcessStep
  BY <1>11 DEF Aside, ProcessStep, Fork, Exit, ForkExits, ProcessOnly, Orphans
<1>12. CASE Aside /\ ClockStep
  BY <1>12 DEF Aside, ClockStep, DeadlineElapses, TimeoutElapses, CancelRequested, Fires, vars
<1>13. CASE Aside /\ HostStep
  BY <1>13 DEF Aside, HostStep, RootPruned, RootLinked, ProfileReplaced, HostOnly
<1> HIDE DEF KeptWithinLimits, Conserved, output
<1> QED
  BY <1>1, <1>2, <1>3, <1>4, <1>5, <1>6, <1>7, <1>8, <1>9, <1>10, <1>11, <1>12, <1>13, StepCases

\* A reader that ended has read all there was.
LEMMA EndsStep == Types /\ Lifecycle /\ StartsOnce /\ EndsEmpty /\ [Next]_vars => EndsEmpty'
<1> SUFFICES ASSUME Types, Lifecycle, StartsOnce, EndsEmpty, [Next]_vars PROVE EndsEmpty'
  OBVIOUS
<1> USE DEF EndsEmpty, Lifecycle, StartsOnce, Holders, output, process, Creating, Preparing, Spawned, CleaningUp
<1>0. pc \in DOMAIN OpOf
  BY DEF Types, CallerTypes
<1>1. CASE Begins
  BY <1>1 DEF Begins
<1>2. CASE CreateMoves
  BY <1>2 DEF CreateMoves
<1>3. CASE ReadyMoves
  BY <1>3 DEF ReadyMoves
<1>4. CASE CleanupMoves
  BY <1>4 DEF CleanupMoves
<1>5. CASE ExecMoves
  <2>1. CASE pc = "e_spawn"
    BY <1>5, <2>1 DEF ExecMoves
  <2>2. CASE pc # "e_spawn"
    <3>1. Holders' => Holders
      BY <1>5, <2>2 DEF ExecMoves, Orphans, Types, ProcessTypes
    <3>2. UNCHANGED <<verdict, pipe, rd>>
      BY <1>5 DEF ExecMoves
    <3>3. /\ pc' = "e_finish" => \A s \in Streams : rd[s].st = "eof"
          /\ verdict = "none" /\ (~Spawned' => ~Spawned)
      BY <1>5 DEF ExecMoves
    <3> QED
      BY <3>1, <3>2, <3>3
  <2> QED
    BY <2>1, <2>2
<1>6. CASE ExecEnds
  <2>1. CASE DropOutput /\ verdict' # "completed" /\ pc' = "idle"
    <3>1. \A s \in Streams : rd'[s].st = "read" /\ ~rd'[s].over
      BY <2>1, Dropped, Values
    <3> QED
      BY <2>1, <3>1
  <2>2. CASE UNCHANGED output /\ pc = "e_finish" /\ pc' = "idle" /\ verdict' = "completed"
    BY <1>6, <2>2 DEF ExecEnds
  <2> QED
    BY <1>6, <2>1, <2>2 DEF ExecEnds
<1>7. CASE Crash
  <2>1. pc' = "idle" /\ verdict' # "completed"
    BY <1>7, <1>0, Operations DEF Crash
  <2>2. \A s \in Streams : rd'[s].st = "read" /\ ~rd'[s].over
    BY <1>7, Dropped, Values DEF Crash
  <2> QED
    BY <2>1, <2>2
<1>8. CASE Aside /\ ReaderStep
  <2>1. PICK s \in Streams :
          /\ (\E n \in Nat : Took(s, n)) \/ Checked(s) \/ Ended(s)
          /\ rd' \in [Streams -> Reader] /\ (\A x \in Streams \ {s} : rd'[x] = rd[x])
          /\ ReaderOnly
    BY <1>8, ReaderCases
  <2>2. UNCHANGED <<pc, verdict, proc, kids>>
    BY <2>1 DEF ReaderOnly, caller
  <2>3. ASSUME NEW x \in Streams \ {s} PROVE pipe'[x] = pipe[x] /\ rd'[x] = rd[x]
    BY <2>1, <2>3 DEF Took, Checked, Ended, Types, OutputTypes
  <2>4. pc \in {"e_wait", "e_kill", "e_join"}
    BY <1>8 DEF ReaderStep, Read, Check, EndOfPipe, ReadFails, Reading
  <2>5. rd'[s].st = "eof" /\ ~rd'[s].broken => pipe'[s] = 0 /\ ~Holders'
    BY <2>1, <2>2 DEF Took, Checked, Ended
  <2> QED
    BY <2>2, <2>3, <2>4, <2>5
<1>9. CASE Aside /\ WriteStep
  <2>1. PICK s \in Streams : Write(s)
    BY <1>9 DEF WriteStep
  <2>2. UNCHANGED <<pc, verdict, proc, kids, rd>> /\ (proc = "running" \/ kids = "holding")
    BY <2>1 DEF Write, caller
  <2> QED
    BY <2>2
<1>10. CASE Aside /\ ProxyStep
  BY <1>10 DEF Aside, ProxyStep, Accept, Serve, Close, Bypass, AcceptFails, ProxyOnly
<1>11. CASE Aside /\ ProcessStep
  <2>1. UNCHANGED <<pc, verdict, pipe, rd>>
    BY <1>11 DEF Aside, ProcessStep, Fork, Exit, ForkExits, ProcessOnly
  <2>2. Holders' => Holders
    BY <1>11 DEF ProcessStep, Fork, Exit, ForkExits, Orphans, Types, ProcessTypes
  <2> QED
    BY <2>1, <2>2
<1>12. CASE Aside /\ ClockStep
  BY <1>12 DEF Aside, ClockStep, DeadlineElapses, TimeoutElapses, CancelRequested, Fires, vars
<1>13. CASE Aside /\ HostStep
  BY <1>13 DEF Aside, HostStep, RootPruned, RootLinked, ProfileReplaced, HostOnly
<1> HIDE DEF EndsEmpty, Lifecycle, StartsOnce, Holders, output, process, Creating, Preparing, Spawned, CleaningUp
<1> QED
  BY <1>1, <1>2, <1>3, <1>4, <1>5, <1>6, <1>7, <1>8, <1>9, <1>10, <1>11, <1>12, <1>13, StepCases

\* The sets the proxy counts are finite.
LEMMA ProxySets ==
    ASSUME Types
    PROVE  /\ IsFiniteSet(Live) /\ Cardinality(Live) \in Nat
           /\ IsFiniteSet(logged) /\ Cardinality(logged) \in Nat
           /\ MaxConcurrent \in Nat /\ MaxRetained \in Nat
<1>1. IsFiniteSet(Live) /\ IsFiniteSet(logged)
  BY NativeAssumption, FS_Subset DEF Live, Types, ProxyTypes
<1> QED
  BY <1>1, FS_CardinalityType, NativeAssumption

\* Fewer live connections are no more than there were.
LEMMA LiveShrinks ==
    ASSUME Types, Live' \subseteq Live, Cardinality(Live) <= MaxConcurrent
    PROVE  Cardinality(Live') <= MaxConcurrent
<1>1. Cardinality(Live') <= Cardinality(Live) /\ Cardinality(Live') \in Nat
  BY ProxySets, FS_Subset, FS_CardinalityType
<1> QED
  BY <1>1, ProxySets

\* A connection joins the live ones only where there is room.
LEMMA LiveGrows ==
    ASSUME Types, NEW c, Live' \subseteq Live \cup {c}, Cardinality(Live) < MaxConcurrent
    PROVE  Cardinality(Live') <= MaxConcurrent
<1>1. /\ IsFiniteSet(Live \cup {c})
      /\ Cardinality(Live \cup {c}) \in {Cardinality(Live), Cardinality(Live) + 1}
  BY ProxySets, FS_AddElement
<1>2. Cardinality(Live') <= Cardinality(Live \cup {c}) /\ Cardinality(Live') \in Nat
  BY <1>1, FS_Subset, FS_CardinalityType
<1> QED
  BY <1>1, <1>2, ProxySets

\* The proxy keeps a decision while there is room, before it relays.
LEMMA ServeKeeps ==
    ASSUME Types, Cardinality(logged) <= MaxRetained, Recorded,
           NEW c \in Conns, Serve(c)
    PROVE  Cardinality(logged') <= MaxRetained /\ Recorded'
<1>1. relayed' \subseteq relayed \cup {c}
  BY DEF Serve
<1>2. CASE Cardinality(logged) < MaxRetained
  <2>1. logged' = logged \cup {c}
    BY <1>2 DEF Serve
  <2>2. Cardinality(logged') \in {Cardinality(logged), Cardinality(logged) + 1}
    BY <2>1, ProxySets, FS_AddElement
  <2>3. Cardinality(logged) # MaxRetained
    BY <1>2, ProxySets
  <2>4. relayed \subseteq logged
    BY <2>3 DEF Recorded
  <2>5. relayed' \subseteq logged'
    BY <1>1, <2>1, <2>4
  <2>6. Cardinality(logged') <= MaxRetained
    BY <1>2, <2>2, ProxySets
  <2> QED
    BY <1>1, <2>5, <2>6 DEF Recorded
<1>3. CASE ~(Cardinality(logged) < MaxRetained)
  <2>1. logged' = logged
    BY <1>3 DEF Serve
  <2>2. Cardinality(logged) = MaxRetained
    BY <1>3, ProxySets
  <2> QED
    BY <1>1, <2>1, <2>2, ProxySets DEF Recorded
<1> QED
  BY <1>2, <1>3

\* The proxy stays within its limits and records what it relays.
LEMMA ProxyKeeps == Types /\ Counted /\ Recorded /\ [Next]_vars => Counted' /\ Recorded'
<1> SUFFICES ASSUME Types, Counted, Recorded, [Next]_vars PROVE Counted' /\ Recorded'
  OBVIOUS
<1> USE DEF Counted, proxy
<1>1. CASE Begins
  BY <1>1 DEF Begins, Live, Recorded
<1>2. CASE CreateMoves
  BY <1>2 DEF CreateMoves, Live, Recorded
<1>3. CASE ReadyMoves
  BY <1>3 DEF ReadyMoves, Live, Recorded
<1>4. CASE CleanupMoves
  BY <1>4 DEF CleanupMoves, Live, Recorded
<1>5. CASE ExecMoves
  <2>1. UNCHANGED <<logged, relayed>> /\ Live' \subseteq Live
    BY <1>5 DEF ExecMoves, Types, ProxyTypes, Live
  <2> QED
    BY <2>1, LiveShrinks DEF Recorded
<1>6. CASE ExecEnds
  BY <1>6 DEF ExecEnds, Live, Recorded
<1>7. CASE Crash
  <2>1. UNCHANGED <<logged, relayed>> /\ Live' \subseteq Live
    BY <1>7 DEF Crash, Types, ProxyTypes, Live
  <2> QED
    BY <2>1, LiveShrinks DEF Recorded
<1>8. CASE Aside /\ ReaderStep
  <2>1. UNCHANGED <<conn, logged, relayed>>
    BY <1>8, ReaderCases DEF ReaderOnly
  <2> QED
    BY <2>1 DEF Live, Recorded
<1>9. CASE Aside /\ WriteStep
  BY <1>9 DEF Aside, WriteStep, Write, Live, Recorded
<1>10. CASE Aside /\ ProxyStep
  <2>1. ASSUME NEW c \in Conns, Accept(c) PROVE Counted' /\ Recorded'
    <3>1. UNCHANGED <<logged, relayed>>
      BY <2>1 DEF Accept
    <3>2. CASE Cardinality(Live) < MaxConcurrent
      <4>1. Live' \subseteq Live \cup {c}
        BY <2>1, <3>2 DEF Accept, Live, Types, ProxyTypes
      <4> QED
        BY <3>1, <3>2, <4>1, LiveGrows DEF Recorded
    <3>3. CASE ~(Cardinality(Live) < MaxConcurrent)
      <4>1. Live' \subseteq Live
        BY <2>1, <3>3 DEF Accept, Live, Types, ProxyTypes
      <4> QED
        BY <3>1, <4>1, LiveShrinks DEF Recorded
    <3> QED
      BY <3>2, <3>3
  <2>2. ASSUME NEW c \in Conns, Serve(c) PROVE Counted' /\ Recorded'
    <3>1. Live' \subseteq Live
      BY <2>2 DEF Serve, Live, Types, ProxyTypes
    <3> QED
      BY <2>2, <3>1, LiveShrinks, ServeKeeps
  <2>3. ASSUME NEW c \in Conns, Close(c) PROVE Counted' /\ Recorded'
    <3>1. Live' \subseteq Live /\ UNCHANGED <<logged, relayed>>
      BY <2>3 DEF Close, Live, Types, ProxyTypes
    <3> QED
      BY <3>1, LiveShrinks DEF Recorded
  <2>4. CASE AcceptFails
    BY <2>4 DEF AcceptFails, Live, Recorded
  <2>5. ASSUME NEW c \in Conns, Bypass(c) PROVE Counted' /\ Recorded'
    <3>1. Live' \subseteq Live /\ UNCHANGED <<logged, relayed>>
      BY <2>5 DEF Bypass, Live, Types, ProxyTypes
    <3> QED
      BY <3>1, LiveShrinks DEF Recorded
  <2> QED
    BY <1>10, <2>1, <2>2, <2>3, <2>4, <2>5 DEF ProxyStep
<1>11. CASE Aside /\ ProcessStep
  BY <1>11 DEF Aside, ProcessStep, Fork, Exit, ForkExits, ProcessOnly, Orphans, Live, Recorded
<1>12. CASE Aside /\ ClockStep
  BY <1>12 DEF Aside, ClockStep, DeadlineElapses, TimeoutElapses, CancelRequested, Fires, vars, Live, Recorded
<1>13. CASE Aside /\ HostStep
  BY <1>13 DEF Aside, HostStep, RootPruned, RootLinked, ProfileReplaced, HostOnly, Live, Recorded
<1> HIDE DEF Counted, proxy
<1> QED
  BY <1>1, <1>2, <1>3, <1>4, <1>5, <1>6, <1>7, <1>8, <1>9, <1>10, <1>11, <1>12, <1>13, StepCases

-----------------------------------------------------------------------------
\* The inductive invariant holds of the initial states ...
LEMMA InvInit == Init => Inv
<1> SUFFICES ASSUME Init PROVE Inv
  OBVIOUS
<1>1. Live = {} /\ logged = {}
  BY DEF Init, Live
<1>2. Cardinality(Live) = 0 /\ Cardinality(logged) = 0
  BY <1>1, FS_EmptySet
<1>3. Counted /\ Recorded
  BY <1>1, <1>2, NativeAssumption DEF Init, Counted, Recorded
<1>4. CallerTypes /\ FileTypes
  BY Steps DEF Init, CallerTypes, FileTypes
<1>5. ProcessTypes /\ OutputTypes /\ ProxyTypes
  <2>1. ProcessTypes
    BY DEF Init, ProcessTypes
  <2>2. OutputTypes
    BY Values DEF Init, OutputTypes
  <2>3. ProxyTypes
    BY DEF Init, ProxyTypes
  <2> QED
    BY <2>1, <2>2, <2>3
<1>6. Lifecycle /\ StartsOnce /\ ProxyScoped
  BY <1>1 DEF Init, Lifecycle, StartsOnce, ProxyScoped,
              Creating, Preparing, Spawned, CleaningUp
<1>7. \A s \in Streams : rd[s] = NewReader /\ pipe[s] = 0 /\ count[s] = 0 /\ wrote[s] = 0
  BY Values DEF Init
<1>8. Conserved /\ EndsEmpty
  BY <1>7, Values DEF Init, Conserved, EndsEmpty, Spawned
<1>9. KeptWithinLimits
  BY <1>7, Values, NativeAssumption DEF KeptWithinLimits, Streams
<1> QED
  BY <1>3, <1>4, <1>5, <1>6, <1>8, <1>9 DEF Inv, Types

\* ... and every step of the runtime, its readers, the runner and the command keeps it.
LEMMA InvStep == Inv /\ [Next]_vars => Inv'
BY TypesStep, LifecycleStep, StartsStep, ScopeStep, ConservedStep, KeptStep,
   EndsStep, ProxyKeeps DEF Inv

\* Every behaviour of the native runtime keeps the inductive invariant.
THEOREM Invariance == Spec => []Inv
BY InvInit, InvStep, PTL DEF Spec

(* TypeOK holds for every instance: in particular the bytes in the pipes   *)
(* and counters are those written, no more than MAX_CONCURRENT_CONNECTIONS *)
(* are served at once and no more than MAX_RETAINED_DECISIONS are kept.    *)
THEOREM TypeCorrect == Spec => []TypeOK
<1>1. Inv => TypeOK
  <2> SUFFICES ASSUME Inv PROVE TypeOK
    OBVIOUS
  <2>1. /\ pipe \in [Streams -> Nat] /\ count \in [Streams -> Nat]
        /\ wrote \in [Streams -> 0..MaxBytes] /\ MaxBytes \in Nat
    BY Values DEF Inv, Types, OutputTypes
  <2>2. \A s \in Streams : pipe[s] + count[s] = wrote[s]
    BY DEF Inv, Conserved
  <2>3. \A s \in Streams : pipe[s] \in 0..MaxBytes /\ count[s] \in 0..MaxBytes
    BY <2>1, <2>2
  <2>4. pipe \in [Streams -> 0..MaxBytes] /\ count \in [Streams -> 0..MaxBytes]
    BY <2>1, <2>3
  <2> QED
    BY <2>1, <2>4 DEF Inv, Types, CallerTypes, FileTypes, ProcessTypes, OutputTypes,
                      ProxyTypes, Counted, TypeOK
<1> QED
  BY <1>1, Invariance, PTL

(* The readers of one execution never keep more than the combined limit    *)
(* where loads are not stale, and a completed execution returns every byte *)
(* that was written (read_bounded, exec), for any limits and any sizes.    *)
THEOREM OutputStaysSound == Spec => []OutputIsSound
<1>1. Inv => OutputIsSound
  <2> SUFFICES ASSUME Inv, verdict = "completed", NEW s \in Streams, ~rd[s].broken
               PROVE  rd[s].kept = wrote[s]
    BY DEF Inv, OutputIsSound, CompletedIsWhole
  <2>1. rd[s].st = "eof" /\ ~rd[s].over /\ pipe[s] = 0
    BY DEF Inv, EndsEmpty
  <2>2. rd[s].kept + rd[s].n = count[s] /\ rd[s].n = 0 /\ pipe[s] + count[s] = wrote[s]
    BY <2>1 DEF Inv, Conserved
  <2>3. rd[s].kept \in Nat /\ count[s] \in Nat
    BY DEF Inv, Types, OutputTypes, Reader
  <2> QED
    BY <2>1, <2>2, <2>3
<1> QED
  BY <1>1, Invariance, PTL

(* When exec has returned, its evidence is final: the accept loop is over, *)
(* no connection of it is served any more, and each that was relayed was   *)
(* recorded unless the list was full (serve, finish), for either runner.   *)
THEOREM EvidenceStaysFinal == Spec => []EvidenceIsFinal
<1>1. Inv => EvidenceIsFinal
  <2> SUFFICES ASSUME Inv, OpOf[pc] # "exec" PROVE ~listening /\ Live = {} /\ Recorded
    BY DEF EvidenceIsFinal, Recorded
  <2>1. pc # "e_spawn" /\ ~Spawned
    BY Operations DEF Inv, Types, CallerTypes, Spawned
  <2> QED
    BY <2>1 DEF Inv, ProxyScoped
<1> QED
  BY <1>1, Invariance, PTL

-----------------------------------------------------------------------------
(* The refinement *)

CStep == [Contract!Next]_(Contract!contractVars)

\* The sandbox of the contract: the directory our mkdir made.
Owned == IF ~made THEN "never" ELSE IF ws = "own" THEN "live" ELSE "gone"

\* The start of an operation is the call of the contract.
LEMMA BeginsMaps == ASSUME Types, Types', Begins PROVE CStep
<1>1. pc \in DOMAIN OpOf /\ pc' \in DOMAIN OpOf
  BY DEF Types, CallerTypes
<1>2. Owned' = Owned /\ UNCHANGED <<runs, verdict, absent>>
  BY DEF Begins, Owned, files, process
<1>3. OpOf[pc] = "idle"
  BY <1>1, Operations DEF Begins
<1>4. \E o \in Contract!Operation : Contract!Call(o)
  <2>1. CASE handle = "none" /\ pc' = "c_check" /\ handle' = handle
    <3>1. OpOf[pc'] = "create"
      BY <1>1, <2>1, Operations
    <3>2. Contract!Call("create")
      BY <1>2, <1>3, <2>1, <3>1 DEF Contract!Call, Contract!Admits, Owned
    <3> QED
      BY <3>2 DEF Contract!Operation
  <2>2. CASE handle = "created" /\ pc' = "r_check" /\ handle' = "spent"
    <3>1. OpOf[pc'] = "wait_ready"
      BY <1>1, <2>2, Operations
    <3>2. Contract!Call("wait_ready")
      BY <1>2, <1>3, <2>2, <3>1 DEF Contract!Call, Contract!Admits, Owned
    <3> QED
      BY <3>2 DEF Contract!Operation
  <2>3. CASE handle = "ready" /\ pc' = "e_check" /\ handle' = "spent"
    <3>1. OpOf[pc'] = "exec"
      BY <1>1, <2>3, Operations
    <3>2. Contract!Call("exec")
      BY <1>2, <1>3, <2>3, <3>1 DEF Contract!Call, Contract!Admits, Owned
    <3> QED
      BY <3>2 DEF Contract!Operation
  <2>4. CASE /\ handle \in {"created", "ready", "spent", "possible"}
             /\ pc' \in {"d_remove", "w_check"} /\ handle' = handle
    <3>1. OpOf[pc'] \in {"delete", "wait_deleted"}
      BY <1>1, <2>4, Operations
    <3>2. Contract!Call(OpOf[pc'])
      BY <1>2, <1>3, <2>4, <3>1 DEF Contract!Call, Contract!Admits, Contract!HasTarget, Owned
    <3> QED
      BY <3>1, <3>2 DEF Contract!Operation
  <2> QED
    BY <2>1, <2>2, <2>3, <2>4 DEF Begins
<1> QED
  BY <1>4 DEF CStep, Contract!Next

\* A workspace that is removed, by us or by the host: ours is lost, or nothing changes.
LEMMA RemovalMaps ==
    ASSUME UNCHANGED <<handle, made, runs, verdict, absent>>, OpOf[pc'] = OpOf[pc],
           ws' \in {ws, "absent"}
    PROVE  CStep
<1>1. CASE Owned' = Owned
  BY <1>1 DEF CStep, Contract!contractVars, Owned
<1>2. CASE Owned' # Owned
  <2>1. Owned = "live" /\ Owned' = "gone"
    BY <1>2 DEF Owned
  <2>2. Contract!Lose
    BY <2>1 DEF Contract!Lose, Owned
  <2> QED
    BY <2>2 DEF CStep, Contract!Next
<1> QED
  BY <1>1, <1>2

\* A create returns with a handle that is true of what was made.
LEMMA CreateReturnMaps ==
    ASSUME UNCHANGED <<ws, made, runs, verdict, absent>>, OpOf[pc] = "create", OpOf[pc'] = "idle",
           handle' \in {"created", "possible", "not_created", "conflict"},
           handle' \in {"not_created", "conflict"} => ~made, handle' = "created" => made
    PROVE  CStep
<1>1. Owned' = Owned
  BY DEF Owned
<1>2. /\ handle' \in {"not_created", "conflict"} => Owned = "never"
      /\ handle' = "created" => Owned # "never"
  BY DEF Owned
<1>3. Contract!CreateReturns(handle')
  BY <1>1, <1>2 DEF Contract!CreateReturns, Owned
<1> QED
  BY <1>3 DEF CStep, Contract!Next

\* An execution returns with a verdict that is true of what was spawned.
LEMMA ExecReturnMaps ==
    ASSUME UNCHANGED <<handle, ws, made, runs, absent>>, OpOf[pc] = "exec", OpOf[pc'] = "idle",
           verdict' \in {"completed", "not_dispatched", "indeterminate"},
           verdict' = "not_dispatched" => runs = 0, verdict' = "completed" => runs = 1
    PROVE  CStep
<1>1. Owned' = Owned
  BY DEF Owned
<1>2. Contract!ExecReturns(verdict')
  BY <1>1 DEF Contract!ExecReturns, Owned
<1> QED
  BY <1>2 DEF CStep, Contract!Next, Contract!Verdict

\* The steps of create: it ends with the outcome the contract allows for what was made.
LEMMA CreateMaps == ASSUME Types, Types', Lifecycle, CreateMoves PROVE CStep
<1>1. pc \in DOMAIN OpOf /\ pc' \in DOMAIN OpOf
  BY DEF Types, CallerTypes
<1>2. OpOf[pc] = "create" /\ handle = "none" /\ UNCHANGED <<runs, verdict, absent>>
  BY <1>1, Operations DEF CreateMoves, Creating, Lifecycle, process
<1>3. CASE pc' \in {"c_root", "c_mkdir"} /\ UNCHANGED <<handle, ws, made>>
  <2>1. OpOf[pc'] = OpOf[pc]
    BY <1>1, <1>2, <1>3, Operations
  <2> QED
    BY <1>2, <1>3, <2>1, RemovalMaps
<1>4. CASE pc = "c_mkdir" /\ pc' = "c_chmod" /\ handle' = handle /\ ws' = "own" /\ made' = TRUE
  <2>1. OpOf[pc'] = "create"
    BY <1>1, <1>4, Operations
  <2>2. Owned = "never" /\ Owned' = "live"
    BY <1>2, <1>4 DEF Lifecycle, Owned
  <2>3. Contract!Commit
    BY <1>2, <1>4, <2>1, <2>2 DEF Contract!Commit, Owned
  <2> QED
    BY <2>3 DEF CStep, Contract!Next
<1>5. CASE /\ pc' = "idle" /\ UNCHANGED <<ws, made>>
           /\ \/ pc # "c_chmod" /\ handle' \in {"not_created", "conflict"}
              \/ pc = "c_chmod" /\ handle' \in {"created", "possible"}
  <2>1. OpOf[pc'] = "idle"
    BY <1>1, <1>5, Operations
  <2>2. made <=> pc = "c_chmod"
    BY <1>2 DEF Lifecycle, Types, FileTypes
  <2> QED
    BY <1>2, <1>5, <2>1, <2>2, CreateReturnMaps
<1> QED
  BY <1>3, <1>4, <1>5 DEF CreateMoves

\* The steps of wait_ready change nothing the contract is about.
LEMMA ReadyMaps == ASSUME Types, Types', ReadyMoves PROVE CStep
<1>1. pc \in DOMAIN OpOf /\ pc' \in DOMAIN OpOf
  BY DEF Types, CallerTypes
<1>2. OpOf[pc] = "wait_ready" /\ OpOf[pc'] = "idle"
  BY <1>1, Operations DEF ReadyMoves
<1>3. Contract!ReadyReturns(handle')
  BY <1>2 DEF ReadyMoves, Contract!ReadyReturns, files, process
<1> QED
  BY <1>3 DEF ReadyMoves, CStep, Contract!Next

\* The steps of cleanup: it reports absence only of what is gone.
LEMMA CleanupMaps == ASSUME Types, Types', Lifecycle, CleanupMoves PROVE CStep
<1>1. pc \in DOMAIN OpOf /\ pc' \in DOMAIN OpOf
  BY DEF Types, CallerTypes
<1>2. UNCHANGED <<handle, made, runs, verdict>>
  BY DEF CleanupMoves, process
<1>3. CASE pc = "d_remove" /\ pc' = "d_done" /\ ws' \in {ws, "absent"} /\ UNCHANGED absent
  <2>1. OpOf[pc'] = OpOf[pc]
    BY <1>1, <1>3, Operations
  <2> QED
    BY <1>2, <1>3, <2>1, RemovalMaps
<1>4. CASE pc = "d_done" /\ pc' = "idle" /\ UNCHANGED <<ws, absent>>
  <2>1. OpOf[pc] = "delete" /\ OpOf[pc'] = "idle"
    BY <1>1, <1>4, Operations
  <2>2. Contract!DeleteReturns
    BY <1>2, <1>4, <2>1 DEF Contract!DeleteReturns
  <2> QED
    BY <2>2 DEF CStep, Contract!Next
<1>5. CASE /\ pc = "w_check" /\ pc' = "idle" /\ UNCHANGED ws
           /\ \/ absent' = "seen" <=> absent = "seen"
              \/ absent' = "seen" /\ ws = "absent"
  <2>1. OpOf[pc] = "wait_deleted" /\ OpOf[pc'] = "idle" /\ Owned' = Owned
    BY <1>1, <1>2, <1>5, Operations DEF Owned
  <2>2. CASE absent' = "seen" <=> absent = "seen"
    <3>1. Contract!WaitDeletedReturns(FALSE)
      BY <1>1, <1>2, <2>1, <2>2 DEF Contract!WaitDeletedReturns, Owned
    <3> QED
      BY <3>1 DEF CStep, Contract!Next
  <2>3. CASE absent' = "seen" /\ ws = "absent"
    <3>1. handle # "possible" => Owned = "gone"
      BY <1>5, <2>3 DEF Lifecycle, CleaningUp, Owned
    <3>2. Contract!WaitDeletedReturns(TRUE)
      BY <1>1, <1>2, <2>1, <2>3, <3>1 DEF Contract!WaitDeletedReturns, Owned
    <3> QED
      BY <3>2 DEF CStep, Contract!Next
  <2> QED
    BY <1>5, <2>2, <2>3
<1> QED
  BY <1>3, <1>4, <1>5 DEF CleanupMoves

\* The steps of exec up to its verdict: the command starts once at most.
LEMMA ExecMaps == ASSUME Types, Types', Lifecycle, StartsOnce, ExecMoves PROVE CStep
<1>1. pc \in DOMAIN OpOf /\ pc' \in DOMAIN OpOf /\ runs \in 0..1
  BY DEF Types, CallerTypes, ProcessTypes
<1>2. OpOf[pc] = "exec" /\ OpOf[pc'] = "exec" /\ UNCHANGED <<handle, verdict, absent, ws, made>>
  BY <1>1, Operations DEF ExecMoves
<1>3. CASE pc = "e_spawn"
  <2>1. runs = 0 /\ runs' = runs + 1 /\ made
    BY <1>1, <1>3 DEF StartsOnce, Preparing, Spawned, Lifecycle, ExecMoves
  <2>2. Owned # "never" /\ Owned' = Owned
    BY <1>2, <2>1 DEF Owned
  <2>3. Contract!Run
    BY <1>2, <2>1, <2>2 DEF Contract!Run, Owned
  <2> QED
    BY <2>3 DEF CStep, Contract!Next
<1>4. CASE pc # "e_spawn"
  <2>1. runs' = runs
    BY <1>4 DEF ExecMoves, process
  <2> QED
    BY <1>2, <2>1, RemovalMaps
<1> QED
  BY <1>3, <1>4

\* The verdict of exec fits what was started.
LEMMA ExecEndsMaps == ASSUME Types, Types', Lifecycle, StartsOnce, ExecEnds PROVE CStep
<1>1. pc \in DOMAIN OpOf /\ pc' \in DOMAIN OpOf
  BY DEF Types, CallerTypes
<1>2. UNCHANGED <<handle, ws, made, runs, absent>> /\ OpOf[pc] = "exec" /\ OpOf[pc'] = "idle"
  BY <1>1, Operations DEF ExecEnds, Preparing, files, process
<1>3. /\ verdict' \in {"completed", "not_dispatched", "indeterminate"}
      /\ verdict' = "not_dispatched" => Preparing
      /\ verdict' = "completed" => pc = "e_finish"
  BY DEF ExecEnds
<1>4. /\ verdict' = "not_dispatched" => runs = 0
      /\ verdict' = "completed" => runs = 1
  BY <1>3 DEF StartsOnce, Preparing, Spawned
<1> QED
  BY <1>2, <1>3, <1>4, ExecReturnMaps

\* The end of the service process leaves its operation in doubt, as the contract has it.
LEMMA CrashMaps == ASSUME Types, Types', Lifecycle, Crash PROVE CStep
<1>1. pc \in DOMAIN OpOf /\ pc' \in DOMAIN OpOf
  BY DEF Types, CallerTypes
<1>2. OpOf[pc'] = "idle" /\ UNCHANGED <<ws, made, runs, absent>>
  BY <1>1, Operations DEF Crash, files
<1>3. CASE OpOf[pc] = "create"
  BY <1>2, <1>3, CreateReturnMaps DEF Crash
<1>4. CASE OpOf[pc] = "wait_ready"
  <2>1. handle' = "spent" /\ verdict' = verdict
    BY <1>1, <1>4, Operations DEF Crash, Lifecycle
  <2>2. Contract!ReadyReturns("spent")
    BY <1>2, <1>4, <2>1 DEF Contract!ReadyReturns
  <2> QED
    BY <2>2 DEF CStep, Contract!Next
<1>5. CASE OpOf[pc] = "exec"
  BY <1>2, <1>5, ExecReturnMaps DEF Crash
<1> QED
  BY <1>3, <1>4, <1>5 DEF Crash

\* Every step of the runtime and its host is a step of the contract or leaves it alone.
LEMMA StepMaps == Inv /\ Inv' /\ [Next]_vars => CStep
<1> SUFFICES ASSUME Inv, Inv', [Next]_vars PROVE CStep
  OBVIOUS
<1>1. Types /\ Types' /\ Lifecycle /\ StartsOnce
  BY DEF Inv
<1>2. CASE Aside
  BY <1>2, RemovalMaps DEF Aside
<1> QED
  BY <1>1, <1>2, StepCases, BeginsMaps, CreateMaps, ReadyMaps, CleanupMaps, ExecMaps,
     ExecEndsMaps, CrashMaps

(* The native runtime implements the contract of the SandboxRuntime trait  *)
(* for every limit and both kinds of runner, although the host prunes the  *)
(* root, provisioning replaces the profile and the service crashes.  The   *)
(* absence it confirms is one a lookup found: an Ok that wait_deleted gives *)
(* because its stat failed confirms nothing.                               *)
THEOREM NativeImplementsContract == Spec => ImplementsContract
<1>1. Init => Contract!Init
  <2> SUFFICES ASSUME Init PROVE Contract!Init
    OBVIOUS
  <2>1. OpOf[pc] = "idle"
    BY DEF Init, OpOf
  <2> QED
    BY <2>1 DEF Init, Contract!Init
<1>2. Inv /\ Inv' /\ [Next]_vars => [Contract!Next]_(Contract!contractVars)
  BY StepMaps DEF CStep
<1> QED
  BY <1>1, <1>2, Invariance, PTL DEF Spec, ImplementsContract, Contract!Spec
=============================================================================
