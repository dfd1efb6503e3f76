----------------------------- MODULE ServerProofs -----------------------------
(***************************************************************************)
(* The safety invariants of Server, for any set of connections and         *)
(* operation identifiers and any number of permits.  They are inductive    *)
(* together with Shape, which says what a connection knows at each place,  *)
(* and Phase, which ties the drain flag and the open connections to the    *)
(* place of run.                                                           *)
(***************************************************************************)
EXTENDS Server, FiniteSetTheorems, TLAPS

-----------------------------------------------------------------------------
\* A connection that handles a request has one.
Shape == \A c \in Conn : conn[c] \in HandlingPc => req[c] \in Request

\* The drain flag is set before the server joins its tasks, and a process that
\* ended has no connection.
Phase ==
    /\ run \in {"draining", "locking", "cancelling"} => draining
    /\ run \in {"stopped", "failed"} => \A c \in Conn : conn[c] = "closed"

\* Permits, counted with the open connections.
Permits == IsFiniteSet(Open) /\ PermitsAreKept

\* TypeOK without the bound on permits, which Permits gives.
Types ==
    /\ run \in {"serving", "draining", "locking", "cancelling", "stopped", "failed"}
    /\ shutdown \in BOOLEAN
    /\ draining \in BOOLEAN
    /\ permits \in Nat
    /\ conn \in [Conn -> {"closed", "tls", "read", "write"} \cup HandlingPc]
    /\ client \in [Conn -> {"present", "leaving", "seen"}]
    /\ req \in [Conn -> Request \cup {NoReq}]
    /\ active \in [OperationId -> Conn \cup {NoConn, Orphan}]
    /\ cancelled \in SUBSET Conn

\* The lock and its queue.
LockTypes ==
    /\ queue \in Seq(Waiter)
    /\ lock \in [Conn -> {"idle", "waiting", "inside"}]

Inv == Types /\ LockTypes /\ Shape /\ Phase /\ Permits /\ OneOperationPerId /\ NoWorkOutlivesDrain

-----------------------------------------------------------------------------
\* Whoever asks for the lock is queued last, whoever used it was first.
LEMMA LockStep == LockTypes /\ [Next]_vars => LockTypes'
<1> SUFFICES ASSUME LockTypes, [Next]_vars PROVE LockTypes'
  OBVIOUS
<1>1. CASE UNCHANGED locks
  BY <1>1 DEF locks, LockTypes
<1>2. CASE DropAll
  BY <1>2 DEF DropAll, LockTypes
<1>3. ASSUME NEW w \in Waiter, queue' = Append(queue, w),
             lock' = lock \/ \E c \in Conn, l \in {"waiting", "inside"} :
                                  lock' = [lock EXCEPT ![c] = l]
      PROVE  LockTypes'
  BY <1>3 DEF LockTypes
<1>4. ASSUME queue # <<>>, queue' = Tail(queue),
             lock' = lock \/ \E c \in Conn : lock' = [lock EXCEPT ![c] = "idle"]
      PROVE  LockTypes'
  BY <1>4 DEF LockTypes
<1>5. CASE DrainTimeout
  BY <1>3, <1>5 DEF DrainTimeout, Waiter
<1>6. CASE cancel_all_operations
  BY <1>4, <1>6 DEF cancel_all_operations, HasLock
<1>7. ASSUME NEW c \in Conn, AskLock(c) PROVE LockTypes'
  <2>1. <<c, "handle">> \in Waiter
    BY DEF Waiter
  <2> QED BY <1>3, <1>7, <2>1 DEF AskLock
<1>8. ASSUME NEW c \in Conn, ClientLeaves(c) PROVE LockTypes'
  <2>1. <<c, "leave">> \in Waiter
    BY DEF Waiter
  <2> QED BY <1>3, <1>8, <2>1 DEF ClientLeaves
<1>9. ASSUME NEW c \in Conn, CancelOnLeave(c) PROVE LockTypes'
  BY <1>4, <1>9 DEF CancelOnLeave, HasLock
<1>10. ASSUME NEW c \in Conn, WithLock(c) PROVE LockTypes'
  BY <1>4, <1>10 DEF WithLock, HasLock
<1>11. CASE \E c \in Conn : Step(c)
  BY <1>1, <1>7, <1>9, <1>10, <1>11
  DEF Step, RefuseEnvelope, handle_cancel, Register, RegisterTwice, dispatch, begin_drain,
      drain_status, Unregister
<1>12. CASE \E c \in Conn : Accept(c) \/ OutsideStep(c)
  BY <1>1, <1>8, <1>12
  DEF Accept, OutsideStep, TlsAccept, ConnectionFails, ReadRequest, OperationEnds,
      WriteResponse
<1>13. CASE wait_for_shutdown_signal \/ StartDraining \/ JoinAll
  BY <1>1, <1>13 DEF wait_for_shutdown_signal, StartDraining, JoinAll
<1>14. CASE AcceptFails \/ Restart
  BY <1>2, <1>14 DEF AcceptFails, Restart
<1>15. CASE UNCHANGED vars
  BY <1>1, <1>15 DEF vars, locks
<1> QED
  BY <1>5, <1>6, <1>11, <1>12, <1>13, <1>14, <1>15 DEF Next

\* Types and Shape are preserved by every action.
LEMMA TypesStep == Types /\ Shape /\ [Next]_vars => Types' /\ Shape'
<1> SUFFICES ASSUME Types, Shape, [Next]_vars PROVE Types' /\ Shape'
  OBVIOUS
<1> USE ServerAssumption DEF Types, Shape, HandlingPc, RegisteredPc, Goto
<1>1. ASSUME NEW c \in Conn, Accept(c) PROVE Types' /\ Shape'
  BY <1>1 DEF Accept
<1>2. CASE wait_for_shutdown_signal
  BY <1>2 DEF wait_for_shutdown_signal
<1>3. CASE StartDraining
  BY <1>3 DEF StartDraining
<1>4. CASE AcceptFails
  BY <1>4 DEF AcceptFails, DropAll
<1>5. CASE DrainTimeout
  BY <1>5 DEF DrainTimeout
<1>6. CASE JoinAll
  BY <1>6 DEF JoinAll
<1>7. CASE Restart
  BY <1>7 DEF Restart, DropAll
<1>8. ASSUME NEW c \in Conn, TlsAccept(c) PROVE Types' /\ Shape'
  BY <1>8 DEF TlsAccept
<1>9. ASSUME NEW c \in Conn, ConnectionFails(c) PROVE Types' /\ Shape'
  BY <1>9 DEF ConnectionFails, Close
<1>10. ASSUME NEW c \in Conn, ReadRequest(c) PROVE Types' /\ Shape'
  BY <1>10 DEF ReadRequest
<1>11. ASSUME NEW c \in Conn, ClientLeaves(c) PROVE Types' /\ Shape'
  BY <1>11 DEF ClientLeaves
<1>12. ASSUME NEW c \in Conn, CancelOnLeave(c) PROVE Types' /\ Shape'
  BY <1>12 DEF CancelOnLeave, cancel_operation
<1>13. ASSUME NEW c \in Conn, WriteResponse(c) PROVE Types' /\ Shape'
  BY <1>13 DEF WriteResponse, Close
<1>14. ASSUME NEW c \in Conn, RefuseEnvelope(c) PROVE Types' /\ Shape'
  BY <1>14 DEF RefuseEnvelope
<1>15. ASSUME NEW c \in Conn, handle_cancel(c) PROVE Types' /\ Shape'
  BY <1>15 DEF handle_cancel, WithLock, cancel_operation
<1>16. ASSUME NEW c \in Conn, Register(c) PROVE Types' /\ Shape'
  BY <1>16 DEF Register, WithLock, Request
<1>17. ASSUME NEW c \in Conn, RegisterTwice(c) PROVE Types' /\ Shape'
  BY <1>17 DEF RegisterTwice, WithLock, Request
<1>18. ASSUME NEW c \in Conn, dispatch(c) PROVE Types' /\ Shape'
  BY <1>18 DEF dispatch
<1>19. ASSUME NEW c \in Conn, begin_drain(c) PROVE Types' /\ Shape'
  BY <1>19 DEF begin_drain
<1>20. ASSUME NEW c \in Conn, OperationEnds(c) PROVE Types' /\ Shape'
  BY <1>20 DEF OperationEnds
<1>21. ASSUME NEW c \in Conn, Unregister(c) PROVE Types' /\ Shape'
  BY <1>21 DEF Unregister, WithLock, Request
<1>22. CASE cancel_all_operations
  BY <1>22 DEF cancel_all_operations, Tokens
<1>23. ASSUME NEW c \in Conn, AskLock(c) PROVE Types' /\ Shape'
  BY <1>23 DEF AskLock
<1>24. ASSUME NEW c \in Conn, drain_status(c) PROVE Types' /\ Shape'
  BY <1>24 DEF drain_status, WithLock
<1>25. CASE UNCHANGED vars
  BY <1>25 DEF vars, locks
<1> HIDE DEF Types, Shape, HandlingPc, RegisteredPc, Goto
<1> QED
  BY <1>1, <1>2, <1>3, <1>4, <1>5, <1>6, <1>7, <1>8, <1>9, <1>10, <1>11, <1>12,
     <1>13, <1>14, <1>15, <1>16, <1>17, <1>18, <1>19, <1>20, <1>21, <1>22, <1>23,
     <1>24, <1>25
  DEF Next, Step, OutsideStep

\* Phase is preserved.
LEMMA PhaseStep == Types /\ Phase /\ [Next]_vars => Phase'
<1> SUFFICES ASSUME Types, Phase, [Next]_vars PROVE Phase'
  OBVIOUS
<1> USE DEF Types, Phase, HandlingPc, RegisteredPc, Goto
<1>1. ASSUME NEW c \in Conn, Accept(c) PROVE Phase'
  BY <1>1 DEF Accept
<1>2. CASE wait_for_shutdown_signal
  BY <1>2 DEF wait_for_shutdown_signal
<1>3. CASE StartDraining
  BY <1>3 DEF StartDraining
<1>4. CASE AcceptFails
  BY <1>4 DEF AcceptFails, DropAll
<1>5. CASE DrainTimeout
  BY <1>5 DEF DrainTimeout
<1>6. CASE JoinAll
  BY <1>6 DEF JoinAll, Open
<1>7. CASE Restart
  BY <1>7 DEF Restart, DropAll
<1>8. ASSUME NEW c \in Conn, TlsAccept(c) PROVE Phase'
  BY <1>8 DEF TlsAccept
<1>9. ASSUME NEW c \in Conn, ConnectionFails(c) PROVE Phase'
  BY <1>9 DEF ConnectionFails, Close
<1>10. ASSUME NEW c \in Conn, ReadRequest(c) PROVE Phase'
  BY <1>10 DEF ReadRequest
<1>11. ASSUME NEW c \in Conn, ClientLeaves(c) PROVE Phase'
  BY <1>11 DEF ClientLeaves
<1>12. ASSUME NEW c \in Conn, CancelOnLeave(c) PROVE Phase'
  BY <1>12 DEF CancelOnLeave, cancel_operation
<1>13. ASSUME NEW c \in Conn, WriteResponse(c) PROVE Phase'
  BY <1>13 DEF WriteResponse, Close
<1>14. ASSUME NEW c \in Conn, RefuseEnvelope(c) PROVE Phase'
  BY <1>14 DEF RefuseEnvelope
<1>15. ASSUME NEW c \in Conn, handle_cancel(c) PROVE Phase'
  BY <1>15 DEF handle_cancel, WithLock, cancel_operation
<1>16. ASSUME NEW c \in Conn, Register(c) PROVE Phase'
  BY <1>16 DEF Register, WithLock
<1>17. ASSUME NEW c \in Conn, RegisterTwice(c) PROVE Phase'
  BY <1>17 DEF RegisterTwice, WithLock
<1>18. ASSUME NEW c \in Conn, dispatch(c) PROVE Phase'
  BY <1>18 DEF dispatch
<1>19. ASSUME NEW c \in Conn, begin_drain(c) PROVE Phase'
  BY <1>19 DEF begin_drain
<1>20. ASSUME NEW c \in Conn, OperationEnds(c) PROVE Phase'
  BY <1>20 DEF OperationEnds
<1>21. ASSUME NEW c \in Conn, Unregister(c) PROVE Phase'
  BY <1>21 DEF Unregister, WithLock
<1>22. CASE cancel_all_operations
  BY <1>22 DEF cancel_all_operations, Tokens
<1>23. ASSUME NEW c \in Conn, AskLock(c) PROVE Phase'
  BY <1>23 DEF AskLock
<1>24. ASSUME NEW c \in Conn, drain_status(c) PROVE Phase'
  BY <1>24 DEF drain_status, WithLock
<1>25. CASE UNCHANGED vars
  BY <1>25 DEF vars, locks
<1> HIDE DEF Types, Phase, HandlingPc, RegisteredPc, Goto
<1> QED
  BY <1>1, <1>2, <1>3, <1>4, <1>5, <1>6, <1>7, <1>8, <1>9, <1>10, <1>11, <1>12,
     <1>13, <1>14, <1>15, <1>16, <1>17, <1>18, <1>19, <1>20, <1>21, <1>22, <1>23,
     <1>24, <1>25
  DEF Next, Step, OutsideStep

\* A step that opens or closes no connection keeps the permits.
LEMMA SameOpen ==
    ASSUME Permits, permits' = permits,
           \A c \in Conn : conn'[c] = "closed" <=> conn[c] = "closed"
    PROVE  Permits'
BY DEF Permits, PermitsAreKept, Open

\* Every connection is closed and every permit is back.
LEMMA NoneOpen ==
    ASSUME permits' = MaxConnections, \A c \in Conn : conn'[c] = "closed"
    PROVE  Permits'
<1>1. Open' = {}
  BY DEF Open
<1> QED
  BY <1>1, FS_EmptySet, ServerAssumption DEF Permits, PermitsAreKept

\* A connection takes a permit and gives it back.
LEMMA OneOpened ==
    ASSUME Types, Permits, NEW c \in Conn, conn[c] = "closed", permits > 0,
           permits' = permits - 1, Goto(c, "tls")
    PROVE  Permits'
<1>1. Open' = Open \cup {c} /\ c \notin Open
  BY DEF Open, Goto, Types
<1>2. IsFiniteSet(Open') /\ Cardinality(Open') = Cardinality(Open) + 1
  BY <1>1, FS_AddElement DEF Permits
<1>3. Cardinality(Open) \in Nat
  BY FS_CardinalityType DEF Permits
<1>4. permits \in Nat
  BY DEF Types
<1> QED
  BY <1>2, <1>3, <1>4, ServerAssumption DEF Permits, PermitsAreKept

\* Closing one connection takes one from the open ones.
LEMMA OneClosed ==
    ASSUME Types, Permits, NEW c \in Conn, conn[c] # "closed", Close(c)
    PROVE  Permits'
<1>1. Open' = Open \ {c} /\ c \in Open
  BY DEF Open, Goto, Types, Close
<1>2. IsFiniteSet(Open') /\ Cardinality(Open') = Cardinality(Open) - 1
  BY <1>1, FS_RemoveElement DEF Permits
<1>3. Cardinality(Open) \in Nat
  BY FS_CardinalityType DEF Permits
<1>4. permits \in Nat /\ permits' = permits + 1
  BY DEF Types, Close
<1> QED
  BY <1>2, <1>3, <1>4, ServerAssumption DEF Permits, PermitsAreKept

\* The permits are accounted for at every step.
LEMMA PermitsStep == Types /\ Permits /\ [Next]_vars => Permits'
<1> SUFFICES ASSUME Types, Permits, [Next]_vars PROVE Permits'
  OBVIOUS
<1>1. ASSUME NEW c \in Conn, Accept(c) PROVE Permits'
  BY <1>1, OneOpened DEF Accept
<1>2. CASE wait_for_shutdown_signal
  BY <1>2, SameOpen DEF wait_for_shutdown_signal, Goto, Types
<1>3. CASE StartDraining
  BY <1>3, SameOpen DEF StartDraining, Goto, Types
<1>4. CASE AcceptFails
  BY <1>4, NoneOpen DEF AcceptFails, DropAll
<1>5. CASE DrainTimeout
  BY <1>5, SameOpen DEF DrainTimeout, Goto, Types
<1>6. CASE JoinAll
  BY <1>6, SameOpen DEF JoinAll, Goto, Types
<1>7. CASE Restart
  BY <1>7, NoneOpen DEF Restart, DropAll
<1>8. ASSUME NEW c \in Conn, TlsAccept(c) PROVE Permits'
  BY <1>8, SameOpen DEF TlsAccept, Goto, Types
<1>9. ASSUME NEW c \in Conn, ConnectionFails(c) PROVE Permits'
  BY <1>9, OneClosed DEF ConnectionFails
<1>10. ASSUME NEW c \in Conn, ReadRequest(c) PROVE Permits'
  BY <1>10, SameOpen DEF ReadRequest, Goto, Types
<1>11. ASSUME NEW c \in Conn, ClientLeaves(c) PROVE Permits'
  BY <1>11, SameOpen DEF ClientLeaves, Goto, Types
<1>12. ASSUME NEW c \in Conn, CancelOnLeave(c) PROVE Permits'
  BY <1>12, SameOpen DEF CancelOnLeave, cancel_operation, Goto, Types
<1>13. ASSUME NEW c \in Conn, WriteResponse(c) PROVE Permits'
  BY <1>13, OneClosed DEF WriteResponse
<1>14. ASSUME NEW c \in Conn, RefuseEnvelope(c) PROVE Permits'
  BY <1>14, SameOpen DEF RefuseEnvelope, Goto, Types
<1>15. ASSUME NEW c \in Conn, handle_cancel(c) PROVE Permits'
  BY <1>15, SameOpen DEF handle_cancel, WithLock, cancel_operation, Goto, Types
<1>16. ASSUME NEW c \in Conn, Register(c) PROVE Permits'
  BY <1>16, SameOpen DEF Register, WithLock, Goto, Types
<1>17. ASSUME NEW c \in Conn, RegisterTwice(c) PROVE Permits'
  BY <1>17, SameOpen DEF RegisterTwice, WithLock, Goto, Types
<1>18. ASSUME NEW c \in Conn, dispatch(c) PROVE Permits'
  BY <1>18, SameOpen DEF dispatch, Goto, Types
<1>19. ASSUME NEW c \in Conn, begin_drain(c) PROVE Permits'
  BY <1>19, SameOpen DEF begin_drain, Goto, Types
<1>20. ASSUME NEW c \in Conn, OperationEnds(c) PROVE Permits'
  BY <1>20, SameOpen DEF OperationEnds, Goto, Types
<1>21. ASSUME NEW c \in Conn, Unregister(c) PROVE Permits'
  BY <1>21, SameOpen DEF Unregister, WithLock, Goto, Types
<1>22. CASE cancel_all_operations
  BY <1>22, SameOpen DEF cancel_all_operations, Tokens, Goto, Types
<1>23. ASSUME NEW c \in Conn, AskLock(c) PROVE Permits'
  BY <1>23, SameOpen DEF AskLock, Goto, Types
<1>24. ASSUME NEW c \in Conn, drain_status(c) PROVE Permits'
  BY <1>24, SameOpen DEF drain_status, WithLock, Goto, Types
<1>25. CASE UNCHANGED vars
  BY <1>25, SameOpen DEF vars, locks
<1> QED
  BY <1>1, <1>2, <1>3, <1>4, <1>5, <1>6, <1>7, <1>8, <1>9, <1>10, <1>11, <1>12,
     <1>13, <1>14, <1>15, <1>16, <1>17, <1>18, <1>19, <1>20, <1>21, <1>22, <1>23,
     <1>24, <1>25
  DEF Next, Step, OutsideStep

\* The registry keeps one operation for each identifier.
LEMMA RegistryStep ==
    Types /\ Shape /\ OneOperationPerId /\ [Next]_vars => OneOperationPerId'
<1> SUFFICES ASSUME Types, Shape, OneOperationPerId, [Next]_vars PROVE OneOperationPerId'
  OBVIOUS
<1> USE ServerAssumption
    DEF Types, Shape, OneOperationPerId, Registered, HandlingPc, RegisteredPc, Goto
<1>1. ASSUME NEW c \in Conn, Accept(c) PROVE OneOperationPerId'
  BY <1>1 DEF Accept
<1>2. CASE wait_for_shutdown_signal
  BY <1>2 DEF wait_for_shutdown_signal
<1>3. CASE StartDraining
  BY <1>3 DEF StartDraining
<1>4. CASE AcceptFails
  BY <1>4 DEF AcceptFails, DropAll
<1>5. CASE DrainTimeout
  BY <1>5 DEF DrainTimeout
<1>6. CASE JoinAll
  BY <1>6 DEF JoinAll
<1>7. CASE Restart
  BY <1>7 DEF Restart, DropAll
<1>8. ASSUME NEW c \in Conn, TlsAccept(c) PROVE OneOperationPerId'
  BY <1>8 DEF TlsAccept
<1>9. ASSUME NEW c \in Conn, ConnectionFails(c) PROVE OneOperationPerId'
  BY <1>9 DEF ConnectionFails, Close
<1>10. ASSUME NEW c \in Conn, ReadRequest(c) PROVE OneOperationPerId'
  BY <1>10 DEF ReadRequest
<1>11. ASSUME NEW c \in Conn, ClientLeaves(c) PROVE OneOperationPerId'
  BY <1>11 DEF ClientLeaves
<1>12. ASSUME NEW c \in Conn, CancelOnLeave(c) PROVE OneOperationPerId'
  BY <1>12 DEF CancelOnLeave, cancel_operation
<1>13. ASSUME NEW c \in Conn, WriteResponse(c) PROVE OneOperationPerId'
  BY <1>13 DEF WriteResponse, Close
<1>14. ASSUME NEW c \in Conn, RefuseEnvelope(c) PROVE OneOperationPerId'
  BY <1>14 DEF RefuseEnvelope
<1>15. ASSUME NEW c \in Conn, handle_cancel(c) PROVE OneOperationPerId'
  BY <1>15 DEF handle_cancel, WithLock, cancel_operation
<1>16. ASSUME NEW c \in Conn, Register(c) PROVE OneOperationPerId'
  <2>1. req[c].op \in OperationId /\ active[req[c].op] = NoConn
    BY <1>16 DEF Register, WithLock, Request
  <2>2. /\ conn' = [conn EXCEPT ![c] = "admit"] /\ req' = req
        /\ active' = [active EXCEPT ![req[c].op] = c]
    BY <1>16 DEF Register, WithLock
  <2>3. ~Registered(c) /\ \A d \in Conn : Registered(d) => req[d].op # req[c].op
    BY <1>16, <2>1 DEF Register, WithLock
  <2>4. Registered(c)' /\ \A d \in Conn \ {c} : Registered(d)' <=> Registered(d)
    BY <2>2
  <2>5. \A x \in OperationId \ {req[c].op} : active'[x] = active[x]
    BY <2>2
  <2>6. active'[req[c].op] = c
    BY <2>1, <2>2
  <2> HIDE DEF Registered
  <2> QED
    BY <2>1, <2>2, <2>3, <2>4, <2>5, <2>6
<1>17. ASSUME NEW c \in Conn, RegisterTwice(c) PROVE OneOperationPerId'
  BY <1>17 DEF RegisterTwice, WithLock, Request
<1>18. ASSUME NEW c \in Conn, dispatch(c) PROVE OneOperationPerId'
  BY <1>18 DEF dispatch
<1>19. ASSUME NEW c \in Conn, begin_drain(c) PROVE OneOperationPerId'
  BY <1>19 DEF begin_drain
<1>20. ASSUME NEW c \in Conn, OperationEnds(c) PROVE OneOperationPerId'
  BY <1>20 DEF OperationEnds
<1>21. ASSUME NEW c \in Conn, Unregister(c) PROVE OneOperationPerId'
  BY <1>21 DEF Unregister, WithLock
<1>22. CASE cancel_all_operations
  BY <1>22 DEF cancel_all_operations, Tokens
<1>23. ASSUME NEW c \in Conn, AskLock(c) PROVE OneOperationPerId'
  BY <1>23 DEF AskLock
<1>24. ASSUME NEW c \in Conn, drain_status(c) PROVE OneOperationPerId'
  BY <1>24 DEF drain_status, WithLock
<1>25. CASE UNCHANGED vars
  BY <1>25 DEF vars, locks
<1> HIDE DEF Types, Shape, OneOperationPerId, Registered, HandlingPc, RegisteredPc, Goto
<1> QED
  BY <1>1, <1>2, <1>3, <1>4, <1>5, <1>6, <1>7, <1>8, <1>9, <1>10, <1>11, <1>12,
     <1>13, <1>14, <1>15, <1>16, <1>17, <1>18, <1>19, <1>20, <1>21, <1>22, <1>23,
     <1>24, <1>25
  DEF Next, Step, OutsideStep

\* Work that goes on after the cancellation was cancelled.
LEMMA DrainStep ==
    Types /\ Shape /\ Phase /\ OneOperationPerId /\ NoWorkOutlivesDrain /\ [Next]_vars
        => NoWorkOutlivesDrain'
<1> SUFFICES ASSUME Types, Shape, Phase, OneOperationPerId, NoWorkOutlivesDrain,
                    [Next]_vars
             PROVE  NoWorkOutlivesDrain'
  OBVIOUS
<1> USE ServerAssumption
    DEF Types, Shape, NoWorkOutlivesDrain, Registered, HandlingPc, RegisteredPc, Goto
<1>1. ASSUME NEW c \in Conn, Accept(c) PROVE NoWorkOutlivesDrain'
  BY <1>1 DEF Accept
<1>2. CASE wait_for_shutdown_signal
  BY <1>2 DEF wait_for_shutdown_signal
<1>3. CASE StartDraining
  BY <1>3 DEF StartDraining
<1>4. CASE AcceptFails
  BY <1>4 DEF AcceptFails, DropAll
<1>5. CASE DrainTimeout
  BY <1>5 DEF DrainTimeout
<1>6. CASE JoinAll
  BY <1>6 DEF JoinAll
<1>7. CASE Restart
  BY <1>7 DEF Restart, DropAll
<1>8. ASSUME NEW c \in Conn, TlsAccept(c) PROVE NoWorkOutlivesDrain'
  BY <1>8 DEF TlsAccept
<1>9. ASSUME NEW c \in Conn, ConnectionFails(c) PROVE NoWorkOutlivesDrain'
  BY <1>9 DEF ConnectionFails, Close
<1>10. ASSUME NEW c \in Conn, ReadRequest(c) PROVE NoWorkOutlivesDrain'
  BY <1>10 DEF ReadRequest
<1>11. ASSUME NEW c \in Conn, ClientLeaves(c) PROVE NoWorkOutlivesDrain'
  BY <1>11 DEF ClientLeaves
<1>12. ASSUME NEW c \in Conn, CancelOnLeave(c) PROVE NoWorkOutlivesDrain'
  BY <1>12 DEF CancelOnLeave, cancel_operation
<1>13. ASSUME NEW c \in Conn, WriteResponse(c) PROVE NoWorkOutlivesDrain'
  BY <1>13 DEF WriteResponse, Close
<1>14. ASSUME NEW c \in Conn, RefuseEnvelope(c) PROVE NoWorkOutlivesDrain'
  BY <1>14 DEF RefuseEnvelope
<1>15. ASSUME NEW c \in Conn, handle_cancel(c) PROVE NoWorkOutlivesDrain'
  BY <1>15 DEF handle_cancel, WithLock, cancel_operation
<1>16. ASSUME NEW c \in Conn, Register(c) PROVE NoWorkOutlivesDrain'
  BY <1>16 DEF Register, WithLock
<1>17. ASSUME NEW c \in Conn, RegisterTwice(c) PROVE NoWorkOutlivesDrain'
  BY <1>17 DEF RegisterTwice, WithLock
<1>18. ASSUME NEW c \in Conn, dispatch(c) PROVE NoWorkOutlivesDrain'
  BY <1>18 DEF dispatch, Phase
<1>19. ASSUME NEW c \in Conn, begin_drain(c) PROVE NoWorkOutlivesDrain'
  BY <1>19 DEF begin_drain
<1>20. ASSUME NEW c \in Conn, OperationEnds(c) PROVE NoWorkOutlivesDrain'
  BY <1>20 DEF OperationEnds
<1>21. ASSUME NEW c \in Conn, Unregister(c) PROVE NoWorkOutlivesDrain'
  <2>1. \A d \in Conn : Registered(d) /\ d # c => req[d].op # req[c].op
    BY <1>21 DEF Unregister, WithLock, OneOperationPerId
  <2> QED BY <1>21, <2>1 DEF Unregister, WithLock, Request
<1>22. CASE cancel_all_operations
  <2>1. ASSUME NEW c \in Conn, conn[c] = "working"
        PROVE  c \in Tokens \/ active[req[c].op] = Orphan
    BY <2>1 DEF OneOperationPerId, Tokens, Request
  <2> QED BY <1>22, <2>1 DEF cancel_all_operations
<1>23. ASSUME NEW c \in Conn, AskLock(c) PROVE NoWorkOutlivesDrain'
  BY <1>23 DEF AskLock
<1>24. ASSUME NEW c \in Conn, drain_status(c) PROVE NoWorkOutlivesDrain'
  BY <1>24 DEF drain_status, WithLock
<1>25. CASE UNCHANGED vars
  BY <1>25 DEF vars, locks
<1> HIDE DEF Types, Shape, NoWorkOutlivesDrain, Registered, HandlingPc, RegisteredPc, Goto
<1> QED
  BY <1>1, <1>2, <1>3, <1>4, <1>5, <1>6, <1>7, <1>8, <1>9, <1>10, <1>11, <1>12,
     <1>13, <1>14, <1>15, <1>16, <1>17, <1>18, <1>19, <1>20, <1>21, <1>22, <1>23,
     <1>24, <1>25
  DEF Next, Step, OutsideStep

-----------------------------------------------------------------------------
\* Every reachable state of the server satisfies the inductive invariant.
THEOREM Invariant == Spec => []Inv
<1>1. Init => Inv
  <2> SUFFICES ASSUME Init PROVE Inv
    OBVIOUS
  <2>1. Open = {}
    BY DEF Init, Open
  <2>2. Permits
    BY <2>1, FS_EmptySet, ServerAssumption DEF Init, Permits, PermitsAreKept
  <2>3. Types /\ Shape
    BY ServerAssumption DEF Init, Types, Shape, HandlingPc, RegisteredPc
  <2>5. LockTypes
    BY DEF Init, LockTypes
  <2>4. OneOperationPerId
    BY ServerAssumption DEF Init, OneOperationPerId, Registered, RegisteredPc
  <2> QED
    BY <2>2, <2>3, <2>4, <2>5 DEF Init, Inv, Phase, NoWorkOutlivesDrain
<1>2. Inv /\ [Next]_vars => Inv'
  BY TypesStep, LockStep, PhaseStep, PermitsStep, RegistryStep, DrainStep DEF Inv
<1> QED
  BY <1>1, <1>2, PTL DEF Spec

\* Every reachable state of the server is well typed; permits stay within
\* maximum_connections.
THEOREM TypeCorrect == Spec => []TypeOK
<1>1. Inv => TypeOK
  <2> SUFFICES ASSUME Inv PROVE TypeOK
    OBVIOUS
  <2>1. Cardinality(Open) \in Nat
    BY FS_CardinalityType DEF Inv, Permits
  <2>2. permits \in 0 .. MaxConnections
    BY <2>1, ServerAssumption DEF Inv, Types, Permits, PermitsAreKept
  <2> QED
    BY <2>2 DEF Inv, Types, LockTypes, TypeOK
<1> QED
  BY <1>1, Invariant, PTL

\* No identifier has two operations in progress, and active lists exactly those
\* in progress, whatever identifiers clients send.
THEOREM OperationsAreUnique == Spec => []OneOperationPerId
<1>1. Inv => OneOperationPerId
  BY DEF Inv
<1> QED
  BY <1>1, Invariant, PTL

\* Once shutdown has cancelled the operations, the work that goes on was
\* cancelled, unless its identifier was sent twice.
THEOREM DrainCancelsWork == Spec => []NoWorkOutlivesDrain
<1>1. Inv => NoWorkOutlivesDrain
  BY DEF Inv
<1> QED
  BY <1>1, Invariant, PTL

\* Every connection holds one permit, and a connection that ends gives it back.
THEOREM PermitsAreNotLost == Spec => []PermitsAreKept
<1>1. Inv => PermitsAreKept
  BY DEF Inv, Permits
<1> QED
  BY <1>1, Invariant, PTL

\* An orderly stop leaves no connection and no registered operation.
THEOREM StopsAreQuiet == Spec => []StopIsQuiet
<1>1. Inv => StopIsQuiet
  BY DEF Inv, Phase, OneOperationPerId, Registered, RegisteredPc, StopIsQuiet, Open
<1> QED
  BY <1>1, Invariant, PTL

\* Shutdown reaches the work in progress, and run returns when it has ended.
THEOREM ShutdownReachesWork == Spec => []DrainReachesWork
<1>1. OneOperationPerId /\ NoWorkOutlivesDrain /\ StopIsQuiet => DrainReachesWork
  BY DEF DrainReachesWork
<1> QED
  BY <1>1, OperationsAreUnique, DrainCancelsWork, StopsAreQuiet, PTL
=============================================================================
