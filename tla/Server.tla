-------------------------------- MODULE Server --------------------------------
(***************************************************************************)
(* The TLS server of the sandbox service (src/service/server.rs) and the   *)
(* registry of active operations behind it (SandboxServiceBoundary::handle *)
(* in src/service/boundary.rs): connections and their permits, one request *)
(* per connection, cancellation by a Cancel request, by a client that      *)
(* leaves and by shutdown, and the drain that ends the process.            *)
(*                                                                         *)
(* What an operation does while it works is module Boundary's subject.     *)
(* Here it is work that the drain flag may refuse (Create, PrepareExec,    *)
(* CommitExec) or an operation that it never refuses.                      *)
(*                                                                         *)
(* The registry is behind a tokio Mutex, which is fair: a task that finds  *)
(* it taken is queued, and whoever releases it hands it to the first in    *)
(* the queue, whether that one is polled or not.  A connection polls its   *)
(* handler and its client in one select!; once the client has left it only *)
(* polls cancel_operation, until that has had the lock.                    *)
(***************************************************************************)
EXTENDS Naturals, FiniteSets, Sequences

CONSTANTS
    Conn,            \* slots for connections
    OperationId,     \* operation identifiers that clients send
    MaxConnections,  \* maximum_connections
    NoConn,          \* no token is registered
    Orphan,          \* a registered token that no operation looks at
    NoOperation      \* no identifier

ASSUME ServerAssumption ==
    /\ MaxConnections \in Nat \ {0}
    /\ NoConn \notin Conn
    /\ Orphan \notin Conn \cup {NoConn}
    /\ NoOperation \notin OperationId

VARIABLES
    run,        \* where SandboxTlsServer::run is
    shutdown,   \* the shutdown token is cancelled
    draining,   \* the draining flag of the boundary
    permits,    \* permits left in the semaphore
    conn,       \* where the task of each connection is
    client,     \* what the server knows of each connection's client
    req,        \* the request of each connection
    active,     \* the connection whose token is registered for an identifier
    cancelled,  \* the connections whose token is cancelled
    queue,      \* who has the lock of active, and behind it who waits for it
    lock        \* what the handler of each connection has to do with the lock

vars == <<run, shutdown, draining, permits, conn, client, req, active, cancelled,
          queue, lock>>
locks == <<queue, lock>>

-----------------------------------------------------------------------------
\* "work" is what reject_new_work refuses, "drain" an administrator's
\* BeginDrain, "other" everything else that is registered.
Kind == {"work", "other", "drain", "cancel"}

Request ==
    [op : OperationId, kind : Kind \ {"cancel"}, target : {NoOperation}]
        \cup [op : OperationId, kind : {"cancel"}, target : OperationId]
NoReq == [op |-> NoOperation, kind |-> "other", target |-> NoOperation]

\* The operation of the connection is registered in active.
RegisteredPc == {"admit", "working", "status", "unregister"}

\* handle is running: the connection also watches its client.
HandlingPc == {"register"} \cup RegisteredPc

\* Where handle awaits the lock of active.
LockPc == {"register", "status", "unregister"}

\* A connection asks for the lock in its handler, and again when its client has
\* left; run asks for it to cancel all operations.
Waiter == (Conn \X {"handle", "leave"}) \cup {<<NoConn, "run">>}

\* Every value is one the code can hold: the task of a connection is at one of
\* its awaits, and a token belongs to a connection or to nobody.
TypeOK ==
    /\ run \in {"serving", "draining", "locking", "cancelling", "stopped", "failed"}
    /\ shutdown \in BOOLEAN
    /\ draining \in BOOLEAN
    /\ permits \in 0 .. MaxConnections
    /\ conn \in [Conn -> {"closed", "tls", "read", "write"} \cup HandlingPc]
    /\ client \in [Conn -> {"present", "leaving", "seen"}]
    /\ req \in [Conn -> Request \cup {NoReq}]
    /\ active \in [OperationId -> Conn \cup {NoConn, Orphan}]
    /\ cancelled \in SUBSET Conn
    /\ queue \in Seq(Waiter)
    /\ lock \in [Conn -> {"idle", "waiting", "inside"}]

Open == {c \in Conn : conn[c] # "closed"}
Registered(c) == conn[c] \in RegisteredPc

\* The process has reconciled and bound its listener.
Init ==
    /\ run = "serving"
    /\ shutdown = FALSE
    /\ draining = FALSE
    /\ permits = MaxConnections
    /\ conn = [c \in Conn |-> "closed"]
    /\ client = [c \in Conn |-> "present"]
    /\ req = [c \in Conn |-> NoReq]
    /\ active = [x \in OperationId |-> NoConn]
    /\ cancelled = {}
    /\ queue = <<>>
    /\ lock = [c \in Conn |-> "idle"]

Goto(c, l) == conn' = [conn EXCEPT ![c] = l]

-----------------------------------------------------------------------------
(***************************************************************************)
(* self.active.lock().await.  A free lock is taken and used in one poll,   *)
(* which nothing interrupts; other threads find it taken meanwhile.        *)
(***************************************************************************)
HasLock(w) == queue # <<>> /\ Head(queue) = w

\* The handler of the connection is polled.
Polled(c) == client[c] # "leaving"

AskLock(c) ==
    /\ conn[c] \in LockPc
    /\ lock[c] = "idle"
    /\ Polled(c)
    /\ queue' = Append(queue, <<c, "handle">>)
    /\ lock' = [lock EXCEPT ![c] = IF queue = <<>> THEN "inside" ELSE "waiting"]
    /\ UNCHANGED <<run, shutdown, draining, permits, conn, client, req, active, cancelled>>

\* The handler has the lock, uses it and hands it on.
WithLock(c) ==
    /\ HasLock(<<c, "handle">>)
    /\ Polled(c)
    /\ queue' = Tail(queue)
    /\ lock' = [lock EXCEPT ![c] = "idle"]

-----------------------------------------------------------------------------
(***************************************************************************)
(* SandboxTlsServer::run: accept, drain, stop.                             *)
(***************************************************************************)
\* A connection beyond the permits is dropped, which changes nothing.
Accept(c) ==
    /\ run = "serving"
    /\ conn[c] = "closed"
    /\ permits > 0
    /\ permits' = permits - 1
    /\ Goto(c, "tls")
    /\ UNCHANGED <<run, shutdown, draining, client, req, active, cancelled, locks>>

\* One of the stop signals arrives.
wait_for_shutdown_signal ==
    /\ run = "serving"
    /\ shutdown' = TRUE
    /\ UNCHANGED <<run, draining, permits, conn, client, req, active, cancelled, locks>>

\* Fault: the boundary is not told.
StartDrainingAlone ==
    /\ run = "serving"
    /\ shutdown
    /\ run' = "draining"
    /\ UNCHANGED <<shutdown, draining, permits, conn, client, req, active, cancelled, locks>>

\* Fault: the accept loop is not left.
StartDrainingStays ==
    /\ run = "serving"
    /\ shutdown
    /\ draining' = TRUE
    /\ UNCHANGED <<run, shutdown, permits, conn, client, req, active, cancelled, locks>>

StartDraining ==
    /\ run = "serving"
    /\ shutdown
    /\ run' = "draining"
    /\ draining' = TRUE
    /\ UNCHANGED <<shutdown, permits, conn, client, req, active, cancelled, locks>>

\* The memory of the process goes.
DropAll ==
    /\ permits' = MaxConnections
    /\ conn' = [c \in Conn |-> "closed"]
    /\ client' = [c \in Conn |-> "present"]
    /\ req' = [c \in Conn |-> NoReq]
    /\ active' = [x \in OperationId |-> NoConn]
    /\ cancelled' = {}
    /\ queue' = <<>>
    /\ lock' = [c \in Conn |-> "idle"]

\* accept fails: run returns, and the tasks are aborted with the JoinSet.
AcceptFails ==
    /\ run = "serving"
    /\ run' = "failed"
    /\ DropAll
    /\ UNCHANGED <<shutdown, draining>>

Tokens == {active[x] : x \in OperationId} \cap Conn

\* The drain timeout passes with connections open: run asks for the lock.
DrainTimeout ==
    /\ run = "draining"
    /\ Open # {}
    /\ run' = "locking"
    /\ queue' = Append(queue, <<NoConn, "run">>)
    /\ UNCHANGED <<shutdown, draining, permits, conn, client, req, active, cancelled, lock>>

\* It has it, cancels every token and joins the tasks.
cancel_all_operations ==
    /\ run = "locking"
    /\ HasLock(<<NoConn, "run">>)
    /\ queue' = Tail(queue)
    /\ cancelled' = cancelled \cup Tokens
    /\ run' = "cancelling"
    /\ UNCHANGED <<shutdown, draining, permits, conn, client, req, active, lock>>

\* Every task is joined.
JoinAll ==
    /\ run \in {"draining", "cancelling"}
    /\ Open = {}
    /\ run' = "stopped"
    /\ UNCHANGED <<shutdown, draining, permits, conn, client, req, active, cancelled, locks>>

\* The service is started again.
Restart ==
    /\ run \in {"stopped", "failed"}
    /\ run' = "serving"
    /\ shutdown' = FALSE
    /\ draining' = FALSE
    /\ DropAll

-----------------------------------------------------------------------------
(***************************************************************************)
(* handle_connection.                                                      *)
(***************************************************************************)
\* Fault: the permit is given back and dropped as well.
CloseTwice(c) ==
    /\ Goto(c, "closed")
    /\ permits' = permits + 2
    /\ client' = [client EXCEPT ![c] = "present"]
    /\ req' = [req EXCEPT ![c] = NoReq]
    /\ cancelled' = cancelled \ {c}

\* Fault: the permit is not part of the connection's task.
CloseKeepsPermit(c) ==
    /\ Goto(c, "closed")
    /\ permits' = IF conn[c] = "write" THEN permits + 1 ELSE permits
    /\ client' = [client EXCEPT ![c] = "present"]
    /\ req' = [req EXCEPT ![c] = NoReq]
    /\ cancelled' = cancelled \ {c}

\* The task ends: its permit, its token and its sockets are dropped.
Close(c) ==
    /\ Goto(c, "closed")
    /\ permits' = permits + 1
    /\ client' = [client EXCEPT ![c] = "present"]
    /\ req' = [req EXCEPT ![c] = NoReq]
    /\ cancelled' = cancelled \ {c}

\* The handshake ends with an authorized client.
TlsAccept(c) ==
    /\ conn[c] = "tls"
    /\ Goto(c, "read")
    /\ UNCHANGED <<run, shutdown, draining, permits, client, req, active, cancelled, locks>>

\* It fails, the client is unknown, or no request can be read.
ConnectionFails(c) ==
    /\ conn[c] \in {"tls", "read"}
    /\ Close(c)
    /\ UNCHANGED <<run, shutdown, draining, active, locks>>

ReadRequest(c) ==
    /\ conn[c] = "read"
    /\ \E r \in Request : req' = [req EXCEPT ![c] = r]
    /\ Goto(c, "register")
    /\ UNCHANGED <<run, shutdown, draining, permits, client, active, cancelled, locks>>

\* The client closes the connection or sends another byte, and the connection
\* sees it: the handler is polled no more, and cancel_operation asks for the lock.
\* A handler that is using the lock runs on to its next await.
ClientLeaves(c) ==
    /\ conn[c] \in HandlingPc
    /\ client[c] = "present"
    /\ lock[c] # "inside"
    /\ client' = [client EXCEPT ![c] = "leaving"]
    /\ queue' = Append(queue, <<c, "leave">>)
    /\ UNCHANGED <<run, shutdown, draining, permits, conn, req, active, cancelled, lock>>

\* The token that is registered for the identifier is cancelled, if there is one.
cancel_operation(x) == cancelled' = cancelled \cup ({active[x]} \cap Conn)

\* It has the lock: the operation is cancelled, once, and its handler is awaited.
CancelOnLeave(c) ==
    /\ client[c] = "leaving"
    /\ HasLock(<<c, "leave">>)
    /\ queue' = Tail(queue)
    /\ client' = [client EXCEPT ![c] = "seen"]
    /\ cancel_operation(req[c].op)
    /\ UNCHANGED <<run, shutdown, draining, permits, conn, req, active, lock>>

\* The response is written, or cannot be.
WriteResponse(c) ==
    /\ conn[c] = "write"
    /\ Close(c)
    /\ UNCHANGED <<run, shutdown, draining, active, locks>>

-----------------------------------------------------------------------------
(***************************************************************************)
(* SandboxServiceBoundary::handle.                                         *)
(***************************************************************************)
\* A wrong protocol version or asset bundle is answered at once.
RefuseEnvelope(c) ==
    /\ conn[c] = "register"
    /\ lock[c] = "idle"
    /\ Polled(c)
    /\ Goto(c, "write")
    /\ UNCHANGED <<run, shutdown, draining, permits, client, req, active, cancelled, locks>>

handle_cancel(c) ==
    /\ conn[c] = "register"
    /\ req[c].kind = "cancel"
    /\ WithLock(c)
    /\ cancel_operation(req[c].target)
    /\ Goto(c, "write")
    /\ UNCHANGED <<run, shutdown, draining, permits, client, req, active>>

\* The operation is registered with its token.
Register(c) ==
    /\ conn[c] = "register"
    /\ req[c].kind # "cancel"
    /\ WithLock(c)
    /\ active[req[c].op] = NoConn
    /\ active' = [active EXCEPT ![req[c].op] = c]
    /\ Goto(c, "admit")
    /\ UNCHANGED <<run, shutdown, draining, permits, client, req, cancelled>>

\* The identifier is in use: the request is refused, but its token has replaced
\* the one of the operation that runs.
RegisterTwice(c) ==
    /\ conn[c] = "register"
    /\ req[c].kind # "cancel"
    /\ WithLock(c)
    /\ active[req[c].op] # NoConn
    /\ active' = [active EXCEPT ![req[c].op] = Orphan]
    /\ Goto(c, "write")
    /\ UNCHANGED <<run, shutdown, draining, permits, client, req, cancelled>>

\* dispatch: new work is refused while draining, Health and DrainStatus go on to
\* read the registry.
dispatch(c) ==
    /\ conn[c] = "admit"
    /\ req[c].kind # "drain"
    /\ Polled(c)
    /\ \/ /\ req[c].kind = "work"
          /\ Goto(c, IF draining THEN "unregister" ELSE "working")
       \/ /\ req[c].kind = "other"
          /\ \E l \in {"working", "status"} : Goto(c, l)
    /\ UNCHANGED <<run, shutdown, draining, permits, client, req, active, cancelled, locks>>

begin_drain(c) ==
    /\ conn[c] = "admit"
    /\ req[c].kind = "drain"
    /\ Polled(c)
    /\ draining' = TRUE
    /\ Goto(c, "status")
    /\ UNCHANGED <<run, shutdown, permits, client, req, active, cancelled, locks>>

\* The size of the registry is read.
drain_status(c) ==
    /\ conn[c] = "status"
    /\ WithLock(c)
    /\ Goto(c, "unregister")
    /\ UNCHANGED <<run, shutdown, draining, permits, client, req, active, cancelled>>

\* The operation ends: it is done, has failed, was cancelled or out of budget.
OperationEnds(c) ==
    /\ conn[c] = "working"
    /\ Polled(c)
    /\ Goto(c, "unregister")
    /\ UNCHANGED <<run, shutdown, draining, permits, client, req, active, cancelled, locks>>

Unregister(c) ==
    /\ conn[c] = "unregister"
    /\ WithLock(c)
    /\ active' = [active EXCEPT ![req[c].op] = NoConn]
    /\ Goto(c, "write")
    /\ UNCHANGED <<run, shutdown, draining, permits, client, req, cancelled>>

-----------------------------------------------------------------------------
\* Steps that the process takes by itself, and steps that wait for the client or
\* for the runtime.
Step(c) ==
    \/ AskLock(c) \/ CancelOnLeave(c) \/ RefuseEnvelope(c) \/ handle_cancel(c)
    \/ Register(c) \/ RegisterTwice(c)
    \/ dispatch(c) \/ begin_drain(c) \/ drain_status(c) \/ Unregister(c)

OutsideStep(c) ==
    \/ TlsAccept(c) \/ ConnectionFails(c) \/ ReadRequest(c)
    \/ ClientLeaves(c) \/ OperationEnds(c) \/ WriteResponse(c)

Next ==
    \/ \E c \in Conn : Accept(c) \/ Step(c) \/ OutsideStep(c)
    \/ wait_for_shutdown_signal \/ StartDraining \/ AcceptFails
    \/ DrainTimeout \/ cancel_all_operations \/ JoinAll \/ Restart

Spec == Init /\ [][Next]_vars

\* Ready tasks are polled and timers fire.  Nothing is assumed of clients, nor
\* that an operation ends.
Fairness ==
    /\ \A c \in Conn : WF_vars(Step(c))
    /\ WF_vars(StartDraining)
    /\ WF_vars(DrainTimeout)
    /\ WF_vars(cancel_all_operations)
    /\ WF_vars(JoinAll)

FairSpec == Spec /\ Fairness

-----------------------------------------------------------------------------
(***************************************************************************)
(* Safety.                                                                 *)
(***************************************************************************)
\* active lists the identifiers of the operations in progress, one operation
\* each, and a token it holds is the one of that operation.
OneOperationPerId ==
    /\ \A x \in OperationId :
        active[x] # NoConn <=> \E c \in Conn : Registered(c) /\ req[c].op = x
    /\ \A c, d \in Conn : Registered(c) /\ Registered(d) /\ req[c].op = req[d].op => c = d
    /\ \A c \in Conn : Registered(c) => active[req[c].op] \in {c, Orphan}

\* When shutdown has cancelled the operations, no work goes on that does not
\* know it, unless its identifier was sent twice: work is registered before it
\* looks at the drain flag.
NoWorkOutlivesDrain ==
    run = "cancelling" =>
        \A c \in Conn :
            conn[c] = "working" /\ req[c].kind = "work" =>
                c \in cancelled \/ active[req[c].op] = Orphan

\* Permits are neither lost nor given twice: no more than maximum_connections
\* connections are served.
PermitsAreKept == permits + Cardinality(Open) = MaxConnections

\* An orderly stop leaves no operation behind.
StopIsQuiet ==
    run = "stopped" => Open = {} /\ \A x \in OperationId : active[x] = NoConn

\* Shutdown reaches the work in progress: what works is registered, what is registered
\* is cancelled, and what was cancelled has ended when run returns.
DrainReachesWork == OneOperationPerId /\ NoWorkOutlivesDrain /\ StopIsQuiet

-----------------------------------------------------------------------------
(***************************************************************************)
(* Liveness, under Fairness.                                               *)
(***************************************************************************)
Ended == run \in {"stopped", "failed"}

\* A connection waits for its client or for the runtime.
Outside(c) == conn[c] \in {"tls", "read", "working", "write"}

\* The lock of the registry belongs to a handler that nobody polls: its
\* connection awaits cancel_operation, which is queued behind it.
Futurelock ==
    \E c \in Conn : HasLock(<<c, "handle">>) /\ client[c] = "leaving"

\* A shutdown ends if every client goes on and every operation ends: this is what
\* "Runtime operation budgets bound this wait" (server.rs) says.
ShutdownEnds ==
    (\A c \in Conn : []<>~Outside(c)) => (shutdown ~> Ended)

\* If every client goes on and every operation ends, a shutdown ends or the
\* registry is locked for good by a handler that nobody polls: no other order of
\* drain, cancellation, requests and clients that leave can hold it up.
ShutdownEndsOrLocks ==
    (\A c \in Conn : []<>~Outside(c)) => (shutdown ~> Ended \/ Futurelock)

=============================================================================
