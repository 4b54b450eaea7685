------------------------------- MODULE Server -------------------------------
(***************************************************************************)
(* The threads of a tfcgi process and the objects they share: the main     *)
(* thread accepts sockets, one detached thread per connection reads        *)
(* packets and starts requests, a fixed pool of workers runs them.  The    *)
(* subject is who may touch which object, when it is destroyed, and how    *)
(* the process stops.                                                      *)
(*                                                                         *)
(* A member of Conn is one peer socket together with the Connection object *)
(* built on it; Id is the set of slots of Connection::requests, so that a  *)
(* pair <<c, i>> is one Request object.  Packets are not queued: a read    *)
(* action picks any packet that a peer following the protocol could have   *)
(* sent by now, which covers every delay of an in-order byte stream.       *)
(* A packet that has no effect on these variables (STDIN, DATA, ABORT,     *)
(* PARAMS holding whole pairs, management records) has no action.          *)
(***************************************************************************)
EXTENDS RequestQueue, FiniteSets

CONSTANTS Conn, Id, Worker, Fd,
          NoConn, NoRequest, NoFd    \* stand-ins for "none"

Request == Conn \X Id

ASSUME ServerAssumption ==
    /\ IsFiniteSet(Conn)
    /\ IsFiniteSet(Id)
    /\ NoConn \notin Conn
    /\ NoRequest \notin Request
    /\ NoFd \notin Fd

VARIABLES
    main,             \* where the main thread is
    listening,        \* internal_stats.socket_listening
    socket_active,    \* internal_stats.socket_active
    global_list,      \* Connection::global_list
    list_mutex,       \* the connection whose thread holds global_list_mutex
    fd,               \* Connection::fd
    fd_table,         \* kernel: the socket each descriptor stands for
    conn,             \* where each connection thread is
    socket_insane,    \* TRUE while the socket can be read (sic)
    request_actives,
    handed,           \* the request this connection thread is handing over
    state,            \* Request::state, "ABSENT" for a null unique_ptr
    deserializer,     \* params_deserializer is not null
    worker,           \* where each worker is
    serving,          \* the request each worker holds
    peer              \* environment: how the peer sees each request id

connVars == <<global_list, list_mutex, fd, fd_table, conn, socket_insane>>
requestVars == <<request_actives, handed, state, deserializer>>
workerVars == <<worker, serving>>
mainVars == <<main, listening>>
vars == <<mainVars, socket_active, connVars, requestVars, workerVars, peer,
          queueVars>>

\* Where a connection thread can be; it exists from "loop" to "unlock".
Started  == {"loop", "count", "enqueue", "drop"}
Draining == {"sweep", "poll", "lock"}
Erasing  == {"close", "uncount", "unlock"}
ConnStates == {"none", "accepted", "gone"} \cup Started \cup Draining
              \cup Erasing
WorkerStates == {"check_listening", "check_active", "pop", "respond",
                 "reply", "uncount", "exited"}
MainStates == {"accept", "create", "join", "done"}
RequestStates == {"ABSENT", "READY", "READING_PARAMS", "PENDING"}

TypeOK ==
    /\ main \in MainStates
    /\ listening \in BOOLEAN
    /\ socket_active \in Nat
    /\ global_list \subseteq Conn
    /\ list_mutex \in Conn \cup {NoConn}
    /\ fd \in [Conn -> Fd \cup {NoFd}]
    /\ fd_table \in [Fd -> Conn \cup {NoConn}]
    /\ conn \in [Conn -> ConnStates]
    /\ socket_insane \in [Conn -> BOOLEAN]
    /\ request_actives \in [Conn -> Nat]
    /\ handed \in [Conn -> Request \cup {NoRequest}]
    /\ state \in [Request -> RequestStates]
    /\ deserializer \in [Request -> BOOLEAN]
    /\ worker \in [Worker -> WorkerStates]
    /\ serving \in [Worker -> Request \cup {NoRequest}]
    /\ peer \in [Request -> {"idle", "params", "sent"}]
    /\ queue \in Seq(Request)
    /\ bell \subseteq Worker
    /\ workers_backlog \in Nat

Init ==
    /\ main = "accept"
    /\ listening = TRUE
    /\ socket_active = 0
    /\ global_list = {}
    /\ list_mutex = NoConn
    /\ fd = [c \in Conn |-> NoFd]
    /\ fd_table = [f \in Fd |-> NoConn]
    /\ conn = [c \in Conn |-> "none"]
    /\ socket_insane = [c \in Conn |-> TRUE]
    /\ request_actives = [c \in Conn |-> 0]
    /\ handed = [c \in Conn |-> NoRequest]
    /\ state = [r \in Request |-> "ABSENT"]
    /\ deserializer = [r \in Request |-> FALSE]
    /\ worker = [w \in Worker |-> "check_listening"]
    /\ serving = [w \in Worker |-> NoRequest]
    /\ peer = [r \in Request |-> "idle"]
    /\ queue = <<>>
    /\ bell = {}
    /\ workers_backlog = 0

-----------------------------------------------------------------------------
(* The main thread.                                                        *)

\* accept() succeeds.  With no free descriptor it fails with EMFILE and is
\* retried, as after EINTR, EAGAIN and ECONNABORTED: no step.
Accept(c, f) ==
    /\ main = "accept" /\ listening
    /\ conn[c] = "none"
    /\ fd_table[f] = NoConn
    /\ main' = "create"
    /\ conn' = [conn EXCEPT ![c] = "accepted"]
    /\ fd' = [fd EXCEPT ![c] = f]
    /\ fd_table' = [fd_table EXCEPT ![f] = c]
    /\ UNCHANGED <<listening, socket_active, global_list, list_mutex,
                   socket_insane, requestVars, workerVars, peer, queueVars>>

\* create_connection: a critical section that builds the Connection, whose
\* constructor counts the socket, and starts its thread.
CreateConnection(c) ==
    /\ main = "create"
    /\ conn[c] = "accepted"
    /\ list_mutex = NoConn
    /\ main' = "accept"
    /\ conn' = [conn EXCEPT ![c] = "loop"]
    /\ global_list' = global_list \cup {c}
    /\ socket_active' = socket_active + 1
    /\ UNCHANGED <<listening, list_mutex, fd, fd_table, socket_insane,
                   requestVars, workerVars, peer, queueVars>>

\* Any other accept() error: close_listening_socket.
CloseListeningSocket ==
    /\ main = "accept" /\ listening
    /\ listening' = FALSE
    /\ UNCHANGED <<main, socket_active, connVars, requestVars, workerVars,
                   peer, queueVars>>

\* The accept loop is left; begin_shutdown is called.
BeginShutdown ==
    /\ main = "accept" /\ ~listening
    /\ main' = "join"
    /\ UNCHANGED <<listening, socket_active, connVars, requestVars,
                   workerVars, peer, queueVars>>

\* Mutant: main does not join the workers.
JoinedAlways == TRUE

AllJoined == \A w \in Worker : worker[w] = "exited"

\* Every worker has been joined; fcgi::shutdown is called and main returns.
Shutdown ==
    /\ main = "join"
    /\ AllJoined
    /\ main' = "done"
    /\ UNCHANGED <<listening, socket_active, connVars, requestVars,
                   workerVars, peer, queueVars>>

-----------------------------------------------------------------------------
(* The reading loop of a connection thread.                                *)

Reading(c) == conn[c] = "loop" /\ socket_insane[c]

\* The socket fails or is closed while a body is read: the body is used as
\* it is and the failure is noticed at the next iteration.
BodyRead(c) ==
    \/ UNCHANGED socket_insane
    \/ socket_insane' = [socket_insane EXCEPT ![c] = FALSE]

\* recv_all fails before the header is complete, or in a packet without
\* effect; EINTR also clears the flag, whatever is read afterwards.
ReadFails(c) ==
    /\ Reading(c)
    /\ socket_insane' = [socket_insane EXCEPT ![c] = FALSE]
    /\ UNCHANGED <<mainVars, socket_active, global_list, list_mutex, fd,
                   fd_table, conn, requestVars, workerVars, peer, queueVars>>

\* Mutant: the state of the request is not looked at.
FoundAny(r) == TRUE

\* Whether handle_packet finds the request READY, after the allocation that
\* thread_func makes for an id seen for the first time.
FoundReady(r) == state[r] \in {"ABSENT", "READY"}

\* BEGIN_REQUEST for a READY request.
BeginRequest(c, i) ==
    LET r == <<c, i>> IN
    /\ Reading(c)
    /\ peer[r] = "idle"
    /\ FoundReady(r)
    /\ peer' = [peer EXCEPT ![r] = "params"]
    /\ state' = [state EXCEPT ![r] = "READING_PARAMS"]
    /\ deserializer' = [deserializer EXCEPT ![r] = TRUE]
    /\ request_actives' = [request_actives EXCEPT ![c] = @ + 1]
    /\ BodyRead(c)
    /\ UNCHANGED <<mainVars, socket_active, global_list, list_mutex, fd,
                   fd_table, conn, handed, workerVars, queueVars>>

\* BEGIN_REQUEST for an id whose Request object is in another state: "the
\* server is going crazy", nothing is done.
IgnoreBegin(c, i) ==
    LET r == <<c, i>> IN
    /\ Reading(c)
    /\ peer[r] = "idle"
    /\ ~FoundReady(r)
    /\ peer' = [peer EXCEPT ![r] = "params"]
    /\ BodyRead(c)
    /\ UNCHANGED <<mainVars, socket_active, global_list, list_mutex, fd,
                   fd_table, conn, requestVars, workerVars, queueVars>>

\* The empty PARAMS packet that ends the stream, deserializer present:
\* state = PENDING, and the thread goes on to push_request.
EndParams(c, i) ==
    LET r == <<c, i>> IN
    /\ Reading(c)
    /\ peer[r] = "params"
    /\ deserializer[r]
    /\ peer' = [peer EXCEPT ![r] = "sent"]
    /\ state' = [state EXCEPT ![r] = "PENDING"]
    /\ handed' = [handed EXCEPT ![c] = r]
    /\ conn' = [conn EXCEPT ![c] = "count"]
    /\ UNCHANGED <<mainVars, socket_active, global_list, list_mutex, fd,
                   fd_table, socket_insane, request_actives, deserializer,
                   workerVars, queueVars>>

\* The same packet with no deserializer: dropped.
IgnoreEndParams(c, i) ==
    LET r == <<c, i>> IN
    /\ Reading(c)
    /\ peer[r] = "params"
    /\ ~deserializer[r]
    /\ peer' = [peer EXCEPT ![r] = "sent"]
    /\ UNCHANGED <<mainVars, socket_active, connVars, requestVars,
                   workerVars, queueVars>>

\* Mutant: the cancelled request stays counted.
CancelUncounted(c, i) ==
    LET r == <<c, i>> IN
    /\ Reading(c)
    /\ peer[r] = "params"
    /\ deserializer[r]
    /\ peer' = [peer EXCEPT ![r] = "idle"]
    /\ state' = [state EXCEPT ![r] = "READY"]
    /\ deserializer' = [deserializer EXCEPT ![r] = FALSE]
    /\ BodyRead(c)
    /\ UNCHANGED <<mainVars, socket_active, global_list, list_mutex, fd,
                   fd_table, conn, handed, request_actives, workerVars,
                   queueVars>>

\* A PARAMS packet with a pair over the size limit: END_REQUEST is sent and
\* the request is READY again.
CancelRequest(c, i) ==
    LET r == <<c, i>> IN
    /\ Reading(c)
    /\ peer[r] = "params"
    /\ deserializer[r]
    /\ peer' = [peer EXCEPT ![r] = "idle"]
    /\ state' = [state EXCEPT ![r] = "READY"]
    /\ deserializer' = [deserializer EXCEPT ![r] = FALSE]
    /\ request_actives' = [request_actives EXCEPT ![c] = Decrement(@)]
    /\ BodyRead(c)
    /\ UNCHANGED <<mainVars, socket_active, global_list, list_mutex, fd,
                   fd_table, conn, handed, workerVars, queueVars>>

\* Mutant: the reference is lost before it is queued.
PushForget(c) ==
    /\ conn[c] = "count"
    /\ conn' = [conn EXCEPT ![c] = "enqueue"]
    /\ handed' = [handed EXCEPT ![c] = NoRequest]
    /\ CountBacklog
    /\ UNCHANGED <<mainVars, socket_active, global_list, list_mutex, fd,
                   fd_table, socket_insane, request_actives, state,
                   deserializer, workerVars, peer>>

\* push_request, then params_deserializer.reset(): the thread still uses
\* the request after a worker may have taken it.
PushCount(c) ==
    /\ conn[c] = "count"
    /\ conn' = [conn EXCEPT ![c] = "enqueue"]
    /\ CountBacklog
    /\ UNCHANGED <<mainVars, socket_active, global_list, list_mutex, fd,
                   fd_table, socket_insane, requestVars, workerVars, peer>>

PushEnqueue(c) ==
    /\ conn[c] = "enqueue"
    /\ conn' = [conn EXCEPT ![c] = "drop"]
    /\ Enqueue(handed[c])
    /\ UNCHANGED <<mainVars, socket_active, global_list, list_mutex, fd,
                   fd_table, socket_insane, requestVars, workerVars, peer>>

\* Mutant: the connection thread makes the request READY again.
DropAndReset(c) ==
    /\ conn[c] = "drop"
    /\ conn' = [conn EXCEPT ![c] = "loop"]
    /\ deserializer' = [deserializer EXCEPT ![handed[c]] = FALSE]
    /\ state' = [state EXCEPT ![handed[c]] = "READY"]
    /\ handed' = [handed EXCEPT ![c] = NoRequest]
    /\ UNCHANGED <<mainVars, socket_active, global_list, list_mutex, fd,
                   fd_table, socket_insane, request_actives, workerVars,
                   peer, queueVars>>

DropDeserializer(c) ==
    /\ conn[c] = "drop"
    /\ conn' = [conn EXCEPT ![c] = "loop"]
    /\ deserializer' = [deserializer EXCEPT ![handed[c]] = FALSE]
    /\ handed' = [handed EXCEPT ![c] = NoRequest]
    /\ UNCHANGED <<mainVars, socket_active, global_list, list_mutex, fd,
                   fd_table, socket_insane, request_actives, state,
                   workerVars, peer, queueVars>>

\* Mutant: the descriptor is closed as soon as reading fails.
LeaveClosed(c) ==
    /\ conn[c] = "loop" /\ ~socket_insane[c]
    /\ conn' = [conn EXCEPT ![c] = "sweep"]
    /\ fd_table' = [fd_table EXCEPT ![fd[c]] = NoConn]
    /\ UNCHANGED <<mainVars, socket_active, global_list, list_mutex, fd,
                   socket_insane, requestVars, workerVars, peer, queueVars>>

LeaveLoop(c) ==
    /\ conn[c] = "loop" /\ ~socket_insane[c]
    /\ conn' = [conn EXCEPT ![c] = "sweep"]
    /\ UNCHANGED <<mainVars, socket_active, global_list, list_mutex, fd,
                   fd_table, socket_insane, requestVars, workerVars, peer,
                   queueVars>>

-----------------------------------------------------------------------------
(* The end of a connection thread.                                         *)

\* Mutant: every request is destroyed, as clearing the container would.
DiscardableAll(r) == state[r] # "ABSENT"

\* The states in which thread_func destroys a request itself.
Discardable(r) == state[r] \in {"READING_PARAMS", "READY"}

\* Mutant: the destroyed requests stay counted.
SweepUncounted(c, i) ==
    LET r == <<c, i>> IN
    /\ conn[c] = "sweep"
    /\ Discardable(r)
    /\ state' = [state EXCEPT ![r] = "ABSENT"]
    /\ deserializer' = [deserializer EXCEPT ![r] = FALSE]
    /\ UNCHANGED <<mainVars, socket_active, connVars, request_actives,
                   handed, workerVars, peer, queueVars>>

\* One iteration of the destruction loop that finds such a request.
SweepRequest(c, i) ==
    LET r == <<c, i>> IN
    /\ conn[c] = "sweep"
    /\ Discardable(r)
    /\ request_actives' = IF state[r] = "READING_PARAMS"
                          THEN [request_actives EXCEPT ![c] = Decrement(@)]
                          ELSE request_actives
    /\ state' = [state EXCEPT ![r] = "ABSENT"]
    /\ deserializer' = [deserializer EXCEPT ![r] = FALSE]
    /\ UNCHANGED <<mainVars, socket_active, connVars, handed, workerVars,
                   peer, queueVars>>

SweepDone(c) ==
    /\ conn[c] = "sweep"
    /\ \A i \in Id : ~Discardable(<<c, i>>)
    /\ conn' = [conn EXCEPT ![c] = "poll"]
    /\ UNCHANGED <<mainVars, socket_active, global_list, list_mutex, fd,
                   fd_table, socket_insane, requestVars, workerVars, peer,
                   queueVars>>

\* Mutant: the connection is destroyed as soon as one reader saw no error.
DrainedAlways(c) == TRUE

\* while (request_actives) sleep: the loop is left when it reads zero.
Drained(c) == request_actives[c] = 0

StopPolling(c) ==
    /\ conn[c] = "poll"
    /\ Drained(c)
    /\ conn' = [conn EXCEPT ![c] = "lock"]
    /\ UNCHANGED <<mainVars, socket_active, global_list, list_mutex, fd,
                   fd_table, socket_insane, requestVars, workerVars, peer,
                   queueVars>>

\* global_list.erase under global_list_mutex: the element is unlinked, then
\* ~Connection destroys the requests, ...
Erase(c) ==
    /\ conn[c] = "lock"
    /\ list_mutex = NoConn
    /\ list_mutex' = c
    /\ global_list' = global_list \ {c}
    /\ state' = [r \in Request |-> IF r[1] = c THEN "ABSENT" ELSE state[r]]
    /\ deserializer' =
         [r \in Request |-> IF r[1] = c THEN FALSE ELSE deserializer[r]]
    /\ conn' = [conn EXCEPT ![c] = "close"]
    /\ UNCHANGED <<mainVars, socket_active, fd, fd_table, socket_insane,
                   request_actives, handed, workerVars, peer, queueVars>>

\* ... closes the socket, ...
CloseSocket(c) ==
    /\ conn[c] = "close"
    /\ conn' = [conn EXCEPT ![c] = "uncount"]
    /\ fd_table' = [fd_table EXCEPT ![fd[c]] = NoConn]
    /\ UNCHANGED <<mainVars, socket_active, global_list, list_mutex, fd,
                   socket_insane, requestVars, workerVars, peer, queueVars>>

\* ... and uncounts it.
UncountSocket(c) ==
    /\ conn[c] = "uncount"
    /\ conn' = [conn EXCEPT ![c] = "unlock"]
    /\ socket_active' = Decrement(socket_active)
    /\ UNCHANGED <<mainVars, global_list, list_mutex, fd, fd_table,
                   socket_insane, requestVars, workerVars, peer, queueVars>>

Unlock(c) ==
    /\ conn[c] = "unlock"
    /\ conn' = [conn EXCEPT ![c] = "gone"]
    /\ list_mutex' = NoConn
    /\ fd' = [fd EXCEPT ![c] = NoFd]
    /\ UNCHANGED <<mainVars, socket_active, global_list, fd_table,
                   socket_insane, requestVars, workerVars, peer, queueVars>>

-----------------------------------------------------------------------------
(* The workers.                                                            *)

\* Mutant: the connections that are still open are not looked at.
CheckListeningOnly(w) ==
    /\ worker[w] = "check_listening"
    /\ worker' = [worker EXCEPT ![w] =
                    IF listening THEN "pop" ELSE "exited"]
    /\ UNCHANGED <<mainVars, socket_active, connVars, requestVars, serving,
                   peer, queueVars>>

\* The loop condition reads the two atomics one after the other.
CheckListening(w) ==
    /\ worker[w] = "check_listening"
    /\ worker' = [worker EXCEPT ![w] =
                    IF listening THEN "pop" ELSE "check_active"]
    /\ UNCHANGED <<mainVars, socket_active, connVars, requestVars, serving,
                   peer, queueVars>>

CheckActive(w) ==
    /\ worker[w] = "check_active"
    /\ worker' = [worker EXCEPT ![w] =
                    IF socket_active # 0 THEN "pop" ELSE "exited"]
    /\ UNCHANGED <<mainVars, socket_active, connVars, requestVars, serving,
                   peer, queueVars>>

PopRequest(w) ==
    /\ worker[w] = "pop"
    /\ Dequeue(w)
    /\ worker' = [worker EXCEPT ![w] = "respond"]
    /\ serving' = [serving EXCEPT ![w] = Head(queue)]
    /\ UNCHANGED <<mainVars, socket_active, connVars, requestVars, peer>>

AwaitRequest(w) ==
    /\ worker[w] = "pop"
    /\ Block(w)
    /\ UNCHANGED <<mainVars, socket_active, connVars, requestVars,
                   workerVars, peer>>

SpuriousWakeup(w) ==
    /\ WakeSpuriously(w)
    /\ UNCHANGED <<mainVars, socket_active, connVars, requestVars,
                   workerVars, peer>>

\* The application callback returns or throws; cout and cerr are closed.
Respond(w) ==
    /\ worker[w] = "respond"
    /\ worker' = [worker EXCEPT ![w] = "reply"]
    /\ UNCHANGED <<mainVars, socket_active, connVars, requestVars, serving,
                   peer, queueVars>>

\* END_REQUEST reaches the peer, which may now use the id again.  The state
\* of the request is left alone.
SendEndRequest(w) ==
    /\ worker[w] = "reply"
    /\ worker' = [worker EXCEPT ![w] = "uncount"]
    /\ peer' = [peer EXCEPT ![serving[w]] = "idle"]
    /\ UNCHANGED <<mainVars, socket_active, connVars, requestVars, serving,
                   queueVars>>

\* request_actives--, the last use of the request and of its connection.
UncountRequest(w) ==
    /\ worker[w] = "uncount"
    /\ worker' = [worker EXCEPT ![w] = "check_listening"]
    /\ serving' = [serving EXCEPT ![w] = NoRequest]
    /\ request_actives' =
         [request_actives EXCEPT ![serving[w][1]] = Decrement(@)]
    /\ UNCHANGED <<mainVars, socket_active, connVars, handed, state,
                   deserializer, peer, queueVars>>

-----------------------------------------------------------------------------
MainStep ==
    \/ \E c \in Conn : CreateConnection(c)
    \/ BeginShutdown
    \/ Shutdown

\* What the peers and the system calls on the sockets decide.
Environment ==
    \/ \E c \in Conn, f \in Fd : Accept(c, f)
    \/ CloseListeningSocket
    \/ \E c \in Conn : ReadFails(c)
    \/ \E c \in Conn, i \in Id :
         \/ BeginRequest(c, i) \/ IgnoreBegin(c, i)
         \/ EndParams(c, i) \/ IgnoreEndParams(c, i)
         \/ CancelRequest(c, i)

ConnStep(c) ==
    \/ PushCount(c) \/ PushEnqueue(c) \/ DropDeserializer(c)
    \/ LeaveLoop(c)
    \/ \E i \in Id : SweepRequest(c, i)
    \/ SweepDone(c) \/ StopPolling(c)
    \/ Erase(c) \/ CloseSocket(c) \/ UncountSocket(c) \/ Unlock(c)

WorkerStep(w) ==
    \/ CheckListening(w) \/ CheckActive(w)
    \/ PopRequest(w) \/ AwaitRequest(w)
    \/ Respond(w) \/ SendEndRequest(w) \/ UncountRequest(w)

\* Nothing moves once main has returned.
Next ==
    /\ main # "done"
    /\ \/ MainStep
       \/ Environment
       \/ \E c \in Conn : ConnStep(c)
       \/ \E w \in Worker : WorkerStep(w) \/ SpuriousWakeup(w)

Spec == Init /\ [][Next]_vars

(* The operating system runs every thread that can run, respond() returns, *)
(* and so does send(): a peer reads what it is sent, or its socket fails.  *)
(* The peers and the listening socket owe no packet and no event.          *)
Fairness ==
    /\ WF_vars(MainStep)
    /\ \A c \in Conn : WF_vars(main # "done" /\ ConnStep(c))
    /\ \A w \in Worker : WF_vars(main # "done" /\ WorkerStep(w))

FairSpec == Spec /\ Fairness

-----------------------------------------------------------------------------
(* Properties.                                                             *)

InQueue(r) == \E k \in DOMAIN queue : queue[k] = r
Served(r) == \E w \in Worker : serving[w] = r
BeingPushed(r) ==
    \E c \in Conn : conn[c] \in {"count", "enqueue"} /\ handed[c] = r

\* The requests the pool still has to finish.
Pledged(r) == InQueue(r) \/ Served(r) \/ BeingPushed(r)

\* Begun and not ended.
Active(r) == state[r] = "READING_PARAMS" \/ Pledged(r)
ActiveIds(c) == {i \in Id : Active(<<c, i>>)}

\* Memory safety: a Request that a queue slot, a worker, or its connection
\* thread inside push_request refers to is allocated, and its Connection
\* is still in the list (connection.cpp:104-122).
NoDangling ==
    \A r \in Request :
      Pledged(r) \/ (\E c \in Conn : handed[c] = r)
        => state[r] # "ABSENT" /\ r[1] \in global_list

\* A Request is in one place at most: it is never queued twice, nor run by
\* two workers, nor queued while a worker runs it, whatever ids the peer
\* begins again (request.cpp:29, 75-78).
ExclusiveUse ==
    /\ \A j, k \in DOMAIN queue : queue[j] = queue[k] => j = k
    /\ \A v, w \in Worker :
         serving[v] = serving[w] /\ serving[v] # NoRequest => v = w
    /\ \A r \in Request :
         /\ InQueue(r) => ~Served(r)
         /\ BeingPushed(r) => ~InQueue(r) /\ ~Served(r)

\* request_actives is the number of requests begun and not ended, as its
\* comment says (connection.hpp:44-52), in every state of every thread; so
\* it never wraps below zero and the polling thread never misses one.
ActivesExact ==
    \A c \in Conn : request_actives[c] = Cardinality(ActiveIds(c))

\* workers_backlog counts the queue and the pushes under way.  It holds
\* because push_request counts before it queues: the other order would let
\* a pop decrement a zero (request-workers.cpp:29-31, 42).
BacklogExact ==
    workers_backlog =
      Len(queue) + Cardinality({c \in Conn : conn[c] = "enqueue"})

\* The descriptor of a listed connection, and of one a worker writes to,
\* stands for that connection's own socket: it is not closed, nor already
\* reused by a later accept.  Hence the "unique" id of the statistics
\* (stats.hpp:37-42) is unique.
OwnSocket ==
    \A c \in Conn :
      c \in global_list \/ (\E i \in Id : Served(<<c, i>>))
        => fd[c] \in Fd /\ fd_table[fd[c]] = c

\* A worker leaves only when no connection can need it any more
\* (request-workers.cpp:48).
WorkersStay ==
    (\E w \in Worker : worker[w] = "exited") =>
      /\ ~listening /\ main # "create"
      /\ queue = <<>>
      /\ \A c \in Conn : conn[c] \in {"none", "unlock", "gone"}

\* fcgi::shutdown is called "when all connections are closed" (fcgi.hpp:97):
\* every accepted socket is closed and no request is being handled.
ShutdownIsLast ==
    main = "done" =>
      /\ \A f \in Fd : fd_table[f] = NoConn
      /\ \A w \in Worker : serving[w] = NoRequest

\* No packet and no clean-up changes the state of a request that the pool
\* still has to finish (request.cpp:29, connection.cpp:107-114).
PledgedUntouched ==
    [][\A r \in Request : Pledged(r) => state'[r] = state[r]]_vars

\* The process implements the promise of Service.tla.
phaseOf(c) ==
    CASE conn[c] \in {"none", "accepted"} -> "absent"
      [] conn[c] \in Started -> "open"
      [] conn[c] \in Draining -> "draining"
      [] OTHER -> "closed"
Promise == INSTANCE Service WITH
             phase <- [c \in Conn |-> phaseOf(c)],
             active <- [c \in Conn |-> ActiveIds(c)]
ServiceSafety == Promise!Safety

\* Every request pushed to the pool is finished.
PledgedEnds == \A r \in Request : Pledged(r) ~> ~Pledged(r)

\* A connection whose reading loop ended has its socket closed.
HangupCloses ==
    \A c \in Conn : conn[c] \in Draining ~> conn[c] \in {"unlock", "gone"}

\* stats.hpp:25-27: once the listening socket and the connections are gone
\* the workers shut down (and main returns).
ShutdownCompletes == ~listening /\ socket_active = 0 ~> main = "done"

\* TUTORIAL.md:124-125: requests are "normally reused".  A peer that uses
\* an id again after its END_REQUEST gets an answer, or loses the
\* connection.
IdsReusable ==
    \A r \in Request :
      peer[r] = "sent" ~> peer[r] = "idle" \/ ~Reading(r[1])
=============================================================================
