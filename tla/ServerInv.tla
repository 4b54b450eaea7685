------------------------------ MODULE ServerInv ------------------------------
(***************************************************************************)
(* The inductive invariant behind the safety properties of Server.tla, in  *)
(* the layers in which Server_proofs.tla proves it.  TLC checks it on the  *)
(* instances of MCServer.tla.                                              *)
(***************************************************************************)
EXTENDS Server

\* Where a connection thread refers to the request it hands over, ...
Handing == {"count", "enqueue", "drop"}
\* ... and a worker to the request it runs.
Running == {"respond", "reply", "uncount"}

Listed(c) == conn[c] \in Started \cup Draining
HasSocket(c) == Listed(c) \/ conn[c] \in {"accepted", "close"}
Counted(c) == Listed(c) \/ conn[c] \in {"close", "uncount"}

HandOff ==
    \A c \in Conn :
      /\ conn[c] \in Handing <=> handed[c] # NoRequest
      /\ handed[c] # NoRequest => handed[c] \in Request /\ handed[c][1] = c

TypeInv == TypeOK /\ HandOff

\* The program counters against the objects the threads hold.
Control ==
    /\ \A w \in Worker : worker[w] \in Running <=> serving[w] # NoRequest
    /\ \A c \in Conn : c \in global_list <=> Listed(c)
    /\ \A c \in Conn : list_mutex = c <=> conn[c] \in Erasing

\* Main between accept and create_connection, and after the accept loop.
Accepting ==
    /\ \A c \in Conn : conn[c] = "accepted" => main = "create"
    /\ \A c, d \in Conn :
         conn[c] = "accepted" /\ conn[d] = "accepted" => c = d
    /\ main = "create" => listening
    /\ main \in {"join", "done"} => ~listening

\* fd and fd_table are inverse on the connections whose socket is open.
Descriptors ==
    /\ \A c \in Conn : HasSocket(c) => fd[c] \in Fd /\ fd_table[fd[c]] = c
    /\ \A f \in Fd :
         fd_table[f] # NoConn =>
           fd[fd_table[f]] = f /\ HasSocket(fd_table[f])

\* Requests exist only inside a listed connection.
Allocation == \A r \in Request : state[r] # "ABSENT" => Listed(r[1])

\* A request that anyone but its own connection refers to is PENDING, and
\* has no deserializer left unless it is still being handed over: so
\* neither a packet nor the sweep touches it.
Pending ==
    /\ \A r \in Request :
         Pledged(r) \/ handed[r[1]] = r => state[r] = "PENDING"
    /\ \A r \in Request :
         deserializer[r] => state[r] = "READING_PARAMS" \/ handed[r[1]] = r

\* What the thread read when it left the polling loop stays true.
DrainedForGood == \A c \in Conn : conn[c] = "lock" => ActiveIds(c) = {}

RequestInv ==
    Allocation /\ Pending /\ ExclusiveUse /\ ActivesExact /\ DrainedForGood

SocketsExact == socket_active = Cardinality({c \in Conn : Counted(c)})

\* A worker that saw the listening socket closed, and one that left.
Leaving ==
    /\ \A w \in Worker :
         worker[w] \in {"check_active", "exited"} => ~listening
    /\ (\E w \in Worker : worker[w] = "exited") =>
         /\ main # "create"
         /\ \A c \in Conn : conn[c] \in {"none", "unlock", "gone"}
    /\ main = "done" => AllJoined

IInv ==
    /\ TypeInv /\ Control /\ Accepting /\ Descriptors /\ RequestInv
    /\ BacklogExact /\ SocketsExact /\ Leaving
=============================================================================
