-------------------------------- MODULE Stats --------------------------------
(***************************************************************************)
(* GlobalStats::update, as a reading of the state of Server.tla that any   *)
(* thread may make: an application calls it from respond().  The counters  *)
(* are read first, one by one and without a lock; the list of connections  *)
(* is read as a whole, when no other thread has global_list_mutex.         *)
(***************************************************************************)
EXTENDS ServerInv

\* ConnectionStats::ConnectionStats.
ConnectionStats(c) ==
    [id |-> fd[c], active_requests |-> request_actives[c],
     socket_insane |-> socket_insane[c]]

\* The critical section of update: it needs the mutex, and shows the list.
CanUpdate == list_mutex = NoConn
Connections == {<<c, ConnectionStats(c)>> : c \in global_list}

\* "This id uniquely identify a connection" (stats.hpp:37-42), and
\* active_requests counts what began and did not end (stats.hpp:43-49):
\* no two rows of a snapshot have the same id, and an application that
\* takes one inside respond() finds the row of its own connection, with its
\* own request counted, though the peer may have hung up long ago.
SnapshotExact ==
    CanUpdate =>
      /\ \A x, y \in Connections : x[2].id = y[2].id => x = y
      /\ \A w \in Worker : worker[w] = "respond" =>
           \E x \in Connections : x[1] = serving[w][1]
                                  /\ x[2].active_requests > 0
=============================================================================
