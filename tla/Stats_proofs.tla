---------------------------- MODULE Stats_proofs -----------------------------
(***************************************************************************)
(* What a snapshot of the statistics shows, from the invariant of          *)
(* Server_proofs.tla.                                                      *)
(***************************************************************************)
EXTENDS Stats, Server_proofs

\* A request that a worker runs makes the counter of its connection
\* positive (request.cpp:66, request-workers.cpp:88).
LEMMA ServedCounted ==
    ASSUME IInv, NEW w \in Worker, worker[w] = "respond"
    PROVE  /\ serving[w][1] \in global_list
           /\ request_actives[serving[w][1]] > 0
<1> DEFINE r == serving[w]
           c == r[1]
<1>1. r \in Request /\ r # NoRequest
  BY ServerAssumption DEF IInv, TypeInv, TypeOK, Control, Running
<1>2. c \in Conn /\ r[2] \in Id /\ r = <<c, r[2]>>
  BY <1>1 DEF Request
<1>3. Served(r)
  BY DEF Served
<1>4. Pledged(r) /\ Active(r)
  BY <1>3 DEF Pledged, Active
<1>5. c \in global_list
  <2>1. state[r] = "PENDING"
    BY <1>1, <1>4 DEF IInv, RequestInv, Pending
  <2>2. Listed(c)
    BY <1>1, <2>1 DEF IInv, RequestInv, Allocation
  <2> QED BY <1>2, <2>2 DEF IInv, Control
<1>6. r[2] \in ActiveIds(c)
  BY <1>2, <1>4 DEF ActiveIds
<1>7. IsFiniteSet(ActiveIds(c))
  BY <1>2, ActiveIdsFinite
<1>8. Cardinality(ActiveIds(c)) # 0
  BY <1>6, <1>7, FS_EmptySet
<1>9. Cardinality(ActiveIds(c)) \in Nat
  BY <1>7, FS_CardinalityType
<1>10. request_actives[c] = Cardinality(ActiveIds(c))
  BY <1>2 DEF IInv, RequestInv, ActivesExact
<1> QED BY <1>5, <1>8, <1>9, <1>10

\* The statistics never show two connections under one id, and an
\* application inside respond() always finds its own connection with a
\* request counted (stats.cpp:20-41).
THEOREM SnapshotCorrect == Spec => []SnapshotExact
<1>1. IInv => SnapshotExact
  <2> SUFFICES ASSUME IInv PROVE SnapshotExact
    OBVIOUS
  <2>1. ASSUME NEW x \in Connections, NEW y \in Connections, x[2].id = y[2].id
        PROVE  x = y
    <3>1. PICK c \in global_list : x = <<c, ConnectionStats(c)>>
      BY DEF Connections
    <3>2. PICK d \in global_list : y = <<d, ConnectionStats(d)>>
      BY DEF Connections
    <3>3. fd[c] = fd[d]
      BY <2>1, <3>1, <3>2 DEF ConnectionStats
    <3>4. c \in Conn /\ d \in Conn
      BY DEF IInv, TypeInv, TypeOK
    <3>5. HasSocket(c) /\ HasSocket(d)
      BY <3>4 DEF IInv, Control, HasSocket
    <3>6. fd_table[fd[c]] = c /\ fd_table[fd[d]] = d
      BY <3>4, <3>5 DEF IInv, Descriptors
    <3>7. c = d
      BY <3>3, <3>6
    <3> QED BY <3>1, <3>2, <3>7
  <2>2. ASSUME NEW w \in Worker, worker[w] = "respond"
        PROVE  \E x \in Connections : x[1] = serving[w][1]
                                      /\ x[2].active_requests > 0
    <3> DEFINE c == serving[w][1]
    <3>1. c \in global_list /\ request_actives[c] > 0
      BY <2>2, ServedCounted
    <3>2. <<c, ConnectionStats(c)>> \in Connections
      BY <3>1 DEF Connections
    <3>3. ConnectionStats(c).active_requests > 0
      BY <3>1 DEF ConnectionStats
    <3> QED BY <3>2, <3>3
  <2> QED BY <2>1, <2>2 DEF SnapshotExact
<1> QED BY <1>1, Inductive, PTL
=============================================================================
