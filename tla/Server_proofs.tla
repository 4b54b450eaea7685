---------------------------- MODULE Server_proofs ----------------------------
(***************************************************************************)
(* Theorems about Server.tla, for any finite sets of connections and ids   *)
(* and any sets of workers and descriptors.  ServerInv.tla has the         *)
(* inductive invariant; each layer is preserved by every step given the    *)
(* layers before it, and has one lemma here, one step per action.          *)
(***************************************************************************)
EXTENDS ServerInv, FiniteSetTheorems, TLAPS

-----------------------------------------------------------------------------
(* Lemmas on the operators.                                                *)

\* An unsigned counter stays one (request-workers.cpp:42).
LEMMA DecrementType == ASSUME NEW n \in Nat PROVE Decrement(n) \in Nat
  BY UIntMaxAssumption DEF Decrement

\* A slot of a connection is a Request (connection.hpp:69).
LEMMA RequestPair ==
  ASSUME NEW c \in Conn, NEW i \in Id
  PROVE  <<c, i>> \in Request /\ <<c, i>>[1] = c /\ <<c, i>> # NoRequest
  BY ServerAssumption DEF Request

\* A Request is a slot of a connection, and is not the null reference.
LEMMA RequestParts ==
  ASSUME NEW r \in Request
  PROVE  r[1] \in Conn /\ r[2] \in Id /\ r = <<r[1], r[2]>> /\ r # NoRequest
  BY ServerAssumption DEF Request

-----------------------------------------------------------------------------
(* Types.  TypeOK alone is not inductive: that a queued value is a request *)
(* rests on where the connection threads are.                              *)

\* The process starts with typed variables.
LEMMA TypeInit == Init => TypeInv
  BY ServerAssumption
  DEF Init, TypeInv, TypeOK, HandOff, Handing, MainStates, ConnStates,
      WorkerStates, RequestStates, Request

\* Every step keeps the types.
LEMMA TypeOKStep == TypeInv /\ [Next]_vars => TypeOK'
  <1> SUFFICES ASSUME TypeInv, [Next]_vars PROVE TypeOK'
    OBVIOUS
  <1> USE DEF TypeInv, TypeOK, MainStates, ConnStates, Started, Draining,
         Erasing, WorkerStates, RequestStates, mainVars, connVars,
         requestVars, workerVars, queueVars
  <1>1. ASSUME NEW c \in Conn, CreateConnection(c) PROVE TypeOK'
    BY <1>1 DEF CreateConnection
  <1>2. CASE BeginShutdown
    BY <1>2 DEF BeginShutdown
  <1>3. CASE Shutdown
    BY <1>3 DEF Shutdown
  <1>4. ASSUME NEW c \in Conn, NEW f \in Fd, Accept(c, f) PROVE TypeOK'
    BY <1>4 DEF Accept
  <1>5. CASE CloseListeningSocket
    BY <1>5 DEF CloseListeningSocket
  <1>6. ASSUME NEW c \in Conn, ReadFails(c) PROVE TypeOK'
    BY <1>6 DEF ReadFails
  <1>7. ASSUME NEW c \in Conn, NEW i \in Id, BeginRequest(c, i) PROVE TypeOK'
    <2>1. socket_insane' \in [Conn -> BOOLEAN]
      BY <1>7 DEF BeginRequest, BodyRead
    <2>2. state' \in [Request -> RequestStates]
      BY <1>7 DEF BeginRequest
    <2>3. request_actives' \in [Conn -> Nat]
      BY <1>7 DEF BeginRequest
    <2> QED BY <1>7, <2>1, <2>2, <2>3 DEF BeginRequest
  <1>8. ASSUME NEW c \in Conn, NEW i \in Id, IgnoreBegin(c, i) PROVE TypeOK'
    BY <1>8 DEF IgnoreBegin, BodyRead
  <1>9. ASSUME NEW c \in Conn, NEW i \in Id, EndParams(c, i) PROVE TypeOK'
    BY <1>9, RequestPair DEF EndParams
  <1>10. ASSUME NEW c \in Conn, NEW i \in Id, IgnoreEndParams(c, i) PROVE TypeOK'
    BY <1>10 DEF IgnoreEndParams
  <1>11. ASSUME NEW c \in Conn, NEW i \in Id, CancelRequest(c, i) PROVE TypeOK'
    BY <1>11, DecrementType DEF CancelRequest, BodyRead
  <1>12. ASSUME NEW c \in Conn, PushCount(c) PROVE TypeOK'
    BY <1>12 DEF PushCount, CountBacklog
  <1>13. ASSUME NEW c \in Conn, PushEnqueue(c) PROVE TypeOK'
    <2>1. handed[c] \in Request
      BY <1>13 DEF PushEnqueue, HandOff, Handing
    <2>2. queue' \in Seq(Request) /\ bell' \subseteq Worker
      BY <1>13, <2>1 DEF PushEnqueue, Enqueue, NotifyOne
    <2> QED BY <1>13, <2>2 DEF PushEnqueue, Enqueue
  <1>14. ASSUME NEW c \in Conn, DropDeserializer(c) PROVE TypeOK'
    BY <1>14 DEF DropDeserializer
  <1>15. ASSUME NEW c \in Conn, LeaveLoop(c) PROVE TypeOK'
    BY <1>15 DEF LeaveLoop
  <1>16. ASSUME NEW c \in Conn, NEW i \in Id, SweepRequest(c, i) PROVE TypeOK'
    BY <1>16, DecrementType DEF SweepRequest
  <1>17. ASSUME NEW c \in Conn, SweepDone(c) PROVE TypeOK'
    BY <1>17 DEF SweepDone
  <1>18. ASSUME NEW c \in Conn, StopPolling(c) PROVE TypeOK'
    BY <1>18 DEF StopPolling
  <1>19. ASSUME NEW c \in Conn, Erase(c) PROVE TypeOK'
    BY <1>19 DEF Erase
  <1>20. ASSUME NEW c \in Conn, CloseSocket(c) PROVE TypeOK'
    BY <1>20 DEF CloseSocket
  <1>21. ASSUME NEW c \in Conn, UncountSocket(c) PROVE TypeOK'
    BY <1>21, DecrementType DEF UncountSocket
  <1>22. ASSUME NEW c \in Conn, Unlock(c) PROVE TypeOK'
    BY <1>22 DEF Unlock
  <1>23. ASSUME NEW w \in Worker, CheckListening(w) PROVE TypeOK'
    BY <1>23 DEF CheckListening
  <1>24. ASSUME NEW w \in Worker, CheckActive(w) PROVE TypeOK'
    BY <1>24 DEF CheckActive
  <1>25. ASSUME NEW w \in Worker, PopRequest(w) PROVE TypeOK'
    <2>1. queue' \in Seq(Request) /\ Head(queue) \in Request
      BY <1>25 DEF PopRequest, Dequeue
    <2>2. workers_backlog' \in Nat
      BY <1>25, DecrementType DEF PopRequest, Dequeue
    <2> QED BY <1>25, <2>1, <2>2 DEF PopRequest, Dequeue
  <1>26. ASSUME NEW w \in Worker, AwaitRequest(w) PROVE TypeOK'
    BY <1>26 DEF AwaitRequest, Block
  <1>27. ASSUME NEW w \in Worker, SpuriousWakeup(w) PROVE TypeOK'
    BY <1>27 DEF SpuriousWakeup, WakeSpuriously
  <1>28. ASSUME NEW w \in Worker, Respond(w) PROVE TypeOK'
    BY <1>28 DEF Respond
  <1>29. ASSUME NEW w \in Worker, SendEndRequest(w) PROVE TypeOK'
    BY <1>29 DEF SendEndRequest
  <1>30. ASSUME NEW w \in Worker, UncountRequest(w) PROVE TypeOK'
    BY <1>30, DecrementType DEF UncountRequest
  <1>31. CASE UNCHANGED vars
    BY <1>31 DEF vars
  <1> QED
    BY <1>1, <1>2, <1>3, <1>4, <1>5, <1>6, <1>7, <1>8, <1>9, <1>10, <1>11,
       <1>12, <1>13, <1>14, <1>15, <1>16, <1>17, <1>18, <1>19, <1>20,
       <1>21, <1>22, <1>23, <1>24, <1>25, <1>26, <1>27, <1>28, <1>29,
       <1>30, <1>31
    DEF Next, MainStep, Environment, ConnStep, WorkerStep

\* A thread refers to a request exactly while it hands it over, and to one of
\* its own connection (request.cpp:76-78).
LEMMA HandOffStep == TypeInv /\ [Next]_vars => HandOff'
  <1> SUFFICES ASSUME TypeInv, [Next]_vars PROVE HandOff'
    OBVIOUS
  <1> USE DEF TypeInv, TypeOK, HandOff, Handing, connVars, requestVars,
         Reading
  <1>1. ASSUME NEW c \in Conn, CreateConnection(c) PROVE HandOff'
    BY <1>1 DEF CreateConnection
  <1>2. CASE BeginShutdown
    BY <1>2 DEF BeginShutdown
  <1>3. CASE Shutdown
    BY <1>3 DEF Shutdown
  <1>4. ASSUME NEW c \in Conn, NEW f \in Fd, Accept(c, f) PROVE HandOff'
    BY <1>4 DEF Accept
  <1>5. CASE CloseListeningSocket
    BY <1>5 DEF CloseListeningSocket
  <1>6. ASSUME NEW c \in Conn, ReadFails(c) PROVE HandOff'
    BY <1>6 DEF ReadFails
  <1>7. ASSUME NEW c \in Conn, NEW i \in Id, BeginRequest(c, i) PROVE HandOff'
    BY <1>7 DEF BeginRequest
  <1>8. ASSUME NEW c \in Conn, NEW i \in Id, IgnoreBegin(c, i) PROVE HandOff'
    BY <1>8 DEF IgnoreBegin
  <1>9. ASSUME NEW c \in Conn, NEW i \in Id, EndParams(c, i) PROVE HandOff'
    BY <1>9, RequestPair DEF EndParams, Reading
  <1>10. ASSUME NEW c \in Conn, NEW i \in Id, IgnoreEndParams(c, i) PROVE HandOff'
    BY <1>10 DEF IgnoreEndParams
  <1>11. ASSUME NEW c \in Conn, NEW i \in Id, CancelRequest(c, i) PROVE HandOff'
    BY <1>11 DEF CancelRequest
  <1>12. ASSUME NEW c \in Conn, PushCount(c) PROVE HandOff'
    BY <1>12 DEF PushCount
  <1>13. ASSUME NEW c \in Conn, PushEnqueue(c) PROVE HandOff'
    BY <1>13 DEF PushEnqueue
  <1>14. ASSUME NEW c \in Conn, DropDeserializer(c) PROVE HandOff'
    BY <1>14 DEF DropDeserializer
  <1>15. ASSUME NEW c \in Conn, LeaveLoop(c) PROVE HandOff'
    BY <1>15 DEF LeaveLoop
  <1>16. ASSUME NEW c \in Conn, NEW i \in Id, SweepRequest(c, i) PROVE HandOff'
    BY <1>16 DEF SweepRequest
  <1>17. ASSUME NEW c \in Conn, SweepDone(c) PROVE HandOff'
    BY <1>17 DEF SweepDone
  <1>18. ASSUME NEW c \in Conn, StopPolling(c) PROVE HandOff'
    BY <1>18 DEF StopPolling
  <1>19. ASSUME NEW c \in Conn, Erase(c) PROVE HandOff'
    BY <1>19 DEF Erase
  <1>20. ASSUME NEW c \in Conn, CloseSocket(c) PROVE HandOff'
    BY <1>20 DEF CloseSocket
  <1>21. ASSUME NEW c \in Conn, UncountSocket(c) PROVE HandOff'
    BY <1>21 DEF UncountSocket
  <1>22. ASSUME NEW c \in Conn, Unlock(c) PROVE HandOff'
    BY <1>22 DEF Unlock
  <1>23. ASSUME NEW w \in Worker, CheckListening(w) PROVE HandOff'
    BY <1>23 DEF CheckListening
  <1>24. ASSUME NEW w \in Worker, CheckActive(w) PROVE HandOff'
    BY <1>24 DEF CheckActive
  <1>25. ASSUME NEW w \in Worker, PopRequest(w) PROVE HandOff'
    BY <1>25 DEF PopRequest
  <1>26. ASSUME NEW w \in Worker, AwaitRequest(w) PROVE HandOff'
    BY <1>26 DEF AwaitRequest
  <1>27. ASSUME NEW w \in Worker, SpuriousWakeup(w) PROVE HandOff'
    BY <1>27 DEF SpuriousWakeup
  <1>28. ASSUME NEW w \in Worker, Respond(w) PROVE HandOff'
    BY <1>28 DEF Respond
  <1>29. ASSUME NEW w \in Worker, SendEndRequest(w) PROVE HandOff'
    BY <1>29 DEF SendEndRequest
  <1>30. ASSUME NEW w \in Worker, UncountRequest(w) PROVE HandOff'
    BY <1>30 DEF UncountRequest
  <1>31. CASE UNCHANGED vars
    BY <1>31 DEF vars
  <1> QED
    BY <1>1, <1>2, <1>3, <1>4, <1>5, <1>6, <1>7, <1>8, <1>9, <1>10, <1>11,
       <1>12, <1>13, <1>14, <1>15, <1>16, <1>17, <1>18, <1>19, <1>20,
       <1>21, <1>22, <1>23, <1>24, <1>25, <1>26, <1>27, <1>28, <1>29,
       <1>30, <1>31
    DEF Next, MainStep, Environment, ConnStep, WorkerStep

\* TypeInv (the types, and which request a handing thread refers to) is an
\* invariant by itself; every later layer assumes it.
THEOREM TypeInvariant == Spec => []TypeInv
  <1>1. TypeInv /\ [Next]_vars => TypeInv'
    BY TypeOKStep, HandOffStep DEF TypeInv
  <1> QED
    BY TypeInit, <1>1, PTL DEF Spec

\* Every variable keeps its type; the queue, the workers and the threads
\* that hand requests over only ever hold requests (request-workers.cpp).
THEOREM TypeCorrect == Spec => []TypeOK
  BY TypeInvariant, PTL DEF TypeInv

-----------------------------------------------------------------------------
(* What the threads hold, and the main thread.                             *)

\* No connection exists when main starts.
LEMMA ControlInit == Init => Control /\ Accepting /\ Descriptors
  BY ServerAssumption
  DEF Init, Control, Accepting, Descriptors, Running, Listed, HasSocket,
      Started, Draining, Erasing

\* Program counters agree with the list, its mutex and the held requests.
LEMMA ControlStep == TypeInv /\ Control /\ [Next]_vars => Control'
  <1> SUFFICES ASSUME TypeInv /\ Control, [Next]_vars PROVE Control'
    OBVIOUS
  <1> USE DEF TypeInv, TypeOK, Control, Running, Listed, Started, Draining,
         Erasing, mainVars, connVars, requestVars, workerVars, Reading
  <1>1. ASSUME NEW c \in Conn, CreateConnection(c) PROVE Control'
    BY <1>1, ServerAssumption DEF CreateConnection
  <1>2. CASE BeginShutdown
    BY <1>2 DEF BeginShutdown
  <1>3. CASE Shutdown
    BY <1>3 DEF Shutdown
  <1>4. ASSUME NEW c \in Conn, NEW f \in Fd, Accept(c, f) PROVE Control'
    BY <1>4 DEF Accept
  <1>5. CASE CloseListeningSocket
    BY <1>5 DEF CloseListeningSocket
  <1>6. ASSUME NEW c \in Conn, ReadFails(c) PROVE Control'
    BY <1>6 DEF ReadFails
  <1>7. ASSUME NEW c \in Conn, NEW i \in Id, BeginRequest(c, i) PROVE Control'
    BY <1>7 DEF BeginRequest
  <1>8. ASSUME NEW c \in Conn, NEW i \in Id, IgnoreBegin(c, i) PROVE Control'
    BY <1>8 DEF IgnoreBegin
  <1>9. ASSUME NEW c \in Conn, NEW i \in Id, EndParams(c, i) PROVE Control'
    BY <1>9 DEF EndParams
  <1>10. ASSUME NEW c \in Conn, NEW i \in Id, IgnoreEndParams(c, i) PROVE Control'
    BY <1>10 DEF IgnoreEndParams
  <1>11. ASSUME NEW c \in Conn, NEW i \in Id, CancelRequest(c, i) PROVE Control'
    BY <1>11 DEF CancelRequest
  <1>12. ASSUME NEW c \in Conn, PushCount(c) PROVE Control'
    BY <1>12 DEF PushCount
  <1>13. ASSUME NEW c \in Conn, PushEnqueue(c) PROVE Control'
    BY <1>13 DEF PushEnqueue
  <1>14. ASSUME NEW c \in Conn, DropDeserializer(c) PROVE Control'
    BY <1>14 DEF DropDeserializer
  <1>15. ASSUME NEW c \in Conn, LeaveLoop(c) PROVE Control'
    BY <1>15 DEF LeaveLoop
  <1>16. ASSUME NEW c \in Conn, NEW i \in Id, SweepRequest(c, i) PROVE Control'
    BY <1>16 DEF SweepRequest
  <1>17. ASSUME NEW c \in Conn, SweepDone(c) PROVE Control'
    BY <1>17 DEF SweepDone
  <1>18. ASSUME NEW c \in Conn, StopPolling(c) PROVE Control'
    BY <1>18 DEF StopPolling
  <1>19. ASSUME NEW c \in Conn, Erase(c) PROVE Control'
    BY <1>19, ServerAssumption DEF Erase
  <1>20. ASSUME NEW c \in Conn, CloseSocket(c) PROVE Control'
    BY <1>20 DEF CloseSocket
  <1>21. ASSUME NEW c \in Conn, UncountSocket(c) PROVE Control'
    BY <1>21 DEF UncountSocket
  <1>22. ASSUME NEW c \in Conn, Unlock(c) PROVE Control'
    BY <1>22, ServerAssumption DEF Unlock
  <1>23. ASSUME NEW w \in Worker, CheckListening(w) PROVE Control'
    BY <1>23 DEF CheckListening
  <1>24. ASSUME NEW w \in Worker, CheckActive(w) PROVE Control'
    BY <1>24 DEF CheckActive
  <1>25. ASSUME NEW w \in Worker, PopRequest(w) PROVE Control'
    <2>1. Head(queue) \in Request
      BY <1>25 DEF PopRequest, Dequeue
    <2> QED BY <1>25, <2>1, RequestParts DEF PopRequest
  <1>26. ASSUME NEW w \in Worker, AwaitRequest(w) PROVE Control'
    BY <1>26 DEF AwaitRequest
  <1>27. ASSUME NEW w \in Worker, SpuriousWakeup(w) PROVE Control'
    BY <1>27 DEF SpuriousWakeup
  <1>28. ASSUME NEW w \in Worker, Respond(w) PROVE Control'
    BY <1>28 DEF Respond
  <1>29. ASSUME NEW w \in Worker, SendEndRequest(w) PROVE Control'
    BY <1>29 DEF SendEndRequest
  <1>30. ASSUME NEW w \in Worker, UncountRequest(w) PROVE Control'
    BY <1>30 DEF UncountRequest
  <1>31. CASE UNCHANGED vars
    BY <1>31 DEF vars
  <1> QED
    BY <1>1, <1>2, <1>3, <1>4, <1>5, <1>6, <1>7, <1>8, <1>9, <1>10, <1>11,
       <1>12, <1>13, <1>14, <1>15, <1>16, <1>17, <1>18, <1>19, <1>20,
       <1>21, <1>22, <1>23, <1>24, <1>25, <1>26, <1>27, <1>28, <1>29,
       <1>30, <1>31
    DEF Next, MainStep, Environment, ConnStep, WorkerStep

\* Main has at most one accepted socket, and holds it only while listening.
LEMMA AcceptingStep == TypeInv /\ Accepting /\ [Next]_vars => Accepting'
  <1> SUFFICES ASSUME TypeInv /\ Accepting, [Next]_vars PROVE Accepting'
    OBVIOUS
  <1> USE DEF TypeInv, TypeOK, Accepting, MainStates, mainVars, connVars,
         Reading
  <1>1. ASSUME NEW c \in Conn, CreateConnection(c) PROVE Accepting'
    BY <1>1 DEF CreateConnection
  <1>2. CASE BeginShutdown
    BY <1>2 DEF BeginShutdown
  <1>3. CASE Shutdown
    BY <1>3 DEF Shutdown
  <1>4. ASSUME NEW c \in Conn, NEW f \in Fd, Accept(c, f) PROVE Accepting'
    BY <1>4 DEF Accept
  <1>5. CASE CloseListeningSocket
    BY <1>5 DEF CloseListeningSocket
  <1>6. ASSUME NEW c \in Conn, ReadFails(c) PROVE Accepting'
    BY <1>6 DEF ReadFails
  <1>7. ASSUME NEW c \in Conn, NEW i \in Id, BeginRequest(c, i) PROVE Accepting'
    BY <1>7 DEF BeginRequest
  <1>8. ASSUME NEW c \in Conn, NEW i \in Id, IgnoreBegin(c, i) PROVE Accepting'
    BY <1>8 DEF IgnoreBegin
  <1>9. ASSUME NEW c \in Conn, NEW i \in Id, EndParams(c, i) PROVE Accepting'
    BY <1>9 DEF EndParams
  <1>10. ASSUME NEW c \in Conn, NEW i \in Id, IgnoreEndParams(c, i) PROVE Accepting'
    BY <1>10 DEF IgnoreEndParams
  <1>11. ASSUME NEW c \in Conn, NEW i \in Id, CancelRequest(c, i) PROVE Accepting'
    BY <1>11 DEF CancelRequest
  <1>12. ASSUME NEW c \in Conn, PushCount(c) PROVE Accepting'
    BY <1>12 DEF PushCount
  <1>13. ASSUME NEW c \in Conn, PushEnqueue(c) PROVE Accepting'
    BY <1>13 DEF PushEnqueue
  <1>14. ASSUME NEW c \in Conn, DropDeserializer(c) PROVE Accepting'
    BY <1>14 DEF DropDeserializer
  <1>15. ASSUME NEW c \in Conn, LeaveLoop(c) PROVE Accepting'
    BY <1>15 DEF LeaveLoop
  <1>16. ASSUME NEW c \in Conn, NEW i \in Id, SweepRequest(c, i) PROVE Accepting'
    BY <1>16 DEF SweepRequest
  <1>17. ASSUME NEW c \in Conn, SweepDone(c) PROVE Accepting'
    BY <1>17 DEF SweepDone
  <1>18. ASSUME NEW c \in Conn, StopPolling(c) PROVE Accepting'
    BY <1>18 DEF StopPolling
  <1>19. ASSUME NEW c \in Conn, Erase(c) PROVE Accepting'
    BY <1>19 DEF Erase
  <1>20. ASSUME NEW c \in Conn, CloseSocket(c) PROVE Accepting'
    BY <1>20 DEF CloseSocket
  <1>21. ASSUME NEW c \in Conn, UncountSocket(c) PROVE Accepting'
    BY <1>21 DEF UncountSocket
  <1>22. ASSUME NEW c \in Conn, Unlock(c) PROVE Accepting'
    BY <1>22 DEF Unlock
  <1>23. ASSUME NEW w \in Worker, CheckListening(w) PROVE Accepting'
    BY <1>23 DEF CheckListening
  <1>24. ASSUME NEW w \in Worker, CheckActive(w) PROVE Accepting'
    BY <1>24 DEF CheckActive
  <1>25. ASSUME NEW w \in Worker, PopRequest(w) PROVE Accepting'
    BY <1>25 DEF PopRequest
  <1>26. ASSUME NEW w \in Worker, AwaitRequest(w) PROVE Accepting'
    BY <1>26 DEF AwaitRequest
  <1>27. ASSUME NEW w \in Worker, SpuriousWakeup(w) PROVE Accepting'
    BY <1>27 DEF SpuriousWakeup
  <1>28. ASSUME NEW w \in Worker, Respond(w) PROVE Accepting'
    BY <1>28 DEF Respond
  <1>29. ASSUME NEW w \in Worker, SendEndRequest(w) PROVE Accepting'
    BY <1>29 DEF SendEndRequest
  <1>30. ASSUME NEW w \in Worker, UncountRequest(w) PROVE Accepting'
    BY <1>30 DEF UncountRequest
  <1>31. CASE UNCHANGED vars
    BY <1>31 DEF vars
  <1> QED
    BY <1>1, <1>2, <1>3, <1>4, <1>5, <1>6, <1>7, <1>8, <1>9, <1>10, <1>11,
       <1>12, <1>13, <1>14, <1>15, <1>16, <1>17, <1>18, <1>19, <1>20,
       <1>21, <1>22, <1>23, <1>24, <1>25, <1>26, <1>27, <1>28, <1>29,
       <1>30, <1>31
    DEF Next, MainStep, Environment, ConnStep, WorkerStep

\* No step gives a descriptor to two open sockets.
LEMMA DescriptorsStep == TypeInv /\ Descriptors /\ [Next]_vars => Descriptors'
  <1> SUFFICES ASSUME TypeInv /\ Descriptors, [Next]_vars PROVE Descriptors'
    OBVIOUS
  <1> USE DEF TypeInv, TypeOK, Descriptors, HasSocket, Listed, Started, Draining,
         connVars, Reading
  <1>1. ASSUME NEW c \in Conn, CreateConnection(c) PROVE Descriptors'
    BY <1>1 DEF CreateConnection
  <1>2. CASE BeginShutdown
    BY <1>2 DEF BeginShutdown
  <1>3. CASE Shutdown
    BY <1>3 DEF Shutdown
  <1>4. ASSUME NEW c \in Conn, NEW f \in Fd, Accept(c, f) PROVE Descriptors'
    BY <1>4, ServerAssumption DEF Accept
  <1>5. CASE CloseListeningSocket
    BY <1>5 DEF CloseListeningSocket
  <1>6. ASSUME NEW c \in Conn, ReadFails(c) PROVE Descriptors'
    BY <1>6 DEF ReadFails
  <1>7. ASSUME NEW c \in Conn, NEW i \in Id, BeginRequest(c, i) PROVE Descriptors'
    BY <1>7 DEF BeginRequest
  <1>8. ASSUME NEW c \in Conn, NEW i \in Id, IgnoreBegin(c, i) PROVE Descriptors'
    BY <1>8 DEF IgnoreBegin
  <1>9. ASSUME NEW c \in Conn, NEW i \in Id, EndParams(c, i) PROVE Descriptors'
    BY <1>9 DEF EndParams
  <1>10. ASSUME NEW c \in Conn, NEW i \in Id, IgnoreEndParams(c, i) PROVE Descriptors'
    BY <1>10 DEF IgnoreEndParams
  <1>11. ASSUME NEW c \in Conn, NEW i \in Id, CancelRequest(c, i) PROVE Descriptors'
    BY <1>11 DEF CancelRequest
  <1>12. ASSUME NEW c \in Conn, PushCount(c) PROVE Descriptors'
    BY <1>12 DEF PushCount
  <1>13. ASSUME NEW c \in Conn, PushEnqueue(c) PROVE Descriptors'
    BY <1>13 DEF PushEnqueue
  <1>14. ASSUME NEW c \in Conn, DropDeserializer(c) PROVE Descriptors'
    BY <1>14 DEF DropDeserializer
  <1>15. ASSUME NEW c \in Conn, LeaveLoop(c) PROVE Descriptors'
    BY <1>15 DEF LeaveLoop
  <1>16. ASSUME NEW c \in Conn, NEW i \in Id, SweepRequest(c, i) PROVE Descriptors'
    BY <1>16 DEF SweepRequest
  <1>17. ASSUME NEW c \in Conn, SweepDone(c) PROVE Descriptors'
    BY <1>17 DEF SweepDone
  <1>18. ASSUME NEW c \in Conn, StopPolling(c) PROVE Descriptors'
    BY <1>18 DEF StopPolling
  <1>19. ASSUME NEW c \in Conn, Erase(c) PROVE Descriptors'
    BY <1>19 DEF Erase
  <1>20. ASSUME NEW c \in Conn, CloseSocket(c) PROVE Descriptors'
    BY <1>20 DEF CloseSocket
  <1>21. ASSUME NEW c \in Conn, UncountSocket(c) PROVE Descriptors'
    BY <1>21 DEF UncountSocket
  <1>22. ASSUME NEW c \in Conn, Unlock(c) PROVE Descriptors'
    BY <1>22 DEF Unlock
  <1>23. ASSUME NEW w \in Worker, CheckListening(w) PROVE Descriptors'
    BY <1>23 DEF CheckListening
  <1>24. ASSUME NEW w \in Worker, CheckActive(w) PROVE Descriptors'
    BY <1>24 DEF CheckActive
  <1>25. ASSUME NEW w \in Worker, PopRequest(w) PROVE Descriptors'
    BY <1>25 DEF PopRequest
  <1>26. ASSUME NEW w \in Worker, AwaitRequest(w) PROVE Descriptors'
    BY <1>26 DEF AwaitRequest
  <1>27. ASSUME NEW w \in Worker, SpuriousWakeup(w) PROVE Descriptors'
    BY <1>27 DEF SpuriousWakeup
  <1>28. ASSUME NEW w \in Worker, Respond(w) PROVE Descriptors'
    BY <1>28 DEF Respond
  <1>29. ASSUME NEW w \in Worker, SendEndRequest(w) PROVE Descriptors'
    BY <1>29 DEF SendEndRequest
  <1>30. ASSUME NEW w \in Worker, UncountRequest(w) PROVE Descriptors'
    BY <1>30 DEF UncountRequest
  <1>31. CASE UNCHANGED vars
    BY <1>31 DEF vars
  <1> QED
    BY <1>1, <1>2, <1>3, <1>4, <1>5, <1>6, <1>7, <1>8, <1>9, <1>10, <1>11,
       <1>12, <1>13, <1>14, <1>15, <1>16, <1>17, <1>18, <1>19, <1>20,
       <1>21, <1>22, <1>23, <1>24, <1>25, <1>26, <1>27, <1>28, <1>29,
       <1>30, <1>31
    DEF Next, MainStep, Environment, ConnStep, WorkerStep

\* Requests are allocated by live connections only.
LEMMA AllocationStep == TypeInv /\ Control /\ Allocation /\ [Next]_vars => Allocation'
  <1> SUFFICES ASSUME TypeInv /\ Control /\ Allocation, [Next]_vars PROVE Allocation'
    OBVIOUS
  <1> USE DEF TypeInv, TypeOK, Control, Allocation, Listed, Started, Draining,
         connVars, requestVars, Reading
  <1>1. ASSUME NEW c \in Conn, CreateConnection(c) PROVE Allocation'
    BY <1>1 DEF CreateConnection
  <1>2. CASE BeginShutdown
    BY <1>2 DEF BeginShutdown
  <1>3. CASE Shutdown
    BY <1>3 DEF Shutdown
  <1>4. ASSUME NEW c \in Conn, NEW f \in Fd, Accept(c, f) PROVE Allocation'
    BY <1>4 DEF Accept
  <1>5. CASE CloseListeningSocket
    BY <1>5 DEF CloseListeningSocket
  <1>6. ASSUME NEW c \in Conn, ReadFails(c) PROVE Allocation'
    BY <1>6 DEF ReadFails
  <1>7. ASSUME NEW c \in Conn, NEW i \in Id, BeginRequest(c, i) PROVE Allocation'
    BY <1>7, RequestPair DEF BeginRequest
  <1>8. ASSUME NEW c \in Conn, NEW i \in Id, IgnoreBegin(c, i) PROVE Allocation'
    BY <1>8 DEF IgnoreBegin
  <1>9. ASSUME NEW c \in Conn, NEW i \in Id, EndParams(c, i) PROVE Allocation'
    BY <1>9, RequestPair DEF EndParams
  <1>10. ASSUME NEW c \in Conn, NEW i \in Id, IgnoreEndParams(c, i) PROVE Allocation'
    BY <1>10 DEF IgnoreEndParams
  <1>11. ASSUME NEW c \in Conn, NEW i \in Id, CancelRequest(c, i) PROVE Allocation'
    BY <1>11, RequestPair DEF CancelRequest
  <1>12. ASSUME NEW c \in Conn, PushCount(c) PROVE Allocation'
    BY <1>12 DEF PushCount
  <1>13. ASSUME NEW c \in Conn, PushEnqueue(c) PROVE Allocation'
    BY <1>13 DEF PushEnqueue
  <1>14. ASSUME NEW c \in Conn, DropDeserializer(c) PROVE Allocation'
    BY <1>14 DEF DropDeserializer
  <1>15. ASSUME NEW c \in Conn, LeaveLoop(c) PROVE Allocation'
    BY <1>15 DEF LeaveLoop
  <1>16. ASSUME NEW c \in Conn, NEW i \in Id, SweepRequest(c, i) PROVE Allocation'
    BY <1>16 DEF SweepRequest
  <1>17. ASSUME NEW c \in Conn, SweepDone(c) PROVE Allocation'
    BY <1>17 DEF SweepDone
  <1>18. ASSUME NEW c \in Conn, StopPolling(c) PROVE Allocation'
    BY <1>18 DEF StopPolling
  <1>19. ASSUME NEW c \in Conn, Erase(c) PROVE Allocation'
    BY <1>19, RequestParts DEF Erase
  <1>20. ASSUME NEW c \in Conn, CloseSocket(c) PROVE Allocation'
    BY <1>20 DEF CloseSocket
  <1>21. ASSUME NEW c \in Conn, UncountSocket(c) PROVE Allocation'
    BY <1>21 DEF UncountSocket
  <1>22. ASSUME NEW c \in Conn, Unlock(c) PROVE Allocation'
    BY <1>22 DEF Unlock
  <1>23. ASSUME NEW w \in Worker, CheckListening(w) PROVE Allocation'
    BY <1>23 DEF CheckListening
  <1>24. ASSUME NEW w \in Worker, CheckActive(w) PROVE Allocation'
    BY <1>24 DEF CheckActive
  <1>25. ASSUME NEW w \in Worker, PopRequest(w) PROVE Allocation'
    BY <1>25 DEF PopRequest
  <1>26. ASSUME NEW w \in Worker, AwaitRequest(w) PROVE Allocation'
    BY <1>26 DEF AwaitRequest
  <1>27. ASSUME NEW w \in Worker, SpuriousWakeup(w) PROVE Allocation'
    BY <1>27 DEF SpuriousWakeup
  <1>28. ASSUME NEW w \in Worker, Respond(w) PROVE Allocation'
    BY <1>28 DEF Respond
  <1>29. ASSUME NEW w \in Worker, SendEndRequest(w) PROVE Allocation'
    BY <1>29 DEF SendEndRequest
  <1>30. ASSUME NEW w \in Worker, UncountRequest(w) PROVE Allocation'
    BY <1>30 DEF UncountRequest
  <1>31. CASE UNCHANGED vars
    BY <1>31 DEF vars
  <1> QED
    BY <1>1, <1>2, <1>3, <1>4, <1>5, <1>6, <1>7, <1>8, <1>9, <1>10, <1>11,
       <1>12, <1>13, <1>14, <1>15, <1>16, <1>17, <1>18, <1>19, <1>20,
       <1>21, <1>22, <1>23, <1>24, <1>25, <1>26, <1>27, <1>28, <1>29,
       <1>30, <1>31
    DEF Next, MainStep, Environment, ConnStep, WorkerStep

-----------------------------------------------------------------------------
(* Who refers to a request.  Four actions move a request from one holder   *)
(* to the next; all the others leave every holder alone.                   *)

SameHolders ==
    /\ UNCHANGED <<queue, serving>>
    /\ \A r \in Request : BeingPushed(r)' <=> BeingPushed(r)

\* Unchanged holders hold the same requests.
LEMMA SameHeld ==
  ASSUME SameHolders
  PROVE  \A r \in Request :
           /\ InQueue(r)' <=> InQueue(r)
           /\ Served(r)' <=> Served(r)
           /\ Pledged(r)' <=> Pledged(r)
  BY DEF SameHolders, InQueue, Served, Pledged

\* The end of PARAMS puts one request in the hands of its thread.
LEMMA EndParamsHolder ==
  ASSUME TypeInv, NEW c \in Conn, NEW i \in Id, EndParams(c, i)
  PROVE  /\ UNCHANGED <<queue, serving>>
         /\ \A r \in Request :
              BeingPushed(r)' <=> BeingPushed(r) \/ r = <<c, i>>
  <1>1. UNCHANGED <<queue, serving>>
    BY DEF EndParams, workerVars, queueVars
  <1>2. ASSUME NEW r \in Request
        PROVE  BeingPushed(r)' <=> BeingPushed(r) \/ r = <<c, i>>
    BY RequestPair, RequestParts DEF EndParams, Reading, BeingPushed, TypeInv, TypeOK, HandOff, Handing
  <1> QED BY <1>1, <1>2

\* PushEnqueue moves a request from its thread to the queue.
LEMMA EnqueueHolder ==
  ASSUME TypeInv, NEW c \in Conn, PushEnqueue(c)
  PROVE  /\ handed[c] \in Request /\ BeingPushed(handed[c])
         /\ UNCHANGED serving
         /\ \A r \in Request :
              /\ InQueue(r)' <=> InQueue(r) \/ r = handed[c]
              /\ BeingPushed(r)' <=> BeingPushed(r) /\ r # handed[c]
  <1>1. handed[c] \in Request /\ handed[c][1] = c /\ BeingPushed(handed[c])
    BY DEF PushEnqueue, TypeInv, HandOff, Handing, BeingPushed
  <1>2. UNCHANGED serving
    BY DEF PushEnqueue, workerVars
  <1>3. ASSUME NEW r \in Request
        PROVE  InQueue(r)' <=> InQueue(r) \/ r = handed[c]
    <2>1. queue \in Seq(Request) /\ queue' = Append(queue, handed[c])
      BY DEF PushEnqueue, Enqueue, TypeInv, TypeOK
    <2>2. /\ Len(queue) \in Nat /\ DOMAIN queue = 1..Len(queue)
          /\ DOMAIN queue' = 1..(Len(queue) + 1)
          /\ \A k \in 1..Len(queue) : queue'[k] = queue[k]
          /\ queue'[Len(queue) + 1] = handed[c]
      BY <1>1, <2>1
    <2> QED BY <2>2 DEF InQueue
  <1>4. ASSUME NEW r \in Request
        PROVE  BeingPushed(r)' <=> BeingPushed(r) /\ r # handed[c]
    BY <1>1, RequestParts
    DEF PushEnqueue, BeingPushed, TypeInv, TypeOK, HandOff, Handing, requestVars
  <1> QED BY <1>1, <1>2, <1>3, <1>4

\* PopRequest moves the head of the queue to a worker.
LEMMA PopHolder ==
  ASSUME TypeInv, Control, ExclusiveUse, NEW w \in Worker, PopRequest(w)
  PROVE  /\ Head(queue) \in Request /\ InQueue(Head(queue))
         /\ serving[w] = NoRequest
         /\ \A r \in Request :
              /\ InQueue(r)' <=> InQueue(r) /\ r # Head(queue)
              /\ Served(r)' <=> Served(r) \/ r = Head(queue)
              /\ BeingPushed(r)' <=> BeingPushed(r)
  <1>1. Head(queue) \in Request /\ InQueue(Head(queue))
    BY DEF PopRequest, Dequeue, InQueue, TypeInv, TypeOK
  <1>2. serving[w] = NoRequest
    BY DEF PopRequest, Control, Running
  <1>3. ASSUME NEW r \in Request
        PROVE  InQueue(r)' <=> InQueue(r) /\ r # Head(queue)
    <2>1. /\ queue \in Seq(Request) /\ queue # <<>> /\ queue' = Tail(queue)
          /\ \A j, k \in DOMAIN queue : queue[j] = queue[k] => j = k
      BY DEF PopRequest, Dequeue, TypeInv, TypeOK, ExclusiveUse
    <2>2. /\ Len(queue) \in Nat /\ Len(queue) > 0 /\ DOMAIN queue = 1..Len(queue)
          /\ DOMAIN queue' = 1..(Len(queue) - 1)
          /\ \A k \in 1..(Len(queue) - 1) : queue'[k] = queue[k + 1]
          /\ Head(queue) = queue[1]
      BY <2>1
    <2>3. ASSUME InQueue(r)' PROVE InQueue(r) /\ r # Head(queue)
      <3>1. PICK k \in 1..(Len(queue) - 1) : queue'[k] = r
        BY <2>2, <2>3 DEF InQueue
      <3>2. queue[k + 1] = r /\ k + 1 \in DOMAIN queue /\ k + 1 # 1 /\ 1 \in DOMAIN queue
        BY <2>2, <3>1
      <3> QED BY <2>1, <2>2, <3>2 DEF InQueue
    <2>4. ASSUME InQueue(r), r # Head(queue) PROVE InQueue(r)'
      <3>1. PICK k \in 1..Len(queue) : queue[k] = r
        BY <2>2, <2>4 DEF InQueue
      <3>2. k - 1 \in DOMAIN queue' /\ queue'[k - 1] = r
        BY <2>2, <2>4, <3>1
      <3> QED BY <3>2 DEF InQueue
    <2> QED BY <2>3, <2>4
  <1>4. ASSUME NEW r \in Request
        PROVE  Served(r)' <=> Served(r) \/ r = Head(queue)
    BY <1>2, RequestParts DEF PopRequest, Served, TypeInv, TypeOK
  <1>5. ASSUME NEW r \in Request
        PROVE  BeingPushed(r)' <=> BeingPushed(r)
    BY DEF PopRequest, BeingPushed, connVars, requestVars
  <1> QED BY <1>1, <1>2, <1>3, <1>4, <1>5

\* UncountRequest releases the request of one worker.
LEMMA UncountHolder ==
  ASSUME TypeInv, Control, ExclusiveUse, NEW w \in Worker, UncountRequest(w)
  PROVE  /\ serving[w] \in Request /\ Served(serving[w])
         /\ UNCHANGED queue
         /\ \A r \in Request :
              /\ Served(r)' <=> Served(r) /\ r # serving[w]
              /\ BeingPushed(r)' <=> BeingPushed(r)
  <1>1. serving[w] \in Request /\ Served(serving[w])
    BY DEF UncountRequest, Control, Running, Served, TypeInv, TypeOK
  <1>2. ASSUME NEW r \in Request
        PROVE  Served(r)' <=> Served(r) /\ r # serving[w]
    BY <1>1, RequestParts DEF UncountRequest, Served, TypeInv, TypeOK, ExclusiveUse
  <1> QED BY <1>1, <1>2 DEF UncountRequest, BeingPushed, connVars, queueVars

HolderStep ==
    \/ SameHolders
    \/ \E c \in Conn, i \in Id : EndParams(c, i)
    \/ \E c \in Conn : PushEnqueue(c)
    \/ \E w \in Worker : PopRequest(w) \/ UncountRequest(w)

\* What a step can do to the places that hold requests.
LEMMA HolderCases == TypeInv /\ [Next]_vars => HolderStep
  <1> SUFFICES ASSUME TypeInv, [Next]_vars PROVE HolderStep
    OBVIOUS
  <1> USE DEF HolderStep, SameHolders, BeingPushed, TypeInv, TypeOK, HandOff, Handing,
         connVars, requestVars, workerVars, queueVars
  <1>1. ASSUME NEW c \in Conn, CreateConnection(c) PROVE HolderStep
    BY <1>1 DEF CreateConnection
  <1>2. CASE BeginShutdown
    BY <1>2 DEF BeginShutdown
  <1>3. CASE Shutdown
    BY <1>3 DEF Shutdown
  <1>4. ASSUME NEW c \in Conn, NEW f \in Fd, Accept(c, f) PROVE HolderStep
    BY <1>4 DEF Accept
  <1>5. CASE CloseListeningSocket
    BY <1>5 DEF CloseListeningSocket
  <1>6. ASSUME NEW c \in Conn, ReadFails(c) PROVE HolderStep
    BY <1>6 DEF ReadFails
  <1>7. ASSUME NEW c \in Conn, NEW i \in Id, BeginRequest(c, i) PROVE HolderStep
    BY <1>7 DEF BeginRequest
  <1>8. ASSUME NEW c \in Conn, NEW i \in Id, IgnoreBegin(c, i) PROVE HolderStep
    BY <1>8 DEF IgnoreBegin
  <1>9. ASSUME NEW c \in Conn, NEW i \in Id, EndParams(c, i) PROVE HolderStep
    BY <1>9
  <1>10. ASSUME NEW c \in Conn, NEW i \in Id, IgnoreEndParams(c, i) PROVE HolderStep
    BY <1>10 DEF IgnoreEndParams
  <1>11. ASSUME NEW c \in Conn, NEW i \in Id, CancelRequest(c, i) PROVE HolderStep
    BY <1>11 DEF CancelRequest
  <1>12. ASSUME NEW c \in Conn, PushCount(c) PROVE HolderStep
    BY <1>12 DEF PushCount, CountBacklog
  <1>13. ASSUME NEW c \in Conn, PushEnqueue(c) PROVE HolderStep
    BY <1>13
  <1>14. ASSUME NEW c \in Conn, DropDeserializer(c) PROVE HolderStep
    BY <1>14 DEF DropDeserializer
  <1>15. ASSUME NEW c \in Conn, LeaveLoop(c) PROVE HolderStep
    BY <1>15 DEF LeaveLoop
  <1>16. ASSUME NEW c \in Conn, NEW i \in Id, SweepRequest(c, i) PROVE HolderStep
    BY <1>16 DEF SweepRequest
  <1>17. ASSUME NEW c \in Conn, SweepDone(c) PROVE HolderStep
    BY <1>17 DEF SweepDone
  <1>18. ASSUME NEW c \in Conn, StopPolling(c) PROVE HolderStep
    BY <1>18 DEF StopPolling
  <1>19. ASSUME NEW c \in Conn, Erase(c) PROVE HolderStep
    BY <1>19 DEF Erase
  <1>20. ASSUME NEW c \in Conn, CloseSocket(c) PROVE HolderStep
    BY <1>20 DEF CloseSocket
  <1>21. ASSUME NEW c \in Conn, UncountSocket(c) PROVE HolderStep
    BY <1>21 DEF UncountSocket
  <1>22. ASSUME NEW c \in Conn, Unlock(c) PROVE HolderStep
    BY <1>22 DEF Unlock
  <1>23. ASSUME NEW w \in Worker, CheckListening(w) PROVE HolderStep
    BY <1>23 DEF CheckListening
  <1>24. ASSUME NEW w \in Worker, CheckActive(w) PROVE HolderStep
    BY <1>24 DEF CheckActive
  <1>25. ASSUME NEW w \in Worker, PopRequest(w) PROVE HolderStep
    BY <1>25
  <1>26. ASSUME NEW w \in Worker, AwaitRequest(w) PROVE HolderStep
    BY <1>26 DEF AwaitRequest, Block
  <1>27. ASSUME NEW w \in Worker, SpuriousWakeup(w) PROVE HolderStep
    BY <1>27 DEF SpuriousWakeup, WakeSpuriously
  <1>28. ASSUME NEW w \in Worker, Respond(w) PROVE HolderStep
    BY <1>28 DEF Respond
  <1>29. ASSUME NEW w \in Worker, SendEndRequest(w) PROVE HolderStep
    BY <1>29 DEF SendEndRequest
  <1>30. ASSUME NEW w \in Worker, UncountRequest(w) PROVE HolderStep
    BY <1>30
  <1>31. CASE UNCHANGED vars
    BY <1>31 DEF vars
  <1> QED
    BY <1>1, <1>2, <1>3, <1>4, <1>5, <1>6, <1>7, <1>8, <1>9, <1>10, <1>11,
       <1>12, <1>13, <1>14, <1>15, <1>16, <1>17, <1>18, <1>19, <1>20,
       <1>21, <1>22, <1>23, <1>24, <1>25, <1>26, <1>27, <1>28, <1>29,
       <1>30, <1>31
    DEF Next, MainStep, Environment, ConnStep, WorkerStep

-----------------------------------------------------------------------------
(* The requests.                                                           *)

\* A connection thread that is not handing a request over finds a
\* deserializer only in a request nobody else holds.
LEMMA Untouchable ==
  ASSUME TypeInv, Pending, NEW c \in Conn, NEW i \in Id,
         conn[c] \notin Handing
  PROVE  /\ handed[c] = NoRequest
         /\ state[<<c, i>>] # "PENDING" => ~Pledged(<<c, i>>)
         /\ deserializer[<<c, i>>] =>
              state[<<c, i>>] = "READING_PARAMS" /\ ~Pledged(<<c, i>>)
  <1>1. handed[c] = NoRequest
    BY DEF TypeInv, HandOff
  <1> QED BY <1>1, RequestPair DEF Pending

\* A request never gets a second holder.
LEMMA ExclusiveStep ==
  ASSUME TypeInv, Control, Pending, ExclusiveUse, [Next]_vars
  PROVE  ExclusiveUse'
  <1>1. CASE SameHolders
    BY <1>1, SameHeld DEF SameHolders, ExclusiveUse
  <1>2. ASSUME NEW c \in Conn, NEW i \in Id, EndParams(c, i)
        PROVE  ExclusiveUse'
    <2>1. conn[c] \notin Handing /\ deserializer[<<c, i>>]
      BY <1>2 DEF EndParams, Reading, Handing
    <2>2. ~Pledged(<<c, i>>)
      BY <2>1, Untouchable
    <2> QED
      BY <1>2, <2>2, EndParamsHolder
      DEF ExclusiveUse, Pledged, InQueue, Served
  <1>3. ASSUME NEW c \in Conn, PushEnqueue(c)
        PROVE  ExclusiveUse'
    <2>1. /\ handed[c] \in Request
          /\ ~InQueue(handed[c]) /\ ~Served(handed[c])
      BY <1>3, EnqueueHolder DEF ExclusiveUse
    <2>2. \A j, k \in DOMAIN queue' : queue'[j] = queue'[k] => j = k
      <3>1. queue \in Seq(Request) /\ queue' = Append(queue, handed[c])
        BY <1>3 DEF PushEnqueue, Enqueue, TypeInv, TypeOK
      <3>2. /\ Len(queue) \in Nat /\ DOMAIN queue = 1..Len(queue)
            /\ DOMAIN queue' = 1..(Len(queue) + 1)
            /\ \A k \in 1..Len(queue) : queue'[k] = queue[k]
            /\ queue'[Len(queue) + 1] = handed[c]
        BY <2>1, <3>1
      <3> QED BY <2>1, <3>2 DEF InQueue, ExclusiveUse
    <2>3. \A v, w \in Worker :
            serving'[v] = serving'[w] /\ serving'[v] # NoRequest => v = w
      BY <1>3, EnqueueHolder DEF ExclusiveUse
    <2>4. \A r \in Request : Served(r)' <=> Served(r)
      BY <1>3, EnqueueHolder DEF Served
    <2> QED
      BY <1>3, <2>1, <2>2, <2>3, <2>4, EnqueueHolder DEF ExclusiveUse
  <1>4. ASSUME NEW w \in Worker, PopRequest(w)
        PROVE  ExclusiveUse'
    <2>1. \A j, k \in DOMAIN queue' : queue'[j] = queue'[k] => j = k
      <3>1. queue \in Seq(Request) /\ queue # <<>> /\ queue' = Tail(queue)
        BY <1>4 DEF PopRequest, Dequeue, TypeInv, TypeOK
      <3>2. /\ Len(queue) \in Nat /\ DOMAIN queue = 1..Len(queue)
            /\ DOMAIN queue' = 1..(Len(queue) - 1)
            /\ \A k \in 1..(Len(queue) - 1) : queue'[k] = queue[k + 1]
        BY <3>1
      <3> QED BY <3>2 DEF ExclusiveUse
    <2>2. \A u, v \in Worker :
            serving'[u] = serving'[v] /\ serving'[u] # NoRequest => u = v
      <3>1. Head(queue) \in Request /\ ~Served(Head(queue))
        BY <1>4, PopHolder DEF ExclusiveUse
      <3>2. /\ serving \in [Worker -> Request \cup {NoRequest}]
            /\ serving' = [serving EXCEPT ![w] = Head(queue)]
        BY <1>4 DEF PopRequest, TypeInv, TypeOK
      <3> QED BY <3>1, <3>2 DEF ExclusiveUse, Served
    <2> QED BY <1>4, <2>1, <2>2, PopHolder DEF ExclusiveUse
  <1>5. ASSUME NEW w \in Worker, UncountRequest(w)
        PROVE  ExclusiveUse'
    <2>1. \A u, v \in Worker :
            serving'[u] = serving'[v] /\ serving'[u] # NoRequest => u = v
      BY <1>5 DEF ExclusiveUse, UncountRequest, TypeInv, TypeOK
    <2>2. \A r \in Request : InQueue(r)' <=> InQueue(r)
      BY <1>5, UncountHolder DEF InQueue
    <2> QED BY <1>5, <2>1, <2>2, UncountHolder DEF ExclusiveUse
  <1> QED
    BY <1>1, <1>2, <1>3, <1>4, <1>5, HolderCases DEF HolderStep

\* A held request stays PENDING, whatever packets arrive.
LEMMA PendingStep == TypeInv /\ Control /\ RequestInv /\ [Next]_vars => Pending'
  <1> SUFFICES ASSUME TypeInv /\ Control /\ RequestInv, [Next]_vars PROVE Pending'
    OBVIOUS
  <1> USE DEF RequestInv, Pending
  <1>1. ASSUME NEW c \in Conn, CreateConnection(c) PROVE Pending'
    <2>1. SameHolders
      BY <1>1 DEF CreateConnection, SameHolders, BeingPushed, connVars, requestVars,
             workerVars, queueVars, TypeInv, TypeOK
    <2> QED BY <1>1, <2>1, SameHeld DEF CreateConnection, requestVars, connVars
  <1>2. CASE BeginShutdown
    <2>1. SameHolders
      BY <1>2 DEF BeginShutdown, SameHolders, BeingPushed, connVars, requestVars,
             workerVars, queueVars, TypeInv, TypeOK
    <2> QED BY <1>2, <2>1, SameHeld DEF BeginShutdown, requestVars, connVars
  <1>3. CASE Shutdown
    <2>1. SameHolders
      BY <1>3 DEF Shutdown, SameHolders, BeingPushed, connVars, requestVars,
             workerVars, queueVars, TypeInv, TypeOK
    <2> QED BY <1>3, <2>1, SameHeld DEF Shutdown, requestVars, connVars
  <1>4. ASSUME NEW c \in Conn, NEW f \in Fd, Accept(c, f) PROVE Pending'
    <2>1. SameHolders
      BY <1>4 DEF Accept, SameHolders, BeingPushed, connVars, requestVars,
             workerVars, queueVars, TypeInv, TypeOK
    <2> QED BY <1>4, <2>1, SameHeld DEF Accept, requestVars, connVars
  <1>5. CASE CloseListeningSocket
    <2>1. SameHolders
      BY <1>5 DEF CloseListeningSocket, SameHolders, BeingPushed, connVars, requestVars,
             workerVars, queueVars, TypeInv, TypeOK
    <2> QED BY <1>5, <2>1, SameHeld DEF CloseListeningSocket, requestVars, connVars
  <1>6. ASSUME NEW c \in Conn, ReadFails(c) PROVE Pending'
    <2>1. SameHolders
      BY <1>6 DEF ReadFails, SameHolders, BeingPushed, connVars, requestVars,
             workerVars, queueVars, TypeInv, TypeOK
    <2> QED BY <1>6, <2>1, SameHeld DEF ReadFails, requestVars, connVars
  <1>7. ASSUME NEW c \in Conn, NEW i \in Id, BeginRequest(c, i) PROVE Pending'
    <2>1. \A r \in Request : Pledged(r)' <=> Pledged(r)
      BY <1>7 DEF BeginRequest, Pledged, InQueue, Served, BeingPushed, queueVars, workerVars
    <2>2. handed[c] = NoRequest /\ ~Pledged(<<c, i>>)
      BY <1>7, Untouchable DEF BeginRequest, FoundReady, Reading, Handing
    <2> QED BY <1>7, <2>1, <2>2, RequestPair, RequestParts DEF BeginRequest, TypeInv, TypeOK
  <1>8. ASSUME NEW c \in Conn, NEW i \in Id, IgnoreBegin(c, i) PROVE Pending'
    <2>1. SameHolders
      BY <1>8 DEF IgnoreBegin, SameHolders, BeingPushed, connVars, requestVars,
             workerVars, queueVars, TypeInv, TypeOK
    <2> QED BY <1>8, <2>1, SameHeld DEF IgnoreBegin, requestVars, connVars
  <1>9. ASSUME NEW c \in Conn, NEW i \in Id, EndParams(c, i) PROVE Pending'
    <2>1. \A r \in Request : Pledged(r)' => Pledged(r) \/ r = <<c, i>>
      BY <1>9, EndParamsHolder DEF Pledged, InQueue, Served
    <2>2. \A r \in Request : handed'[r[1]] = r => handed[r[1]] = r \/ r = <<c, i>>
      BY <1>9, RequestParts DEF EndParams, TypeInv, TypeOK
    <2>3. /\ \A r \in Request : state'[r] = IF r = <<c, i>> THEN "PENDING" ELSE state[r]
          /\ deserializer' = deserializer
      BY <1>9, RequestPair DEF EndParams, TypeInv, TypeOK
    <2>4. \A r \in Request : handed[r[1]] = r => handed'[r[1]] = r
      <3>1. handed[c] = NoRequest
        BY <1>9, Untouchable DEF EndParams, Reading, Handing
      <3> QED BY <1>9, <3>1, RequestParts DEF EndParams, TypeInv, TypeOK
    <2>5. handed'[c] = <<c, i>>
      BY <1>9 DEF EndParams, TypeInv, TypeOK
    <2> QED BY <2>1, <2>2, <2>3, <2>4, <2>5, RequestPair
  <1>10. ASSUME NEW c \in Conn, NEW i \in Id, IgnoreEndParams(c, i) PROVE Pending'
    <2>1. SameHolders
      BY <1>10 DEF IgnoreEndParams, SameHolders, BeingPushed, connVars, requestVars,
             workerVars, queueVars, TypeInv, TypeOK
    <2> QED BY <1>10, <2>1, SameHeld DEF IgnoreEndParams, requestVars, connVars
  <1>11. ASSUME NEW c \in Conn, NEW i \in Id, CancelRequest(c, i) PROVE Pending'
    <2>1. \A r \in Request : Pledged(r)' <=> Pledged(r)
      BY <1>11 DEF CancelRequest, Pledged, InQueue, Served, BeingPushed, queueVars, workerVars
    <2>2. handed[c] = NoRequest /\ ~Pledged(<<c, i>>)
      BY <1>11, Untouchable DEF CancelRequest, Reading, Handing
    <2> QED BY <1>11, <2>1, <2>2, RequestPair, RequestParts DEF CancelRequest, TypeInv, TypeOK
  <1>12. ASSUME NEW c \in Conn, PushCount(c) PROVE Pending'
    <2>1. SameHolders
      BY <1>12 DEF PushCount, CountBacklog, SameHolders, BeingPushed, workerVars, requestVars, TypeInv, TypeOK
    <2> QED BY <1>12, <2>1, SameHeld DEF PushCount, requestVars
  <1>13. ASSUME NEW c \in Conn, PushEnqueue(c) PROVE Pending'
    <2>1. \A r \in Request : Pledged(r)' <=> Pledged(r)
      BY <1>13, EnqueueHolder DEF Pledged, Served
    <2> QED BY <1>13, <2>1 DEF PushEnqueue, requestVars
  <1>14. ASSUME NEW c \in Conn, DropDeserializer(c) PROVE Pending'
    <2>1. SameHolders
      BY <1>14 DEF DropDeserializer, SameHolders, BeingPushed, workerVars, queueVars, TypeInv, TypeOK, HandOff, Handing
    <2>2. handed[c] \in Request /\ handed[c][1] = c
      BY <1>14 DEF DropDeserializer, TypeInv, HandOff, Handing
    <2>3. \A r \in Request : handed'[r[1]] = r => handed[r[1]] = r
      BY <1>14, RequestParts DEF DropDeserializer, TypeInv, TypeOK
    <2>4. \A r \in Request : deserializer'[r] => deserializer[r] /\ r # handed[c]
      BY <1>14, <2>2 DEF DropDeserializer, TypeInv, TypeOK
    <2>5. \A r \in Request : handed[r[1]] = r /\ r # handed[c] => handed'[r[1]] = r
      BY <1>14, RequestParts DEF DropDeserializer, TypeInv, TypeOK
    <2> QED BY <1>14, <2>1, <2>3, <2>4, <2>5, SameHeld DEF DropDeserializer
  <1>15. ASSUME NEW c \in Conn, LeaveLoop(c) PROVE Pending'
    <2>1. SameHolders
      BY <1>15 DEF LeaveLoop, SameHolders, BeingPushed, connVars, requestVars,
             workerVars, queueVars, TypeInv, TypeOK
    <2> QED BY <1>15, <2>1, SameHeld DEF LeaveLoop, requestVars, connVars
  <1>16. ASSUME NEW c \in Conn, NEW i \in Id, SweepRequest(c, i) PROVE Pending'
    <2>1. \A r \in Request : Pledged(r)' <=> Pledged(r)
      BY <1>16 DEF SweepRequest, Pledged, InQueue, Served, BeingPushed, connVars, queueVars, workerVars
    <2>2. handed[c] = NoRequest /\ ~Pledged(<<c, i>>)
      BY <1>16, Untouchable DEF SweepRequest, Discardable, Handing
    <2> QED BY <1>16, <2>1, <2>2, RequestPair, RequestParts DEF SweepRequest, TypeInv, TypeOK
  <1>17. ASSUME NEW c \in Conn, SweepDone(c) PROVE Pending'
    <2>1. SameHolders
      BY <1>17 DEF SweepDone, SameHolders, BeingPushed, connVars, requestVars,
             workerVars, queueVars, TypeInv, TypeOK
    <2> QED BY <1>17, <2>1, SameHeld DEF SweepDone, requestVars, connVars
  <1>18. ASSUME NEW c \in Conn, StopPolling(c) PROVE Pending'
    <2>1. SameHolders
      BY <1>18 DEF StopPolling, SameHolders, BeingPushed, connVars, requestVars,
             workerVars, queueVars, TypeInv, TypeOK
    <2> QED BY <1>18, <2>1, SameHeld DEF StopPolling, requestVars, connVars
  <1>19. ASSUME NEW c \in Conn, Erase(c) PROVE Pending'
    <2>1. SameHolders
      BY <1>19 DEF Erase, SameHolders, BeingPushed, workerVars, queueVars, TypeInv, TypeOK
    <2>2. \A r \in Request : r[1] = c => ~Pledged(r) /\ handed[r[1]] # r
      BY <1>19, RequestParts, Untouchable DEF Erase, DrainedForGood, ActiveIds, Active, Handing
    <2> QED BY <1>19, <2>1, <2>2, SameHeld DEF Erase
  <1>20. ASSUME NEW c \in Conn, CloseSocket(c) PROVE Pending'
    <2>1. SameHolders
      BY <1>20 DEF CloseSocket, SameHolders, BeingPushed, connVars, requestVars,
             workerVars, queueVars, TypeInv, TypeOK
    <2> QED BY <1>20, <2>1, SameHeld DEF CloseSocket, requestVars, connVars
  <1>21. ASSUME NEW c \in Conn, UncountSocket(c) PROVE Pending'
    <2>1. SameHolders
      BY <1>21 DEF UncountSocket, SameHolders, BeingPushed, connVars, requestVars,
             workerVars, queueVars, TypeInv, TypeOK
    <2> QED BY <1>21, <2>1, SameHeld DEF UncountSocket, requestVars, connVars
  <1>22. ASSUME NEW c \in Conn, Unlock(c) PROVE Pending'
    <2>1. SameHolders
      BY <1>22 DEF Unlock, SameHolders, BeingPushed, connVars, requestVars,
             workerVars, queueVars, TypeInv, TypeOK
    <2> QED BY <1>22, <2>1, SameHeld DEF Unlock, requestVars, connVars
  <1>23. ASSUME NEW w \in Worker, CheckListening(w) PROVE Pending'
    <2>1. SameHolders
      BY <1>23 DEF CheckListening, SameHolders, BeingPushed, connVars, requestVars,
             workerVars, queueVars, TypeInv, TypeOK
    <2> QED BY <1>23, <2>1, SameHeld DEF CheckListening, requestVars, connVars
  <1>24. ASSUME NEW w \in Worker, CheckActive(w) PROVE Pending'
    <2>1. SameHolders
      BY <1>24 DEF CheckActive, SameHolders, BeingPushed, connVars, requestVars,
             workerVars, queueVars, TypeInv, TypeOK
    <2> QED BY <1>24, <2>1, SameHeld DEF CheckActive, requestVars, connVars
  <1>25. ASSUME NEW w \in Worker, PopRequest(w) PROVE Pending'
    <2>1. \A r \in Request : Pledged(r)' => Pledged(r)
      BY <1>25, PopHolder DEF Pledged
    <2> QED BY <1>25, <2>1 DEF PopRequest, requestVars
  <1>26. ASSUME NEW w \in Worker, AwaitRequest(w) PROVE Pending'
    <2>1. SameHolders
      BY <1>26 DEF AwaitRequest, Block, SameHolders, BeingPushed, connVars, requestVars,
             workerVars, TypeInv, TypeOK
    <2> QED BY <1>26, <2>1, SameHeld DEF AwaitRequest, requestVars
  <1>27. ASSUME NEW w \in Worker, SpuriousWakeup(w) PROVE Pending'
    <2>1. SameHolders
      BY <1>27 DEF SpuriousWakeup, WakeSpuriously, SameHolders, BeingPushed, connVars, requestVars,
             workerVars, TypeInv, TypeOK
    <2> QED BY <1>27, <2>1, SameHeld DEF SpuriousWakeup, requestVars
  <1>28. ASSUME NEW w \in Worker, Respond(w) PROVE Pending'
    <2>1. SameHolders
      BY <1>28 DEF Respond, SameHolders, BeingPushed, connVars, requestVars,
             workerVars, queueVars, TypeInv, TypeOK
    <2> QED BY <1>28, <2>1, SameHeld DEF Respond, requestVars, connVars
  <1>29. ASSUME NEW w \in Worker, SendEndRequest(w) PROVE Pending'
    <2>1. SameHolders
      BY <1>29 DEF SendEndRequest, SameHolders, BeingPushed, connVars, requestVars,
             workerVars, queueVars, TypeInv, TypeOK
    <2> QED BY <1>29, <2>1, SameHeld DEF SendEndRequest, requestVars, connVars
  <1>30. ASSUME NEW w \in Worker, UncountRequest(w) PROVE Pending'
    <2>1. \A r \in Request : Pledged(r)' => Pledged(r)
      BY <1>30, UncountHolder DEF Pledged, InQueue
    <2> QED BY <1>30, <2>1 DEF UncountRequest
  <1>31. CASE UNCHANGED vars
    <2>1. SameHolders
      BY <1>31 DEF vars, SameHolders, BeingPushed, connVars, requestVars,
             workerVars, queueVars, TypeInv, TypeOK
    <2> QED BY <1>31, <2>1, SameHeld DEF vars, requestVars, connVars
  <1> QED
    BY <1>1, <1>2, <1>3, <1>4, <1>5, <1>6, <1>7, <1>8, <1>9, <1>10, <1>11,
       <1>12, <1>13, <1>14, <1>15, <1>16, <1>17, <1>18, <1>19, <1>20,
       <1>21, <1>22, <1>23, <1>24, <1>25, <1>26, <1>27, <1>28, <1>29,
       <1>30, <1>31
    DEF Next, MainStep, Environment, ConnStep, WorkerStep

-----------------------------------------------------------------------------
(* The active requests change one at a time, each with the counter.        *)

Stay ==
    /\ UNCHANGED request_actives
    /\ \A d \in Conn : ActiveIds(d)' = ActiveIds(d)

Grow(c, i) ==
    /\ conn[c] = "loop" /\ i \notin ActiveIds(c)
    /\ request_actives' = [request_actives EXCEPT ![c] = @ + 1]
    /\ ActiveIds(c)' = ActiveIds(c) \cup {i}
    /\ \A d \in Conn \ {c} : ActiveIds(d)' = ActiveIds(d)

Shrink(c, i) ==
    /\ i \in ActiveIds(c)
    /\ request_actives' = [request_actives EXCEPT ![c] = Decrement(@)]
    /\ ActiveIds(c)' = ActiveIds(c) \ {i}
    /\ \A d \in Conn \ {c} : ActiveIds(d)' = ActiveIds(d)

OneAtATime ==
    \/ Stay
    \/ \E c \in Conn, i \in Id : Grow(c, i) \/ Shrink(c, i)

RequestStep ==
    \/ UNCHANGED <<state, request_actives>>
    \/ \E c \in Conn, i \in Id :
         \/ BeginRequest(c, i) \/ EndParams(c, i)
         \/ CancelRequest(c, i) \/ SweepRequest(c, i)
    \/ \E c \in Conn : Erase(c)
    \/ \E w \in Worker : UncountRequest(w)

\* What a step can do to the states of requests and to their counters.
LEMMA RequestCases == [Next]_vars => RequestStep
  <1> SUFFICES ASSUME [Next]_vars PROVE RequestStep
    OBVIOUS
  <1> USE DEF RequestStep, requestVars
  <1>1. ASSUME NEW c \in Conn, CreateConnection(c) PROVE RequestStep
    BY <1>1 DEF CreateConnection
  <1>2. CASE BeginShutdown
    BY <1>2 DEF BeginShutdown
  <1>3. CASE Shutdown
    BY <1>3 DEF Shutdown
  <1>4. ASSUME NEW c \in Conn, NEW f \in Fd, Accept(c, f) PROVE RequestStep
    BY <1>4 DEF Accept
  <1>5. CASE CloseListeningSocket
    BY <1>5 DEF CloseListeningSocket
  <1>6. ASSUME NEW c \in Conn, ReadFails(c) PROVE RequestStep
    BY <1>6 DEF ReadFails
  <1>7. ASSUME NEW c \in Conn, NEW i \in Id, BeginRequest(c, i) PROVE RequestStep
    BY <1>7
  <1>8. ASSUME NEW c \in Conn, NEW i \in Id, IgnoreBegin(c, i) PROVE RequestStep
    BY <1>8 DEF IgnoreBegin
  <1>9. ASSUME NEW c \in Conn, NEW i \in Id, EndParams(c, i) PROVE RequestStep
    BY <1>9
  <1>10. ASSUME NEW c \in Conn, NEW i \in Id, IgnoreEndParams(c, i) PROVE RequestStep
    BY <1>10 DEF IgnoreEndParams
  <1>11. ASSUME NEW c \in Conn, NEW i \in Id, CancelRequest(c, i) PROVE RequestStep
    BY <1>11
  <1>12. ASSUME NEW c \in Conn, PushCount(c) PROVE RequestStep
    BY <1>12 DEF PushCount
  <1>13. ASSUME NEW c \in Conn, PushEnqueue(c) PROVE RequestStep
    BY <1>13 DEF PushEnqueue
  <1>14. ASSUME NEW c \in Conn, DropDeserializer(c) PROVE RequestStep
    BY <1>14 DEF DropDeserializer
  <1>15. ASSUME NEW c \in Conn, LeaveLoop(c) PROVE RequestStep
    BY <1>15 DEF LeaveLoop
  <1>16. ASSUME NEW c \in Conn, NEW i \in Id, SweepRequest(c, i) PROVE RequestStep
    BY <1>16
  <1>17. ASSUME NEW c \in Conn, SweepDone(c) PROVE RequestStep
    BY <1>17 DEF SweepDone
  <1>18. ASSUME NEW c \in Conn, StopPolling(c) PROVE RequestStep
    BY <1>18 DEF StopPolling
  <1>19. ASSUME NEW c \in Conn, Erase(c) PROVE RequestStep
    BY <1>19
  <1>20. ASSUME NEW c \in Conn, CloseSocket(c) PROVE RequestStep
    BY <1>20 DEF CloseSocket
  <1>21. ASSUME NEW c \in Conn, UncountSocket(c) PROVE RequestStep
    BY <1>21 DEF UncountSocket
  <1>22. ASSUME NEW c \in Conn, Unlock(c) PROVE RequestStep
    BY <1>22 DEF Unlock
  <1>23. ASSUME NEW w \in Worker, CheckListening(w) PROVE RequestStep
    BY <1>23 DEF CheckListening
  <1>24. ASSUME NEW w \in Worker, CheckActive(w) PROVE RequestStep
    BY <1>24 DEF CheckActive
  <1>25. ASSUME NEW w \in Worker, PopRequest(w) PROVE RequestStep
    BY <1>25 DEF PopRequest
  <1>26. ASSUME NEW w \in Worker, AwaitRequest(w) PROVE RequestStep
    BY <1>26 DEF AwaitRequest
  <1>27. ASSUME NEW w \in Worker, SpuriousWakeup(w) PROVE RequestStep
    BY <1>27 DEF SpuriousWakeup
  <1>28. ASSUME NEW w \in Worker, Respond(w) PROVE RequestStep
    BY <1>28 DEF Respond
  <1>29. ASSUME NEW w \in Worker, SendEndRequest(w) PROVE RequestStep
    BY <1>29 DEF SendEndRequest
  <1>30. ASSUME NEW w \in Worker, UncountRequest(w) PROVE RequestStep
    BY <1>30
  <1>31. CASE UNCHANGED vars
    BY <1>31 DEF vars
  <1> QED
    BY <1>1, <1>2, <1>3, <1>4, <1>5, <1>6, <1>7, <1>8, <1>9, <1>10, <1>11,
       <1>12, <1>13, <1>14, <1>15, <1>16, <1>17, <1>18, <1>19, <1>20,
       <1>21, <1>22, <1>23, <1>24, <1>25, <1>26, <1>27, <1>28, <1>29,
       <1>30, <1>31
    DEF Next, MainStep, Environment, ConnStep, WorkerStep

\* Away from the hand-over and the end of a request, the pool keeps what it has.
LEMMA SamePledges ==
  ASSUME TypeInv, Control, ExclusiveUse, [Next]_vars,
         ~ \E c \in Conn, i \in Id : EndParams(c, i),
         ~ \E w \in Worker : UncountRequest(w)
  PROVE  \A r \in Request : Pledged(r)' <=> Pledged(r)
  <1>1. CASE SameHolders
    BY <1>1, SameHeld
  <1>2. ASSUME NEW c \in Conn, PushEnqueue(c)
        PROVE  \A r \in Request : Pledged(r)' <=> Pledged(r)
    BY <1>2, EnqueueHolder DEF Pledged, Served
  <1>3. ASSUME NEW w \in Worker, PopRequest(w)
        PROVE  \A r \in Request : Pledged(r)' <=> Pledged(r)
    BY <1>3, PopHolder DEF Pledged
  <1> QED
    BY <1>1, <1>2, <1>3, HolderCases DEF HolderStep

\* One request at most becomes active or inactive in a step, and
\* request_actives moves with it.
LEMMA ActiveChange ==
  ASSUME TypeInv, Control, RequestInv, [Next]_vars
  PROVE  OneAtATime
  <1> USE DEF OneAtATime
  <1>1. ASSUME NEW c \in Conn, NEW i \in Id, BeginRequest(c, i)
        PROVE  Grow(c, i)
    <2>1. \A r \in Request : Pledged(r)' <=> Pledged(r)
      BY <1>1 DEF BeginRequest, Pledged, InQueue, Served, BeingPushed,
                  queueVars, workerVars
    <2>2. ~Active(<<c, i>>) /\ conn[c] = "loop"
      BY <1>1, Untouchable
      DEF BeginRequest, FoundReady, Reading, Handing, RequestInv, Active
    <2>3. \A r \in Request : Active(r)' <=> Active(r) \/ r = <<c, i>>
      BY <1>1, <2>1, RequestPair DEF BeginRequest, Active, TypeInv, TypeOK
    <2> QED
      BY <1>1, <2>2, <2>3, RequestPair DEF Grow, ActiveIds, BeginRequest
  <1>2. ASSUME NEW c \in Conn, NEW i \in Id, EndParams(c, i)
        PROVE  Stay
    <2>1. state[<<c, i>>] = "READING_PARAMS"
      BY <1>2, Untouchable DEF EndParams, Reading, Handing, RequestInv
    <2>2. \A r \in Request : Pledged(r)' <=> Pledged(r) \/ r = <<c, i>>
      BY <1>2, EndParamsHolder DEF Pledged, InQueue, Served
    <2>3. \A r \in Request : Active(r)' <=> Active(r)
      BY <1>2, <2>1, <2>2, RequestPair DEF EndParams, Active, TypeInv, TypeOK
    <2> QED BY <1>2, <2>3, RequestPair DEF Stay, ActiveIds, EndParams
  <1>3. ASSUME NEW c \in Conn, NEW i \in Id,
               CancelRequest(c, i) \/ SweepRequest(c, i),
               state[<<c, i>>] = "READING_PARAMS"
        PROVE  Shrink(c, i)
    <2>1. \A r \in Request : Pledged(r)' <=> Pledged(r)
      BY <1>3 DEF CancelRequest, SweepRequest, Pledged, InQueue, Served,
                  BeingPushed, queueVars, workerVars, connVars
    <2>2. ~Pledged(<<c, i>>)
      BY <1>3, RequestPair DEF RequestInv, Pending
    <2>5. /\ state'[<<c, i>>] # "READING_PARAMS"
          /\ \A r \in Request : r # <<c, i>> => state'[r] = state[r]
      <3>1. CASE CancelRequest(c, i)
        BY <3>1, RequestPair DEF CancelRequest, TypeInv, TypeOK
      <3>2. CASE SweepRequest(c, i)
        BY <3>2, RequestPair DEF SweepRequest, TypeInv, TypeOK
      <3> QED BY <1>3, <3>1, <3>2
    <2>3. \A r \in Request : Active(r)' <=> Active(r) /\ r # <<c, i>>
      BY <2>5, <2>1, <2>2, RequestPair DEF Active
    <2>4. Active(<<c, i>>)
      BY <1>3 DEF Active
    <2> QED
      BY <1>3, <2>3, <2>4, RequestPair
      DEF Shrink, ActiveIds, CancelRequest, SweepRequest
  <1>4. ASSUME NEW c \in Conn, NEW i \in Id, SweepRequest(c, i),
               state[<<c, i>>] # "READING_PARAMS"
        PROVE  Stay
    <2>1. \A r \in Request : Pledged(r)' <=> Pledged(r)
      BY <1>4 DEF SweepRequest, Pledged, InQueue, Served, BeingPushed,
                  queueVars, workerVars, connVars
    <2>2. \A r \in Request : Active(r)' <=> Active(r)
      BY <1>4, <2>1, RequestPair DEF SweepRequest, Active, TypeInv, TypeOK
    <2> QED BY <1>4, <2>2, RequestPair DEF Stay, ActiveIds, SweepRequest
  <1>5. ASSUME NEW c \in Conn, NEW i \in Id, CancelRequest(c, i)
        PROVE  state[<<c, i>>] = "READING_PARAMS"
    BY <1>5, Untouchable DEF CancelRequest, Reading, Handing, RequestInv
  <1>6. ASSUME NEW c \in Conn, Erase(c)
        PROVE  Stay
    <2>1. \A r \in Request : Pledged(r)' <=> Pledged(r)
      BY <1>6 DEF Erase, Pledged, InQueue, Served, BeingPushed, queueVars,
                  workerVars, TypeInv, TypeOK
    <2>2. \A r \in Request : r[1] = c => ~Active(r)
      BY <1>6, RequestParts DEF Erase, RequestInv, DrainedForGood, ActiveIds
    <2>3. \A r \in Request : Active(r)' <=> Active(r)
      BY <1>6, <2>1, <2>2 DEF Erase, Active
    <2> QED BY <1>6, <2>3, RequestPair DEF Stay, ActiveIds, Erase
  <1>7. ASSUME NEW w \in Worker, UncountRequest(w)
        PROVE  \E c \in Conn, i \in Id : Shrink(c, i)
    <2>1. /\ serving[w] \in Request
          /\ Pledged(serving[w]) /\ state[serving[w]] = "PENDING"
      BY <1>7, UncountHolder DEF Pledged, RequestInv, Pending
    <2>2. \A r \in Request : Pledged(r)' <=> Pledged(r) /\ r # serving[w]
      BY <1>7, UncountHolder DEF Pledged, InQueue, RequestInv, ExclusiveUse
    <2>3. \A r \in Request : Active(r)' <=> Active(r) /\ r # serving[w]
      BY <1>7, <2>1, <2>2 DEF UncountRequest, Active
    <2>4. PICK c \in Conn, i \in Id : serving[w] = <<c, i>>
      BY <2>1 DEF Request
    <2>5. Shrink(c, i)
      BY <1>7, <2>1, <2>3, <2>4, RequestPair
      DEF Shrink, ActiveIds, UncountRequest, Active
    <2> QED BY <2>5
  <1>8. CASE /\ UNCHANGED <<state, request_actives>>
             /\ ~ \E c \in Conn, i \in Id : EndParams(c, i)
             /\ ~ \E w \in Worker : UncountRequest(w)
    <2>1. \A r \in Request : Active(r)' <=> Active(r)
      BY <1>8, SamePledges DEF Active, RequestInv
    <2> QED BY <1>8, <2>1, RequestPair DEF Stay, ActiveIds
  <1> QED
    BY <1>1, <1>2, <1>3, <1>4, <1>5, <1>6, <1>7, <1>8, RequestCases
    DEF RequestStep

\* Active requests can be counted.
LEMMA ActiveIdsFinite ==
  ASSUME NEW c \in Conn
  PROVE  IsFiniteSet(ActiveIds(c)) /\ Cardinality(ActiveIds(c)) \in Nat
  BY ServerAssumption, FS_Subset, FS_CardinalityType DEF ActiveIds

\* request_actives stays the number of active requests.
LEMMA ActivesStep ==
  ASSUME TypeInv, Control, RequestInv, [Next]_vars
  PROVE  ActivesExact'
  <1>1. CASE Stay
    BY <1>1 DEF Stay, ActivesExact, RequestInv
  <1>2. ASSUME NEW c \in Conn, NEW i \in Id, Grow(c, i)
        PROVE  ActivesExact'
    <2>1. Cardinality(ActiveIds(c)') = Cardinality(ActiveIds(c)) + 1
      BY <1>2, ActiveIdsFinite, FS_AddElement DEF Grow
    <2> QED
      BY <1>2, <2>1 DEF Grow, ActivesExact, RequestInv, TypeInv, TypeOK
  <1>3. ASSUME NEW c \in Conn, NEW i \in Id, Shrink(c, i)
        PROVE  ActivesExact'
    <2>1. Cardinality(ActiveIds(c)') = Cardinality(ActiveIds(c)) - 1
      BY <1>3, ActiveIdsFinite, FS_RemoveElement DEF Shrink
    <2>2. Cardinality(ActiveIds(c)) # 0
      BY <1>3, ActiveIdsFinite, FS_EmptySet DEF Shrink
    <2> QED
      BY <1>3, <2>1, <2>2
      DEF Shrink, ActivesExact, RequestInv, TypeInv, TypeOK, Decrement
  <1> QED
    BY <1>1, <1>2, <1>3, ActiveChange DEF OneAtATime

\* The polling loop is left by StopPolling only.
LEMMA LockEntry ==
  ASSUME TypeInv, [Next]_vars, NEW d \in Conn, conn'[d] = "lock"
  PROVE  conn[d] = "lock" \/ StopPolling(d)
  <1> USE DEF TypeInv, TypeOK, connVars, Reading
  <1>1. ASSUME NEW c \in Conn, CreateConnection(c) PROVE conn[d] = "lock" \/ StopPolling(d)
    BY <1>1 DEF CreateConnection
  <1>2. CASE BeginShutdown
    BY <1>2 DEF BeginShutdown
  <1>3. CASE Shutdown
    BY <1>3 DEF Shutdown
  <1>4. ASSUME NEW c \in Conn, NEW f \in Fd, Accept(c, f) PROVE conn[d] = "lock" \/ StopPolling(d)
    BY <1>4 DEF Accept
  <1>5. CASE CloseListeningSocket
    BY <1>5 DEF CloseListeningSocket
  <1>6. ASSUME NEW c \in Conn, ReadFails(c) PROVE conn[d] = "lock" \/ StopPolling(d)
    BY <1>6 DEF ReadFails
  <1>7. ASSUME NEW c \in Conn, NEW i \in Id, BeginRequest(c, i) PROVE conn[d] = "lock" \/ StopPolling(d)
    BY <1>7 DEF BeginRequest
  <1>8. ASSUME NEW c \in Conn, NEW i \in Id, IgnoreBegin(c, i) PROVE conn[d] = "lock" \/ StopPolling(d)
    BY <1>8 DEF IgnoreBegin
  <1>9. ASSUME NEW c \in Conn, NEW i \in Id, EndParams(c, i) PROVE conn[d] = "lock" \/ StopPolling(d)
    BY <1>9 DEF EndParams
  <1>10. ASSUME NEW c \in Conn, NEW i \in Id, IgnoreEndParams(c, i) PROVE conn[d] = "lock" \/ StopPolling(d)
    BY <1>10 DEF IgnoreEndParams
  <1>11. ASSUME NEW c \in Conn, NEW i \in Id, CancelRequest(c, i) PROVE conn[d] = "lock" \/ StopPolling(d)
    BY <1>11 DEF CancelRequest
  <1>12. ASSUME NEW c \in Conn, PushCount(c) PROVE conn[d] = "lock" \/ StopPolling(d)
    BY <1>12 DEF PushCount
  <1>13. ASSUME NEW c \in Conn, PushEnqueue(c) PROVE conn[d] = "lock" \/ StopPolling(d)
    BY <1>13 DEF PushEnqueue
  <1>14. ASSUME NEW c \in Conn, DropDeserializer(c) PROVE conn[d] = "lock" \/ StopPolling(d)
    BY <1>14 DEF DropDeserializer
  <1>15. ASSUME NEW c \in Conn, LeaveLoop(c) PROVE conn[d] = "lock" \/ StopPolling(d)
    BY <1>15 DEF LeaveLoop
  <1>16. ASSUME NEW c \in Conn, NEW i \in Id, SweepRequest(c, i) PROVE conn[d] = "lock" \/ StopPolling(d)
    BY <1>16 DEF SweepRequest
  <1>17. ASSUME NEW c \in Conn, SweepDone(c) PROVE conn[d] = "lock" \/ StopPolling(d)
    BY <1>17 DEF SweepDone
  <1>18. ASSUME NEW c \in Conn, StopPolling(c) PROVE conn[d] = "lock" \/ StopPolling(d)
    <2>1. conn[d] = "lock" \/ c = d
      BY <1>18 DEF StopPolling
    <2> QED BY <1>18, <2>1
  <1>19. ASSUME NEW c \in Conn, Erase(c) PROVE conn[d] = "lock" \/ StopPolling(d)
    BY <1>19 DEF Erase
  <1>20. ASSUME NEW c \in Conn, CloseSocket(c) PROVE conn[d] = "lock" \/ StopPolling(d)
    BY <1>20 DEF CloseSocket
  <1>21. ASSUME NEW c \in Conn, UncountSocket(c) PROVE conn[d] = "lock" \/ StopPolling(d)
    BY <1>21 DEF UncountSocket
  <1>22. ASSUME NEW c \in Conn, Unlock(c) PROVE conn[d] = "lock" \/ StopPolling(d)
    BY <1>22 DEF Unlock
  <1>23. ASSUME NEW w \in Worker, CheckListening(w) PROVE conn[d] = "lock" \/ StopPolling(d)
    BY <1>23 DEF CheckListening
  <1>24. ASSUME NEW w \in Worker, CheckActive(w) PROVE conn[d] = "lock" \/ StopPolling(d)
    BY <1>24 DEF CheckActive
  <1>25. ASSUME NEW w \in Worker, PopRequest(w) PROVE conn[d] = "lock" \/ StopPolling(d)
    BY <1>25 DEF PopRequest
  <1>26. ASSUME NEW w \in Worker, AwaitRequest(w) PROVE conn[d] = "lock" \/ StopPolling(d)
    BY <1>26 DEF AwaitRequest
  <1>27. ASSUME NEW w \in Worker, SpuriousWakeup(w) PROVE conn[d] = "lock" \/ StopPolling(d)
    BY <1>27 DEF SpuriousWakeup
  <1>28. ASSUME NEW w \in Worker, Respond(w) PROVE conn[d] = "lock" \/ StopPolling(d)
    BY <1>28 DEF Respond
  <1>29. ASSUME NEW w \in Worker, SendEndRequest(w) PROVE conn[d] = "lock" \/ StopPolling(d)
    BY <1>29 DEF SendEndRequest
  <1>30. ASSUME NEW w \in Worker, UncountRequest(w) PROVE conn[d] = "lock" \/ StopPolling(d)
    BY <1>30 DEF UncountRequest
  <1>31. CASE UNCHANGED vars
    BY <1>31 DEF vars
  <1> QED
    BY <1>1, <1>2, <1>3, <1>4, <1>5, <1>6, <1>7, <1>8, <1>9, <1>10, <1>11,
       <1>12, <1>13, <1>14, <1>15, <1>16, <1>17, <1>18, <1>19, <1>20,
       <1>21, <1>22, <1>23, <1>24, <1>25, <1>26, <1>27, <1>28, <1>29,
       <1>30, <1>31
    DEF Next, MainStep, Environment, ConnStep, WorkerStep

\* A connection that was drained gets no new request.
LEMMA DrainedStep ==
  ASSUME TypeInv, Control, RequestInv, [Next]_vars
  PROVE  DrainedForGood'
  <1> SUFFICES ASSUME NEW d \in Conn, conn'[d] = "lock"
               PROVE  ActiveIds(d)' = {}
    BY DEF DrainedForGood
  <1>1. ASSUME StopPolling(d)
        PROVE  ActiveIds(d)' = {}
    <2>1. ActiveIds(d)' = ActiveIds(d)
      BY <1>1 DEF StopPolling, ActiveIds, Active, Pledged, InQueue, Served,
                  BeingPushed, requestVars, workerVars, queueVars, TypeInv, TypeOK
    <2>2. Cardinality(ActiveIds(d)) = 0
      BY <1>1 DEF StopPolling, Drained, RequestInv, ActivesExact
    <2> QED BY <2>1, <2>2, ActiveIdsFinite, FS_EmptySet
  <1>2. ASSUME conn[d] = "lock"
        PROVE  ActiveIds(d)' = {}
    BY <1>2, ActiveChange
    DEF OneAtATime, Stay, Grow, Shrink, RequestInv, DrainedForGood
  <1>3. conn[d] = "lock" \/ StopPolling(d)
    BY LockEntry
  <1> QED BY <1>1, <1>2, <1>3

\* No request exists when main starts.
LEMMA RequestInit == Init => RequestInv
  <1> SUFFICES ASSUME Init PROVE RequestInv
    OBVIOUS
  <1>1. \A r \in Request : ~Active(r)
    BY RequestParts DEF Init, Active, Pledged, InQueue, Served, BeingPushed
  <1>2. \A c \in Conn : ActiveIds(c) = {}
    BY <1>1, RequestPair DEF ActiveIds
  <1>3. Allocation /\ Pending /\ ExclusiveUse /\ DrainedForGood
    BY <1>1, <1>2, RequestParts
    DEF Init, Allocation, Pending, ExclusiveUse, DrainedForGood, Active,
        Pledged, InQueue, Served, BeingPushed
  <1>4. ActivesExact
    BY <1>2, FS_EmptySet DEF Init, ActivesExact
  <1> QED BY <1>3, <1>4 DEF RequestInv

\* The layer on requests is preserved.
LEMMA RequestStepInv ==
  TypeInv /\ Control /\ RequestInv /\ [Next]_vars => RequestInv'
  BY AllocationStep, PendingStep, ExclusiveStep, ActivesStep, DrainedStep
  DEF RequestInv

-----------------------------------------------------------------------------
(* The counters and the end of the process.                                *)

Enqueuing == {c \in Conn : conn[c] = "enqueue"}
CountedConns == {c \in Conn : Counted(c)}

\* Connections can be counted.
LEMMA CountsFinite ==
  /\ IsFiniteSet(Enqueuing) /\ Cardinality(Enqueuing) \in Nat
  /\ IsFiniteSet(CountedConns) /\ Cardinality(CountedConns) \in Nat
  BY ServerAssumption, FS_Subset, FS_CardinalityType
  DEF Enqueuing, CountedConns

\* Counters start at zero, workers have not left.
LEMMA CountsInit == Init => BacklogExact /\ SocketsExact /\ Leaving
  <1> SUFFICES ASSUME Init PROVE BacklogExact /\ SocketsExact /\ Leaving
    OBVIOUS
  <1>1. Enqueuing = {} /\ CountedConns = {}
    BY DEF Init, Enqueuing, CountedConns, Counted, Listed, Started, Draining
  <1>2. Cardinality({}) = 0
    BY FS_EmptySet
  <1>3. workers_backlog = 0 /\ socket_active = 0 /\ Len(queue) = 0
    BY DEF Init
  <1>4. BacklogExact
    <2>1. Cardinality(Enqueuing) = 0
      BY <1>1, <1>2
    <2> QED BY <1>3, <2>1 DEF BacklogExact, Enqueuing
  <1>5. SocketsExact
    BY <1>1, <1>2, <1>3 DEF SocketsExact, CountedConns
  <1>6. Leaving
    BY DEF Init, Leaving
  <1> QED BY <1>4, <1>5, <1>6

\* workers_backlog stays the queue and the pushes under way.
LEMMA BacklogStep == TypeInv /\ BacklogExact /\ [Next]_vars => BacklogExact'
  <1> SUFFICES ASSUME TypeInv /\ BacklogExact, [Next]_vars PROVE BacklogExact'
    OBVIOUS
  <1> USE DEF TypeInv, TypeOK, BacklogExact, connVars, queueVars, Reading
  <1>1. ASSUME NEW c \in Conn, CreateConnection(c) PROVE BacklogExact'
    BY <1>1 DEF CreateConnection
  <1>2. CASE BeginShutdown
    BY <1>2 DEF BeginShutdown
  <1>3. CASE Shutdown
    BY <1>3 DEF Shutdown
  <1>4. ASSUME NEW c \in Conn, NEW f \in Fd, Accept(c, f) PROVE BacklogExact'
    BY <1>4 DEF Accept
  <1>5. CASE CloseListeningSocket
    BY <1>5 DEF CloseListeningSocket
  <1>6. ASSUME NEW c \in Conn, ReadFails(c) PROVE BacklogExact'
    BY <1>6 DEF ReadFails
  <1>7. ASSUME NEW c \in Conn, NEW i \in Id, BeginRequest(c, i) PROVE BacklogExact'
    BY <1>7 DEF BeginRequest
  <1>8. ASSUME NEW c \in Conn, NEW i \in Id, IgnoreBegin(c, i) PROVE BacklogExact'
    BY <1>8 DEF IgnoreBegin
  <1>9. ASSUME NEW c \in Conn, NEW i \in Id, EndParams(c, i) PROVE BacklogExact'
    BY <1>9 DEF EndParams
  <1>10. ASSUME NEW c \in Conn, NEW i \in Id, IgnoreEndParams(c, i) PROVE BacklogExact'
    BY <1>10 DEF IgnoreEndParams
  <1>11. ASSUME NEW c \in Conn, NEW i \in Id, CancelRequest(c, i) PROVE BacklogExact'
    BY <1>11 DEF CancelRequest
  <1>12. ASSUME NEW c \in Conn, PushCount(c) PROVE BacklogExact'
    <2>1. c \notin Enqueuing /\ Enqueuing' = Enqueuing \cup {c}
      BY <1>12 DEF PushCount, Enqueuing
    <2>2. Cardinality(Enqueuing') = Cardinality(Enqueuing) + 1
      BY <2>1, CountsFinite, FS_AddElement
    <2> QED BY <1>12, <2>2, CountsFinite DEF PushCount, CountBacklog, Enqueuing
  <1>13. ASSUME NEW c \in Conn, PushEnqueue(c) PROVE BacklogExact'
    <2>1. c \in Enqueuing /\ Enqueuing' = Enqueuing \ {c}
      BY <1>13 DEF PushEnqueue, Enqueuing
    <2>2. Cardinality(Enqueuing') = Cardinality(Enqueuing) - 1
      BY <2>1, CountsFinite, FS_RemoveElement
    <2>3. Len(queue') = Len(queue) + 1 /\ Len(queue) \in Nat
      BY <1>13 DEF PushEnqueue, Enqueue
    <2>4. workers_backlog' = workers_backlog
      BY <1>13 DEF PushEnqueue, Enqueue
    <2>5. Cardinality(Enqueuing') = Cardinality({d \in Conn : conn'[d] = "enqueue"})
      BY DEF Enqueuing
    <2> QED BY <2>2, <2>3, <2>4, <2>5, CountsFinite DEF Enqueuing
  <1>14. ASSUME NEW c \in Conn, DropDeserializer(c) PROVE BacklogExact'
    BY <1>14 DEF DropDeserializer
  <1>15. ASSUME NEW c \in Conn, LeaveLoop(c) PROVE BacklogExact'
    BY <1>15 DEF LeaveLoop
  <1>16. ASSUME NEW c \in Conn, NEW i \in Id, SweepRequest(c, i) PROVE BacklogExact'
    BY <1>16 DEF SweepRequest
  <1>17. ASSUME NEW c \in Conn, SweepDone(c) PROVE BacklogExact'
    BY <1>17 DEF SweepDone
  <1>18. ASSUME NEW c \in Conn, StopPolling(c) PROVE BacklogExact'
    BY <1>18 DEF StopPolling
  <1>19. ASSUME NEW c \in Conn, Erase(c) PROVE BacklogExact'
    BY <1>19 DEF Erase
  <1>20. ASSUME NEW c \in Conn, CloseSocket(c) PROVE BacklogExact'
    BY <1>20 DEF CloseSocket
  <1>21. ASSUME NEW c \in Conn, UncountSocket(c) PROVE BacklogExact'
    BY <1>21 DEF UncountSocket
  <1>22. ASSUME NEW c \in Conn, Unlock(c) PROVE BacklogExact'
    BY <1>22 DEF Unlock
  <1>23. ASSUME NEW w \in Worker, CheckListening(w) PROVE BacklogExact'
    BY <1>23 DEF CheckListening
  <1>24. ASSUME NEW w \in Worker, CheckActive(w) PROVE BacklogExact'
    BY <1>24 DEF CheckActive
  <1>25. ASSUME NEW w \in Worker, PopRequest(w) PROVE BacklogExact'
    <2>1. Len(queue') = Len(queue) - 1 /\ Len(queue) \in Nat \ {0}
      BY <1>25 DEF PopRequest, Dequeue
    <2>2. workers_backlog' = Decrement(workers_backlog) /\ conn' = conn
      BY <1>25 DEF PopRequest, Dequeue
    <2>3. workers_backlog # 0
      BY <2>1, CountsFinite DEF Enqueuing
    <2> QED BY <2>1, <2>2, <2>3, CountsFinite DEF Enqueuing, Decrement
  <1>26. ASSUME NEW w \in Worker, AwaitRequest(w) PROVE BacklogExact'
    BY <1>26 DEF AwaitRequest, Block
  <1>27. ASSUME NEW w \in Worker, SpuriousWakeup(w) PROVE BacklogExact'
    BY <1>27 DEF SpuriousWakeup, WakeSpuriously
  <1>28. ASSUME NEW w \in Worker, Respond(w) PROVE BacklogExact'
    BY <1>28 DEF Respond
  <1>29. ASSUME NEW w \in Worker, SendEndRequest(w) PROVE BacklogExact'
    BY <1>29 DEF SendEndRequest
  <1>30. ASSUME NEW w \in Worker, UncountRequest(w) PROVE BacklogExact'
    BY <1>30 DEF UncountRequest
  <1>31. CASE UNCHANGED vars
    BY <1>31 DEF vars
  <1> QED
    BY <1>1, <1>2, <1>3, <1>4, <1>5, <1>6, <1>7, <1>8, <1>9, <1>10, <1>11,
       <1>12, <1>13, <1>14, <1>15, <1>16, <1>17, <1>18, <1>19, <1>20,
       <1>21, <1>22, <1>23, <1>24, <1>25, <1>26, <1>27, <1>28, <1>29,
       <1>30, <1>31
    DEF Next, MainStep, Environment, ConnStep, WorkerStep

\* socket_active stays the number of Connection objects not yet uncounted.
LEMMA SocketsStep == TypeInv /\ SocketsExact /\ [Next]_vars => SocketsExact'
  <1> SUFFICES ASSUME TypeInv /\ SocketsExact, [Next]_vars PROVE SocketsExact'
    OBVIOUS
  <1> USE DEF TypeInv, TypeOK, SocketsExact, Counted, Listed, Started, Draining,
         connVars, Reading
  <1>1. ASSUME NEW c \in Conn, CreateConnection(c) PROVE SocketsExact'
    <2>1. c \notin CountedConns /\ CountedConns' = CountedConns \cup {c}
      BY <1>1 DEF CreateConnection, CountedConns
    <2>2. Cardinality(CountedConns') = Cardinality(CountedConns) + 1
      BY <2>1, CountsFinite, FS_AddElement
    <2> QED BY <1>1, <2>2, CountsFinite DEF CreateConnection, CountedConns
  <1>2. CASE BeginShutdown
    BY <1>2 DEF BeginShutdown
  <1>3. CASE Shutdown
    BY <1>3 DEF Shutdown
  <1>4. ASSUME NEW c \in Conn, NEW f \in Fd, Accept(c, f) PROVE SocketsExact'
    BY <1>4 DEF Accept
  <1>5. CASE CloseListeningSocket
    BY <1>5 DEF CloseListeningSocket
  <1>6. ASSUME NEW c \in Conn, ReadFails(c) PROVE SocketsExact'
    BY <1>6 DEF ReadFails
  <1>7. ASSUME NEW c \in Conn, NEW i \in Id, BeginRequest(c, i) PROVE SocketsExact'
    BY <1>7 DEF BeginRequest
  <1>8. ASSUME NEW c \in Conn, NEW i \in Id, IgnoreBegin(c, i) PROVE SocketsExact'
    BY <1>8 DEF IgnoreBegin
  <1>9. ASSUME NEW c \in Conn, NEW i \in Id, EndParams(c, i) PROVE SocketsExact'
    BY <1>9 DEF EndParams
  <1>10. ASSUME NEW c \in Conn, NEW i \in Id, IgnoreEndParams(c, i) PROVE SocketsExact'
    BY <1>10 DEF IgnoreEndParams
  <1>11. ASSUME NEW c \in Conn, NEW i \in Id, CancelRequest(c, i) PROVE SocketsExact'
    BY <1>11 DEF CancelRequest
  <1>12. ASSUME NEW c \in Conn, PushCount(c) PROVE SocketsExact'
    BY <1>12 DEF PushCount
  <1>13. ASSUME NEW c \in Conn, PushEnqueue(c) PROVE SocketsExact'
    BY <1>13 DEF PushEnqueue
  <1>14. ASSUME NEW c \in Conn, DropDeserializer(c) PROVE SocketsExact'
    BY <1>14 DEF DropDeserializer
  <1>15. ASSUME NEW c \in Conn, LeaveLoop(c) PROVE SocketsExact'
    BY <1>15 DEF LeaveLoop
  <1>16. ASSUME NEW c \in Conn, NEW i \in Id, SweepRequest(c, i) PROVE SocketsExact'
    BY <1>16 DEF SweepRequest
  <1>17. ASSUME NEW c \in Conn, SweepDone(c) PROVE SocketsExact'
    BY <1>17 DEF SweepDone
  <1>18. ASSUME NEW c \in Conn, StopPolling(c) PROVE SocketsExact'
    BY <1>18 DEF StopPolling
  <1>19. ASSUME NEW c \in Conn, Erase(c) PROVE SocketsExact'
    BY <1>19 DEF Erase
  <1>20. ASSUME NEW c \in Conn, CloseSocket(c) PROVE SocketsExact'
    BY <1>20 DEF CloseSocket
  <1>21. ASSUME NEW c \in Conn, UncountSocket(c) PROVE SocketsExact'
    <2>1. c \in CountedConns /\ CountedConns' = CountedConns \ {c}
      BY <1>21 DEF UncountSocket, CountedConns
    <2>2. Cardinality(CountedConns') = Cardinality(CountedConns) - 1
      BY <2>1, CountsFinite, FS_RemoveElement
    <2>3. Cardinality(CountedConns) # 0
      BY <2>1, CountsFinite, FS_EmptySet
    <2> QED BY <1>21, <2>2, <2>3, CountsFinite DEF UncountSocket, CountedConns, Decrement
  <1>22. ASSUME NEW c \in Conn, Unlock(c) PROVE SocketsExact'
    BY <1>22 DEF Unlock
  <1>23. ASSUME NEW w \in Worker, CheckListening(w) PROVE SocketsExact'
    BY <1>23 DEF CheckListening
  <1>24. ASSUME NEW w \in Worker, CheckActive(w) PROVE SocketsExact'
    BY <1>24 DEF CheckActive
  <1>25. ASSUME NEW w \in Worker, PopRequest(w) PROVE SocketsExact'
    BY <1>25 DEF PopRequest
  <1>26. ASSUME NEW w \in Worker, AwaitRequest(w) PROVE SocketsExact'
    BY <1>26 DEF AwaitRequest
  <1>27. ASSUME NEW w \in Worker, SpuriousWakeup(w) PROVE SocketsExact'
    BY <1>27 DEF SpuriousWakeup
  <1>28. ASSUME NEW w \in Worker, Respond(w) PROVE SocketsExact'
    BY <1>28 DEF Respond
  <1>29. ASSUME NEW w \in Worker, SendEndRequest(w) PROVE SocketsExact'
    BY <1>29 DEF SendEndRequest
  <1>30. ASSUME NEW w \in Worker, UncountRequest(w) PROVE SocketsExact'
    BY <1>30 DEF UncountRequest
  <1>31. CASE UNCHANGED vars
    BY <1>31 DEF vars
  <1> QED
    BY <1>1, <1>2, <1>3, <1>4, <1>5, <1>6, <1>7, <1>8, <1>9, <1>10, <1>11,
       <1>12, <1>13, <1>14, <1>15, <1>16, <1>17, <1>18, <1>19, <1>20,
       <1>21, <1>22, <1>23, <1>24, <1>25, <1>26, <1>27, <1>28, <1>29,
       <1>30, <1>31
    DEF Next, MainStep, Environment, ConnStep, WorkerStep

\* A worker that left saw the last of the connections.
LEMMA LeavingStep == TypeInv /\ Accepting /\ SocketsExact /\ Leaving /\ [Next]_vars => Leaving'
  <1> SUFFICES ASSUME TypeInv /\ Accepting /\ SocketsExact /\ Leaving, [Next]_vars PROVE Leaving'
    OBVIOUS
  <1> USE DEF TypeInv, TypeOK, Accepting, Leaving, AllJoined, WorkerStates,
         connVars, workerVars, mainVars, Reading
  <1>1. ASSUME NEW c \in Conn, CreateConnection(c) PROVE Leaving'
    BY <1>1 DEF CreateConnection
  <1>2. CASE BeginShutdown
    BY <1>2 DEF BeginShutdown
  <1>3. CASE Shutdown
    BY <1>3 DEF Shutdown
  <1>4. ASSUME NEW c \in Conn, NEW f \in Fd, Accept(c, f) PROVE Leaving'
    BY <1>4 DEF Accept
  <1>5. CASE CloseListeningSocket
    BY <1>5 DEF CloseListeningSocket
  <1>6. ASSUME NEW c \in Conn, ReadFails(c) PROVE Leaving'
    BY <1>6 DEF ReadFails
  <1>7. ASSUME NEW c \in Conn, NEW i \in Id, BeginRequest(c, i) PROVE Leaving'
    BY <1>7 DEF BeginRequest
  <1>8. ASSUME NEW c \in Conn, NEW i \in Id, IgnoreBegin(c, i) PROVE Leaving'
    BY <1>8 DEF IgnoreBegin
  <1>9. ASSUME NEW c \in Conn, NEW i \in Id, EndParams(c, i) PROVE Leaving'
    BY <1>9 DEF EndParams
  <1>10. ASSUME NEW c \in Conn, NEW i \in Id, IgnoreEndParams(c, i) PROVE Leaving'
    BY <1>10 DEF IgnoreEndParams
  <1>11. ASSUME NEW c \in Conn, NEW i \in Id, CancelRequest(c, i) PROVE Leaving'
    BY <1>11 DEF CancelRequest
  <1>12. ASSUME NEW c \in Conn, PushCount(c) PROVE Leaving'
    BY <1>12 DEF PushCount
  <1>13. ASSUME NEW c \in Conn, PushEnqueue(c) PROVE Leaving'
    BY <1>13 DEF PushEnqueue
  <1>14. ASSUME NEW c \in Conn, DropDeserializer(c) PROVE Leaving'
    BY <1>14 DEF DropDeserializer
  <1>15. ASSUME NEW c \in Conn, LeaveLoop(c) PROVE Leaving'
    BY <1>15 DEF LeaveLoop
  <1>16. ASSUME NEW c \in Conn, NEW i \in Id, SweepRequest(c, i) PROVE Leaving'
    BY <1>16 DEF SweepRequest
  <1>17. ASSUME NEW c \in Conn, SweepDone(c) PROVE Leaving'
    BY <1>17 DEF SweepDone
  <1>18. ASSUME NEW c \in Conn, StopPolling(c) PROVE Leaving'
    BY <1>18 DEF StopPolling
  <1>19. ASSUME NEW c \in Conn, Erase(c) PROVE Leaving'
    BY <1>19 DEF Erase
  <1>20. ASSUME NEW c \in Conn, CloseSocket(c) PROVE Leaving'
    BY <1>20 DEF CloseSocket
  <1>21. ASSUME NEW c \in Conn, UncountSocket(c) PROVE Leaving'
    BY <1>21 DEF UncountSocket
  <1>22. ASSUME NEW c \in Conn, Unlock(c) PROVE Leaving'
    BY <1>22 DEF Unlock
  <1>23. ASSUME NEW w \in Worker, CheckListening(w) PROVE Leaving'
    BY <1>23 DEF CheckListening
  <1>24. ASSUME NEW w \in Worker, CheckActive(w) PROVE Leaving'
    <2>1. CASE socket_active # 0
      BY <1>24, <2>1 DEF CheckActive
    <2>2. CASE socket_active = 0
      <3>1. CountedConns = {}
        BY <2>2, CountsFinite, FS_EmptySet DEF SocketsExact, CountedConns
      <3>2. \A d \in Conn : conn[d] \in {"none", "unlock", "gone"}
        BY <1>24, <3>1 DEF CheckActive, CountedConns, Counted, Listed, Started, Draining, Erasing, ConnStates, Accepting
      <3> QED BY <1>24, <2>2, <3>2 DEF CheckActive, Accepting
    <2> QED BY <2>1, <2>2
  <1>25. ASSUME NEW w \in Worker, PopRequest(w) PROVE Leaving'
    BY <1>25 DEF PopRequest
  <1>26. ASSUME NEW w \in Worker, AwaitRequest(w) PROVE Leaving'
    BY <1>26 DEF AwaitRequest
  <1>27. ASSUME NEW w \in Worker, SpuriousWakeup(w) PROVE Leaving'
    BY <1>27 DEF SpuriousWakeup
  <1>28. ASSUME NEW w \in Worker, Respond(w) PROVE Leaving'
    BY <1>28 DEF Respond
  <1>29. ASSUME NEW w \in Worker, SendEndRequest(w) PROVE Leaving'
    BY <1>29 DEF SendEndRequest
  <1>30. ASSUME NEW w \in Worker, UncountRequest(w) PROVE Leaving'
    BY <1>30 DEF UncountRequest
  <1>31. CASE UNCHANGED vars
    BY <1>31 DEF vars
  <1> QED
    BY <1>1, <1>2, <1>3, <1>4, <1>5, <1>6, <1>7, <1>8, <1>9, <1>10, <1>11,
       <1>12, <1>13, <1>14, <1>15, <1>16, <1>17, <1>18, <1>19, <1>20,
       <1>21, <1>22, <1>23, <1>24, <1>25, <1>26, <1>27, <1>28, <1>29,
       <1>30, <1>31
    DEF Next, MainStep, Environment, ConnStep, WorkerStep

-----------------------------------------------------------------------------
(* The theorems.                                                           *)

\* IInv, the conjunction of the layers above, is an invariant: every
\* property below follows from it.
THEOREM Inductive == Spec => []IInv
  <1>1. Init => IInv
    BY TypeInit, ControlInit, RequestInit, CountsInit DEF IInv
  <1>2. IInv /\ [Next]_vars => IInv'
    BY TypeOKStep, HandOffStep, ControlStep, AcceptingStep, DescriptorsStep,
       RequestStepInv, BacklogStep, SocketsStep, LeavingStep
    DEF IInv, TypeInv
  <1> QED
    BY <1>1, <1>2, PTL DEF Spec

\* No request that anyone refers to is ever destroyed, nor its connection
\* (connection.cpp:104-122), whatever the threads' interleaving.
THEOREM MemorySafe == Spec => []NoDangling
  <1>1. IInv => NoDangling
    <2> SUFFICES ASSUME IInv, NEW r \in Request,
                        Pledged(r) \/ \E c \in Conn : handed[c] = r
                 PROVE  state[r] # "ABSENT" /\ r[1] \in global_list
      BY DEF NoDangling
    <2>1. state[r] = "PENDING"
      BY RequestParts DEF IInv, TypeInv, HandOff, RequestInv, Pending
    <2> QED
      BY <2>1, RequestParts DEF IInv, RequestInv, Allocation, Control
  <1> QED
    BY <1>1, Inductive, PTL

\* A request is queued once, or run by one worker, and never both.
THEOREM ServedOnce == Spec => []ExclusiveUse
  <1>1. IInv => ExclusiveUse
    BY DEF IInv, RequestInv
  <1> QED
    BY <1>1, Inductive, PTL

\* request_actives is exactly the number of requests begun and not ended
\* (connection.hpp:44-52): it never wraps, and polling it is sound.
THEOREM ActivesCorrect == Spec => []ActivesExact
  <1>1. IInv => ActivesExact
    BY DEF IInv, RequestInv
  <1> QED
    BY <1>1, Inductive, PTL

\* workers_backlog is exactly the queue and the pushes under way.
THEOREM BacklogCorrect == Spec => []BacklogExact
  <1>1. IInv => BacklogExact
    BY DEF IInv
  <1> QED
    BY <1>1, Inductive, PTL

\* A listed connection, and one a worker writes to, owns its descriptor.
THEOREM SocketsOwned == Spec => []OwnSocket
  <1>1. IInv => OwnSocket
    <2> SUFFICES ASSUME IInv, NEW c \in Conn,
                        c \in global_list \/ \E i \in Id : Served(<<c, i>>)
                 PROVE  fd[c] \in Fd /\ fd_table[fd[c]] = c
      BY DEF OwnSocket
    <2>1. Listed(c)
      BY RequestPair
      DEF IInv, Control, RequestInv, Pending, Allocation, Pledged
    <2> QED
      BY <2>1 DEF IInv, Descriptors, HasSocket
  <1> QED
    BY <1>1, Inductive, PTL

\* No worker leaves while a connection could still push a request.
THEOREM WorkersNeeded == Spec => []WorkersStay
  <1>1. IInv => WorkersStay
    <2> SUFFICES ASSUME IInv, NEW w \in Worker, worker[w] = "exited"
                 PROVE  /\ ~listening /\ main # "create"
                        /\ queue = <<>>
                        /\ \A c \in Conn : conn[c] \in {"none", "unlock", "gone"}
      BY DEF WorkersStay
    <2>1. /\ ~listening /\ main # "create"
          /\ \A c \in Conn : conn[c] \in {"none", "unlock", "gone"}
      BY DEF IInv, Leaving
    <2>2. \A r \in Request : ~InQueue(r)
      BY <2>1, RequestParts
      DEF IInv, RequestInv, Pending, Allocation, Pledged, Listed, Started,
          Draining
    <2>3. queue = <<>>
      <3>1. queue \in Seq(Request)
        BY DEF IInv, TypeInv, TypeOK
      <3>2. ASSUME queue # <<>> PROVE FALSE
        <4>1. 1 \in DOMAIN queue /\ queue[1] \in Request
          BY <3>1, <3>2
        <4> QED BY <4>1, <2>2 DEF InQueue
      <3> QED BY <3>2
    <2> QED BY <2>1, <2>3
  <1> QED
    BY <1>1, Inductive, PTL

\* With at least one worker, main returns after every socket is closed and
\* every request finished.  (hardware_concurrency() may be 0: main.cpp:33.)
THEOREM ShutdownOrder ==
  ASSUME Worker # {}
  PROVE  Spec => []ShutdownIsLast
  <1>1. IInv => ShutdownIsLast
    <2> SUFFICES ASSUME IInv, main = "done"
                 PROVE  /\ \A f \in Fd : fd_table[f] = NoConn
                        /\ \A w \in Worker : serving[w] = NoRequest
      BY DEF ShutdownIsLast
    <2>1. \A w \in Worker : worker[w] = "exited"
      BY DEF IInv, Leaving, AllJoined
    <2>2. \A c \in Conn : conn[c] \in {"none", "unlock", "gone"}
      BY <2>1 DEF IInv, Leaving
    <2>3. ASSUME NEW f \in Fd, fd_table[f] # NoConn PROVE FALSE
      <3>1. fd_table[f] \in Conn /\ HasSocket(fd_table[f])
        BY <2>3 DEF IInv, TypeInv, TypeOK, Descriptors
      <3> QED
        BY <2>2, <3>1 DEF HasSocket, Listed, Started, Draining
    <2>4. \A w \in Worker : serving[w] = NoRequest
      BY <2>1 DEF IInv, Control, Running
    <2> QED BY <2>3, <2>4
  <1> QED
    BY <1>1, Inductive, PTL

\* No step changes the state of a request the pool still has to finish.
THEOREM PledgesKept == Spec => PledgedUntouched
  <1>1. IInv /\ [Next]_vars =>
          [\A r \in Request : Pledged(r) => state'[r] = state[r]]_vars
    <2> SUFFICES ASSUME IInv, [Next]_vars, NEW r \in Request, Pledged(r)
                 PROVE  state'[r] = state[r]
      OBVIOUS
    <2>1. /\ TypeInv /\ RequestInv /\ Pending
          /\ state[r] = "PENDING"
      BY DEF IInv, RequestInv, Pending
    <2>2. ASSUME NEW c \in Conn, NEW i \in Id,
                 BeginRequest(c, i) \/ EndParams(c, i)
                   \/ CancelRequest(c, i) \/ SweepRequest(c, i)
          PROVE  state'[r] = state[r]
      <3>1. r # <<c, i>>
        BY <2>1, <2>2, Untouchable
        DEF BeginRequest, FoundReady, EndParams, CancelRequest, SweepRequest,
            Discardable, Reading, Handing
      <3> QED
        BY <2>1, <2>2, <3>1
        DEF BeginRequest, EndParams, CancelRequest, SweepRequest, TypeInv,
            TypeOK
    <2>3. ASSUME NEW c \in Conn, Erase(c)
          PROVE  state'[r] = state[r]
      <3>1. r[1] # c
        BY <2>1, <2>3, RequestParts
        DEF Erase, RequestInv, DrainedForGood, ActiveIds, Active
      <3> QED
        BY <2>3, <3>1 DEF Erase
    <2>4. ASSUME NEW w \in Worker, UncountRequest(w)
          PROVE  state'[r] = state[r]
      BY <2>4 DEF UncountRequest
    <2> QED
      BY <2>2, <2>3, <2>4, RequestCases DEF RequestStep
  <1> QED
    BY <1>1, Inductive, PTL DEF Spec, PledgedUntouched

-----------------------------------------------------------------------------
(* The process implements Service.tla.                                     *)

\* A step moves one connection to its next phase, or none.
PhaseStep ==
    \/ \A d \in Conn : phaseOf(d)' = phaseOf(d)
    \/ \E c \in Conn :
         /\ \A d \in Conn \ {c} : phaseOf(d)' = phaseOf(d)
         /\ UNCHANGED request_actives
         /\ \/ phaseOf(c) = "absent" /\ phaseOf(c)' = "open"
            \/ phaseOf(c) = "open" /\ phaseOf(c)' = "draining"
            \/ phaseOf(c) = "draining" /\ phaseOf(c)' = "closed" /\ conn[c] = "lock"

\* A step moves one connection along the phases of Service.tla, or none.
LEMMA PhaseCases == TypeInv /\ [Next]_vars => PhaseStep
  <1> SUFFICES ASSUME TypeInv, [Next]_vars PROVE PhaseStep
    OBVIOUS
  <1> USE DEF TypeInv, TypeOK, PhaseStep, phaseOf, ConnStates, Started, Draining,
         Erasing, requestVars, connVars, Reading
  <1>1. ASSUME NEW c \in Conn, CreateConnection(c) PROVE PhaseStep
    BY <1>1 DEF CreateConnection
  <1>2. CASE BeginShutdown
    BY <1>2 DEF BeginShutdown
  <1>3. CASE Shutdown
    BY <1>3 DEF Shutdown
  <1>4. ASSUME NEW c \in Conn, NEW f \in Fd, Accept(c, f) PROVE PhaseStep
    BY <1>4 DEF Accept
  <1>5. CASE CloseListeningSocket
    BY <1>5 DEF CloseListeningSocket
  <1>6. ASSUME NEW c \in Conn, ReadFails(c) PROVE PhaseStep
    BY <1>6 DEF ReadFails
  <1>7. ASSUME NEW c \in Conn, NEW i \in Id, BeginRequest(c, i) PROVE PhaseStep
    BY <1>7 DEF BeginRequest
  <1>8. ASSUME NEW c \in Conn, NEW i \in Id, IgnoreBegin(c, i) PROVE PhaseStep
    BY <1>8 DEF IgnoreBegin
  <1>9. ASSUME NEW c \in Conn, NEW i \in Id, EndParams(c, i) PROVE PhaseStep
    BY <1>9 DEF EndParams
  <1>10. ASSUME NEW c \in Conn, NEW i \in Id, IgnoreEndParams(c, i) PROVE PhaseStep
    BY <1>10 DEF IgnoreEndParams
  <1>11. ASSUME NEW c \in Conn, NEW i \in Id, CancelRequest(c, i) PROVE PhaseStep
    BY <1>11 DEF CancelRequest
  <1>12. ASSUME NEW c \in Conn, PushCount(c) PROVE PhaseStep
    BY <1>12 DEF PushCount
  <1>13. ASSUME NEW c \in Conn, PushEnqueue(c) PROVE PhaseStep
    BY <1>13 DEF PushEnqueue
  <1>14. ASSUME NEW c \in Conn, DropDeserializer(c) PROVE PhaseStep
    BY <1>14 DEF DropDeserializer
  <1>15. ASSUME NEW c \in Conn, LeaveLoop(c) PROVE PhaseStep
    BY <1>15 DEF LeaveLoop
  <1>16. ASSUME NEW c \in Conn, NEW i \in Id, SweepRequest(c, i) PROVE PhaseStep
    BY <1>16 DEF SweepRequest
  <1>17. ASSUME NEW c \in Conn, SweepDone(c) PROVE PhaseStep
    BY <1>17 DEF SweepDone
  <1>18. ASSUME NEW c \in Conn, StopPolling(c) PROVE PhaseStep
    BY <1>18 DEF StopPolling
  <1>19. ASSUME NEW c \in Conn, Erase(c) PROVE PhaseStep
    BY <1>19 DEF Erase
  <1>20. ASSUME NEW c \in Conn, CloseSocket(c) PROVE PhaseStep
    BY <1>20 DEF CloseSocket
  <1>21. ASSUME NEW c \in Conn, UncountSocket(c) PROVE PhaseStep
    BY <1>21 DEF UncountSocket
  <1>22. ASSUME NEW c \in Conn, Unlock(c) PROVE PhaseStep
    BY <1>22 DEF Unlock
  <1>23. ASSUME NEW w \in Worker, CheckListening(w) PROVE PhaseStep
    BY <1>23 DEF CheckListening
  <1>24. ASSUME NEW w \in Worker, CheckActive(w) PROVE PhaseStep
    BY <1>24 DEF CheckActive
  <1>25. ASSUME NEW w \in Worker, PopRequest(w) PROVE PhaseStep
    BY <1>25 DEF PopRequest
  <1>26. ASSUME NEW w \in Worker, AwaitRequest(w) PROVE PhaseStep
    BY <1>26 DEF AwaitRequest
  <1>27. ASSUME NEW w \in Worker, SpuriousWakeup(w) PROVE PhaseStep
    BY <1>27 DEF SpuriousWakeup
  <1>28. ASSUME NEW w \in Worker, Respond(w) PROVE PhaseStep
    BY <1>28 DEF Respond
  <1>29. ASSUME NEW w \in Worker, SendEndRequest(w) PROVE PhaseStep
    BY <1>29 DEF SendEndRequest
  <1>30. ASSUME NEW w \in Worker, UncountRequest(w) PROVE PhaseStep
    BY <1>30 DEF UncountRequest
  <1>31. CASE UNCHANGED vars
    BY <1>31 DEF vars
  <1> QED
    BY <1>1, <1>2, <1>3, <1>4, <1>5, <1>6, <1>7, <1>8, <1>9, <1>10, <1>11,
       <1>12, <1>13, <1>14, <1>15, <1>16, <1>17, <1>18, <1>19, <1>20,
       <1>21, <1>22, <1>23, <1>24, <1>25, <1>26, <1>27, <1>28, <1>29,
       <1>30, <1>31
    DEF Next, MainStep, Environment, ConnStep, WorkerStep

\* Requests begin on open connections only, and a connection is closed
\* exactly when nothing is active on it: Server implements Service.
THEOREM Implements == Spec => ServiceSafety
  <1> DEFINE phase == [c \in Conn |-> phaseOf(c)]
             active == [c \in Conn |-> ActiveIds(c)]
  <1>1. Init => Promise!Init
    <2> SUFFICES ASSUME Init PROVE Promise!Init
      OBVIOUS
    <2>1. \A c \in Conn : phaseOf(c) = "absent"
      BY DEF Init, phaseOf, Started, Draining
    <2>2. \A r \in Request : ~Active(r)
      BY RequestParts
      DEF Init, Active, Pledged, InQueue, Served, BeingPushed
    <2>3. \A c \in Conn : ActiveIds(c) = {}
      BY <2>2, RequestPair DEF ActiveIds
    <2> QED
      BY <2>1, <2>3 DEF Promise!Init
  <1>2. IInv /\ [Next]_vars => [Promise!Next]_(Promise!serviceVars)
    <2> SUFFICES ASSUME IInv, [Next]_vars
                 PROVE  Promise!Next \/ UNCHANGED <<phase, active>>
      BY DEF Promise!serviceVars
    <2>1. OneAtATime /\ PhaseStep
      BY ActiveChange, PhaseCases DEF IInv
    <2>2. ASSUME Stay PROVE UNCHANGED active
      BY <2>2 DEF Stay
    <2>3. ASSUME \A d \in Conn : phaseOf(d)' = phaseOf(d)
          PROVE  UNCHANGED phase
      BY <2>3
    <2>4. ASSUME NEW c \in Conn, NEW i \in Id, Grow(c, i), UNCHANGED phase
          PROVE  Promise!Begin(c, i)
      <3>1. phase[c] = "open" /\ i \notin active[c]
        BY <2>4 DEF Grow, phaseOf, Started, Draining
      <3>2. active' = [active EXCEPT ![c] = @ \cup {i}]
        BY <2>4 DEF Grow
      <3> QED BY <2>4, <3>1, <3>2 DEF Promise!Begin
    <2>5. ASSUME NEW c \in Conn, NEW i \in Id, Shrink(c, i), UNCHANGED phase
          PROVE  Promise!End(c, i)
      <3>1. i \in active[c] /\ active' = [active EXCEPT ![c] = @ \ {i}]
        BY <2>5 DEF Shrink
      <3> QED BY <2>5, <3>1 DEF Promise!End
    <2>6. ASSUME Stay, NEW c \in Conn,
                 \A d \in Conn \ {c} : phaseOf(d)' = phaseOf(d),
                 \/ phaseOf(c) = "absent" /\ phaseOf(c)' = "open"
                 \/ phaseOf(c) = "open" /\ phaseOf(c)' = "draining"
                 \/ /\ phaseOf(c) = "draining" /\ phaseOf(c)' = "closed"
                    /\ conn[c] = "lock"
          PROVE  Promise!Open(c) \/ Promise!Drain(c) \/ Promise!Close(c)
      <3>1. phase' = [phase EXCEPT ![c] = phaseOf(c)']
        BY <2>6
      <3>2. phase[c] = phaseOf(c) /\ UNCHANGED active
        BY <2>2, <2>6
      <3>3. conn[c] = "lock" => active[c] = {}
        BY DEF IInv, RequestInv, DrainedForGood
      <3> QED
        BY <2>6, <3>1, <3>2, <3>3
        DEF Promise!Open, Promise!Drain, Promise!Close
    <2>7. ASSUME NEW c \in Conn, NEW i \in Id, Grow(c, i) \/ Shrink(c, i)
          PROVE  request_actives' # request_actives
      <3>1. request_actives[c] \in Nat
        BY DEF IInv, TypeInv, TypeOK
      <3>2. Decrement(request_actives[c]) # request_actives[c]
        BY <3>1, UIntMaxAssumption DEF Decrement
      <3> QED
        BY <2>7, <3>1, <3>2 DEF Grow, Shrink, IInv, TypeInv, TypeOK
    <2>8. CASE Stay
      BY <2>1, <2>2, <2>3, <2>6, <2>8 DEF PhaseStep, Promise!Next
    <2>9. CASE \E c \in Conn, i \in Id : Grow(c, i) \/ Shrink(c, i)
      BY <2>1, <2>3, <2>4, <2>5, <2>7, <2>9 DEF PhaseStep, Promise!Next
    <2> QED
      BY <2>1, <2>8, <2>9 DEF OneAtATime
  <1> QED
    BY <1>1, <1>2, Inductive, PTL DEF Spec, ServiceSafety, Promise!Safety

=============================================================================
