---------------------------- MODULE RequestQueue ----------------------------
(***************************************************************************)
(* The hand-off of requests from the connection threads to the workers     *)
(* (request-workers.cpp): a FIFO queue under queue_mutex, the condition    *)
(* variable queue_bell and the counter workers_backlog.  The module holds  *)
(* no behaviour of its own; Server.tla conjoins these fragments with the   *)
(* program counters of the threads that take them.                         *)
(*                                                                         *)
(* Everything done while queue_mutex is held is one step: queue and bell   *)
(* are touched under that mutex only.  workers_backlog is an atomic, and   *)
(* push_request increments it BEFORE taking the mutex, so that increment   *)
(* is a step of its own.                                                   *)
(***************************************************************************)
EXTENDS Naturals, Sequences

CONSTANT UIntMax    \* largest unsigned int: what decrementing 0 gives

ASSUME UIntMaxAssumption == UIntMax \in Nat \ {0}

VARIABLES queue,            \* std::queue of references to requests
          bell,             \* workers blocked in queue_bell.wait
          workers_backlog

queueVars == <<queue, bell, workers_backlog>>

\* x-- on an unsigned counter.  Increments count live objects and stay far
\* below UIntMax; a decrement of 0 is the wrap that would really happen.
Decrement(n) == IF n = 0 THEN UIntMax ELSE n - 1

\* push_request, first statement.
CountBacklog ==
    /\ workers_backlog' = workers_backlog + 1
    /\ UNCHANGED <<queue, bell>>

\* notify_one: wakes one blocked worker; lost when there is none.
NotifyOne ==
    \/ bell = {} /\ UNCHANGED bell
    \/ \E w \in bell : bell' = bell \ {w}

\* Mutant: the bell is not rung.
EnqueueSilently(r) ==
    /\ queue' = Append(queue, r)
    /\ UNCHANGED <<bell, workers_backlog>>

\* push_request, under the mutex.
Enqueue(r) ==
    /\ queue' = Append(queue, r)
    /\ NotifyOne
    /\ UNCHANGED workers_backlog

\* Mutant: the request is read but never popped.
DequeueKeep(w) ==
    /\ w \notin bell
    /\ queue # <<>>
    /\ workers_backlog' = Decrement(workers_backlog)
    /\ UNCHANGED <<queue, bell>>

\* pop_request when the queue is not empty: front, pop, backlog--.
Dequeue(w) ==
    /\ w \notin bell
    /\ queue # <<>>
    /\ queue' = Tail(queue)
    /\ workers_backlog' = Decrement(workers_backlog)
    /\ UNCHANGED bell

\* pop_request when it is empty: wait releases the mutex and blocks.
Block(w) ==
    /\ w \notin bell
    /\ queue = <<>>
    /\ bell' = bell \cup {w}
    /\ UNCHANGED <<queue, workers_backlog>>

\* A wait may return with no notification; the while loop tests again.
WakeSpuriously(w) ==
    /\ w \in bell
    /\ bell' = bell \ {w}
    /\ UNCHANGED <<queue, workers_backlog>>
=============================================================================
