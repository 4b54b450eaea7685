-------------------------------- MODULE Input --------------------------------
(***************************************************************************)
(* The input of one Request object: its parameters, which the connection   *)
(* thread reads with a fresh deserializer at each BEGIN_REQUEST, and its   *)
(* two istreams (cin and cdata), into whose queues it puts the records the *)
(* application is to read.  Each action is one record handled by           *)
(* handle_packet, or a step of the application.  The peer follows the      *)
(* protocol but cuts its streams into records wherever it likes.           *)
(*                                                                         *)
(* Contents of STDIN and DATA records are not stored: a queued record is   *)
(* named by the request it was sent for, its place, and whether it is the  *)
(* empty one that ends the stream.                                         *)
(***************************************************************************)
EXTENDS NVP

CONSTANTS ParamLists,    \* what a peer may send as PARAMS: sequences of pairs
          MaxBegin,      \* bound: BEGIN_REQUESTs the object accepts
          MaxRecords     \* bound: records in one input stream

ASSUME InputAssumption ==
    /\ ParamLists \subseteq Seq(Pair)
    /\ MaxBegin \in Nat /\ MaxRecords \in Nat

VARIABLES
    phase,        \* Request::state, and how far the worker is
    role,         \* priv_begin_request.role
    deserializer, \* *params_deserializer; it exists in phase "params"
    params,       \* Request::params, as a set of pairs
    queue,        \* of each input stream
    begins,       \* history: BEGIN_REQUESTs accepted
    pairs, left,  \* history: the list being sent, the bytes still to come
    whole,        \* history: every record so far held whole, short pairs
    sent,         \* history: records of each stream for this request
    seen          \* history: the application met the end of the stream

inputVars == <<phase, role, deserializer, params, queue, begins, pairs, left,
               whole, sent, seen>>

Stream == {"cin", "cdata"}

\* Only the responder can be compiled in (request-workers.cpp:67-72), so every
\* other role takes the default branch.
Role == {"RESPONDER", "other"}
Used(r) == IF r = "RESPONDER" THEN {"cin"} ELSE Stream

Record == [of : Nat, n : Nat, last : BOOLEAN]

InputTypeOK ==
    /\ process \in {"running", "terminated", "undefined"}
    /\ phase \in {"ready", "params", "app", "ended"}
    /\ role \in Role
    /\ deserializer \in Deserializer
    /\ params \subseteq Pair
    /\ queue \in [Stream -> Seq(Record)]
    /\ begins \in 0..MaxBegin
    /\ pairs \in ParamLists \cup {<<>>} /\ left \in Seq(Byte)
    /\ whole \in BOOLEAN
    /\ sent \in [Stream -> Seq(Record)]
    /\ seen \in [Stream -> BOOLEAN]

InputInit ==
    /\ phase = "ready" /\ role = "RESPONDER"
    /\ deserializer = Fresh
    /\ params = {}
    /\ queue = [s \in Stream |-> <<>>]
    /\ begins = 0
    /\ pairs = <<>> /\ left = <<>> /\ whole = TRUE
    /\ sent = [s \in Stream |-> <<>>]
    /\ seen = [s \in Stream |-> FALSE]

\* ToMap::new_key: the map keeps the last value of a name.
NewKey(map, p) == {q \in map : q.name # p.name} \cup {p}
Mapper == [p \in Pair |-> [map \in SUBSET Pair |-> NewKey(map, p)]]
MapOf(list) == FoldList(list, {}, Mapper)

-----------------------------------------------------------------------------
(* The connection thread.                                                  *)

\* Mutant: the queue of an object that is used again is kept.
KeepInputs(r) == queue

\* A stream the role does not use gets a null rdbuf and keeps its queue.
ResetInputs(r) == [s \in Stream |-> IF s \in Used(r) THEN <<>> ELSE queue[s]]

\* Mutant: the parameters of the cancelled request stay.
BeginKeepsParams(r, list) ==
    /\ phase = "ready" /\ begins < MaxBegin
    /\ phase' = "params" /\ role' = r
    /\ queue' = ResetInputs(r)
    /\ deserializer' = Fresh
    /\ begins' = begins + 1
    /\ pairs' = list /\ left' = SerializeAll(list) /\ whole' = TRUE
    /\ sent' = [s \in Stream |-> <<>>]
    /\ seen' = [s \in Stream |-> FALSE]
    /\ UNCHANGED <<process, params>>

\* BEGIN_REQUEST for a READY request.  For any other it is dropped.
BeginRequest(r, list) ==
    /\ phase = "ready" /\ begins < MaxBegin
    /\ phase' = "params" /\ role' = r
    /\ queue' = ResetInputs(r)
    /\ params' = {}
    /\ deserializer' = Fresh
    /\ begins' = begins + 1
    /\ pairs' = list /\ left' = SerializeAll(list) /\ whole' = TRUE
    /\ sent' = [s \in Stream |-> <<>>]
    /\ seen' = [s \in Stream |-> FALSE]
    /\ UNCHANGED process

\* A PARAMS record with the next n bytes.  pair_size_error cancels the
\* request (Streams!CancelRequest is its output); the records that are
\* still on their way find no deserializer and are dropped.
FeedParams(n) ==
    LET f == Feed(deserializer, SubSeq(left, 1, n)) IN
    /\ phase = "params" /\ n \in 1..Len(left)
    /\ left' = IF f.how = "throw" THEN <<>> ELSE SubSeq(left, n + 1, Len(left))
    /\ whole' = /\ whole
                /\ \A k \in DOMAIN pairs : ShortPair(pairs[k])
                /\ WholePairs(pairs,
                     Len(SerializeAll(pairs)) - Len(left) + n) # {}
    /\ process' = IF f.how = "undefined" THEN "undefined" ELSE process
    /\ phase' = IF f.how = "throw" THEN "ready" ELSE phase
    /\ deserializer' = f.d
    /\ params' = FoldList(f.out, params, Mapper)
    /\ UNCHANGED <<role, queue, begins, pairs, sent, seen>>

\* The empty PARAMS record: the request goes to the pool.
EndParams ==
    LET f == Feed(deserializer, <<>>) IN
    /\ phase = "params" /\ left = <<>>
    /\ f.how = "end"
    /\ phase' = "app"
    /\ deserializer' = Fresh
    /\ UNCHANGED <<process, role, params, queue, begins, pairs, left, whole,
                   sent, seen>>

\* istreambuf::feed: under queue_mutex, and without ringing queue_bell.
Push(s, packet) == [queue EXCEPT ![s] = Append(@, packet)]

\* STDIN or DATA for a request that is not READY; after a cancellation the
\* record is dropped.
FeedInput(s) ==
    /\ phase # "ready"
    /\ s \in Used(role) /\ Len(sent[s]) < MaxRecords
    /\ \A k \in DOMAIN sent[s] : ~sent[s][k].last
    /\ \E last \in BOOLEAN :
         LET packet == [of |-> begins, n |-> Len(sent[s]), last |-> last] IN
         /\ sent' = [sent EXCEPT ![s] = Append(@, packet)]
         /\ queue' = Push(s, packet)
    /\ UNCHANGED <<process, phase, role, deserializer, params, begins, pairs,
                   left, whole, seen>>

\* The end of the connection destroys the object; a request whose PARAMS
\* have not ended goes with it.
DropRequest ==
    /\ phase # "app"
    /\ phase' = "ready"
    /\ deserializer' = Fresh
    /\ params' = {} /\ left' = <<>> /\ pairs' = <<>> /\ begins' = 0
    /\ queue' = [s \in Stream |-> <<>>]
    /\ sent' = queue'
    /\ UNCHANGED <<role, whole, seen>>

-----------------------------------------------------------------------------
(* The worker.                                                             *)

\* The application reads.  istream::istream and reset build a streambuf and
\* do not pass it to rdbuf, which stays null: every read ends at once.
AppReads(s) ==
    /\ phase = "app" /\ s \in Used(role)
    /\ seen' = [seen EXCEPT ![s] = TRUE]
    /\ UNCHANGED <<process, phase, role, deserializer, params, queue, begins,
                   pairs, left, whole, sent>>

\* END_REQUEST; the state stays PENDING.
EndRequest ==
    /\ phase = "app"
    /\ phase' = "ended"
    /\ UNCHANGED <<process, role, deserializer, params, queue, begins, pairs,
                   left, whole, sent, seen>>

InputNext ==
    \/ \E r \in Role, list \in ParamLists : BeginRequest(r, list)
    \/ \E n \in 1..Len(left) : FeedParams(n)
    \/ EndParams
    \/ \E s \in Stream : FeedInput(s) \/ AppReads(s)
    \/ EndRequest

-----------------------------------------------------------------------------
(* Properties.                                                             *)

\* As long as pairs are short and not cut between records, the map is that
\* of the pairs sent for this request so far, and of no earlier request on
\* the same object; the request is cancelled for an oversize pair only, and
\* never handed to the pool with one (request.cpp:60-92).
ParamsExact ==
    process = "running" /\ whole /\ begins > 0 =>
      LET k == WholePairs(pairs, Len(SerializeAll(pairs)) - Len(left)) IN
      CASE phase = "ready" -> \E j \in DOMAIN pairs : Oversize(pairs[j])
        [] OTHER -> \E j \in k : params = MapOf(Upto(pairs, j))

\* Whatever is sent and however it is cut, no pair over the limit reaches
\* the map, nor is a buffer allocated for one (limits.hpp:22-36).
ParamsWithin ==
    /\ \A p \in params : ~Oversize(p)
    /\ deserializer.dest = "string_buffer" => deserializer.size <= Limit

\* A stream that the role uses holds what was sent for this request, in
\* order, and nothing of an earlier request on the same object, though
\* records of a cancelled one are still on their way (request.cpp:34-57,
\* 94-101).
InputsExact ==
    phase # "ready" => \A s \in Used(role) : queue[s] = sent[s]

\* name-value-pairs.hpp:25-29: the deserializer handles the format of the
\* FastCGI specification, which has four-byte lengths and does not tie
\* pairs to records.
ParamsWhole ==
    process = "running" /\ phase = "app" => params = MapOf(pairs)

\* TUTORIAL.md:125-126: cin and cdata are "true C++ stream": the end of one
\* is what the peer sent as its end.
EndIsSent ==
    \A s \in Used(role) :
      seen[s] => \E k \in DOMAIN sent[s] : sent[s][k].last
=============================================================================
