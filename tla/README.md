# Verification of tfcgi

tfcgi is a small C++ FastCGI framework: it owns `main()`, accepts connections on
descriptor 0, reads FastCGI records, and runs the application's
`fcgi::respond()` for each request in a pool of threads. This directory holds
TLA+ models of its code, the TLC configurations that check them, and proofs
checked by TLAPS. Paths below are relative to the repository.

Contents: [inventory](#1-inventory), [modules](#2-modules),
[runs](#3-runs), [proofs](#4-proofs), [findings](#5-findings),
[limits](#6-what-is-not-modelled-and-what-is-not-proved), [plan](#7-plan).

## 1. Inventory

### Parts, their state and their operations

| Part | Source | State | Operations |
|---|---|---|---|
| Main thread | `src/main.cpp`, `src/stats.hpp` | `socket_listening`, `socket_active`, the vector of workers | accept, retry or give up on an error, `create_connection`, `begin_shutdown`, join, `shutdown` |
| Connection threads | `src/connection.cpp`, `.hpp` | `global_list` and its mutex, `fd`, `socket_insane` (true while the socket is sane), `requests`, `request_actives` | read a packet, allocate a `Request`, dispatch, sweep, poll `request_actives`, erase itself |
| Requests | `src/request.cpp`, `include/fcgi/request.hpp` | `state`, `params_deserializer`, four streams | `handle_packet` for BEGIN_REQUEST, PARAMS, STDIN, DATA; cancellation |
| Workers | `src/request-workers.cpp` | `queue`, `queue_mutex`, `queue_bell`, `workers_backlog` | `push_request`, `pop_request`, run the application, close the streams, END_REQUEST |
| Output streams | `src/iostream.cpp`, `include/fcgi/iostream.hpp` | `send_buffer`, `send_eof`, `rdbuf()`, the stream's badbit | put, overflow, sync, close, reset, destruction |
| Packet sender | `src/connection.cpp:51-70`, `.hpp:93-116` | `out_mutex`, the socket | `send_packet` and two wrappers |
| Packet reader | `src/ipacket.cpp`, `src/connection.cpp:28-50` | header, bytes left, `socket_insane` | construct, `recv_all`, `consume`, skip the rest |
| Name-value pairs | `src/name-value-pairs.cpp` | parser state, lengths, a split pair | `feed`, `serialize` |
| Input streams | `src/iostream.cpp:90-136` | queue of packets, `is_open`, bell | `feed`, `underflow`, `reset` |
| GET_VALUES | `src/connection.cpp:161-181` | result stream of the connection | `new_key`, `handle_packet` |
| Statistics | `src/stats.cpp` | none of its own | `update` reads everyone's counters |

### How they interact

```
main ----accept()----> create_connection --starts--> connection thread
  |                                                   | handle_packet
  | join                                              v
workers <--queue_bell-- queue <--push_request-- Request (state, deserializer)
  |                                                   ^
  | respond(), close streams, END_REQUEST             | sweep, ~Connection
  +------> request_actives-- ----polled by----> connection thread
```

A `Request` belongs to its `Connection` (`requests[id - 1]`), is written by the
connection thread until the PARAMS stream ends, then handed by reference to a
worker. Nothing but the order of a few statements keeps the two threads apart:
the connection thread goes on reading packets for the same id, and destroys the
requests and the connection when the peer hangs up. `request_actives` is the
only thing the worker and the dying connection have in common.

### What is hard

* *Lifetime.* The sweep (`connection.cpp:104-114`) runs while workers hold
  references; the polling loop leaves on a single read of zero; the connection
  thread still resets `params_deserializer` after `push_request`
  (`request.cpp:77-78`).
* *Counters.* Three unsigned counters are incremented and decremented in
  different threads with no lock, each before or after the fact it counts.
* *Blocking.* `pop_request` waits on a condition variable; main waits for
  workers; the loop condition of the workers reads two atomics separately.
* *Descriptors.* `close(fd)` makes the number available to the next `accept()`.
* *Ids.* A peer may begin an id again at any time after END_REQUEST, which it
  sees before the worker has finished with the request.
* *Order of packets.* STDOUT, STDERR, their EOFs and END_REQUEST come out of
  `sync`, `overflow`, `close` and two destructors.
* *Failures of send and recv* in the middle of a packet, in a destructor, in a
  worker outside its `try`.

### What makes each part correct

| Part | Properties |
|---|---|
| Connection threads, requests | no dangling `Request` or `Connection`; a request in one place at most; `request_actives` exact; a held request left alone; hung-up connections closed |
| Workers | backlog exact; pushed requests finished; no worker leaves too early |
| Main thread | descriptors owned by one connection; `shutdown` last; shutdown completes |
| Output streams | EOF ends a stream; END_REQUEST ends a request after both EOFs; no character lost but by a send that throws, and none sent after the gap; the id echoed |
| Packet sender | packets whole and in sequence |
| Packet reader | the next header read where it is; nothing read beyond a record; a dead socket noticed |
| Name-value pairs | the map holds what was sent for this request; no pair over the limit is stored or allocated |
| Input streams | a queue holds the records of its own request, in order; the end is the peer's end |
| GET_VALUES | the answers to the first exchange, once and in order; ended once |
| Statistics | a snapshot names each connection once and shows the caller its own |

## 2. Modules

| Module | What it models |
|---|---|
| `RequestQueue` | the queue, the condition variable and the backlog: action fragments, no behaviour of its own |
| `Server` | main, connection threads, workers and the objects they share; extends `RequestQueue` |
| `Service` | the promise: requests begin and end on an open connection, a connection is closed when it is drained |
| `ServerInv` | the inductive invariant of `Server` |
| `Server_proofs` | theorems about `Server` |
| `Streams` | the output of one `Request` over its life |
| `StreamsInv` | the inductive invariant of `Streams` |
| `Streams_proofs` | theorems about `Streams` |
| `SendPacket` | `send_packet` byte by byte, between threads |
| `SendPacket_proofs` | theorem about `SendPacket` |
| `PacketReader` | `recv_all` and `ipacket`: how much of a record is read, by whom, and what a failed read does |
| `PacketReader_proofs` | theorems about `PacketReader` |
| `Iteration` | loops of a known number of turns as functions: `Iterate`, `FoldList` |
| `Iteration_proofs` | induction over turns and over lists, for the modules below |
| `NVP` | the name-value pairs: serializer and parser as operators, with the reference view of the format |
| `NVP_proofs` | theorems about the serializer and the parser |
| `Input` | the parameters and the input streams of one `Request` object; extends `NVP` |
| `GetValues` | the GET_VALUES handler of a connection and its result stream; extends `NVP` |
| `Handlers` | both on one connection thread |
| `HandlersInv` | the inductive invariant of `Handlers` |
| `Handlers_proofs` | theorems about `Handlers`, from those of `NVP_proofs` |
| `Stats` | what a statistics snapshot shows of `Server` |
| `Stats_proofs` | theorem about `Stats`, from the invariant of `Server_proofs` |
| `MCServer`, `MCStreams`, `MCSendPacket`, `MCPacketReader`, `MCHandlers` | symmetry sets and constants for TLC |

Definitions marked "Mutant" are plausible wrong versions of the definition they
precede. No specification uses them; replacing the original by one must make TLC
report a violation, which shows that the property depends on that code.

### Server

A pair `<<c, i>>` is the `Request` object in slot `i` of connection `c`. Program
counters are strings: `main`, `conn[c]`, `worker[w]`. One action is what a thread
does between two points where another thread could see a difference:

* `push_request` is two steps (`PushCount`, `PushEnqueue`), because the backlog
  is incremented outside the mutex, and `DropDeserializer` is a third.
* everything done under `queue_mutex` is one step; `wait` is a step that puts the
  worker into `bell`, and `notify_one` removes any one of its members.
* the destruction of a connection is `Erase` (unlink, destroy the requests, under
  the mutex), `CloseSocket`, `UncountSocket`, `Unlock`.
* the condition of the workers' loop is two steps, one per atomic.
* `handle_packet` is one step: everything it touches belongs to the connection
  thread until the request is pushed (that this is so is `ExclusiveUse` and
  `Pending`, which are checked and proved).

Packets are not queued. `peer` records, for each id, what a peer that follows the
protocol may send next, and a read takes any such packet: this covers every delay
of an in-order byte stream. A failure of the socket may come with any packet: in
the header (`ReadFails`) or in the body (`BodyRead`), where the code goes on with
the packet and notices at the next iteration. Decrementing an unsigned zero gives
`UIntMax`, so a missing or doubled decrement shows as what it would be.

### Streams

By `Server!ExclusiveUse` one thread at a time works on a request, so `Streams`
is sequential: the phases of one object, its two streams with their buffers, and
the list of packets given to `send_packet` since the last BEGIN_REQUEST.
Characters are counted. `sock` is "reset" once the peer is gone: `send` fails with
EPIPE or ECONNRESET and each packet is dropped. On a socket that is "up" any one
send may throw (`connection.cpp:67`: ENOMEM, EHOSTUNREACH) and the next may work, so
each action that sends has a disjunct in which it throws. In `sync` and `overflow`
that loses the buffer, whose put pointer was moved back before, and the ostream sets
its badbit (`Lose`); so it is for the flush in `close`, which then goes on to replace
the buffer. In a destructor, or in the worker's own `send_packet`, it ends the
process with the packets before it sent (`Terminate`). `accepted` and `lost` are
history variables. An id is its two bytes in memory order.
Whether a cancelled request is reused (it is) or a finished one (it is not, see
the findings) follows from `phase`.

### SendPacket

Each byte on the wire carries the packet it is from, its place and the declared
length, so `Framing` can say what a reader of the socket needs: each header
begins where the previous packet's declared length ends. `PointerSize` is the
`sizeof(buffer)` of `connection.hpp:106`, which stands there for the size of the
header. `SendsEnd` is about the way out of the loop: whatever `send` answers, the
mutex is given back, provided that the peer reads or its socket fails.

### PacketReader

Bytes are counted: `unread` is what the peer's record still has on the wire,
`need`, `asked` and `remaining` are the program's counters. A handler takes the
whole body (`sink_to_vector`), its first `BodySize` bytes (BEGIN_REQUEST) or
nothing, and the destructor the rest; all of them end in `consume`, which decides
about the padding. Any read may return fewer bytes, be interrupted, or fail for
good at any byte. What an unfinished header holds is any value. Where the reader
would take the middle of a record for a header the model stops: what it does from
there depends on the bytes.

`Server` uses the outcome: a packet is handled whole, or with a body that is cut
(`BodyRead`), or not at all (`ReadFails`), and an interrupted read looks to it
like a failed one, which is what the code makes of it.

### NVP

`Feed` maps a deserializer and the content of one packet to the deserializer after
it, the pairs given to `new_key`, and how `feed` came back: with more to come, at
the end of the stream, with `pair_size_error`, or having used memory it may not.
Bytes are numbers below `Radix` (8 in the runs, 256 in the code), so that a length
of 4 already needs the long form; `name_len` and `value_len` are four bytes in
memory, written and read in the order the code does. The details that decide what
is parsed are kept: a whole four-byte length keeps its top bit and stops the parse
unless exactly four bytes follow; one cut by the end of the packet is completed by
the next packet; `remaining_len` is not reset, nor `current_buffer` moved by a
partial copy; the sum of the two lengths is made in 32 bits. A byte that nothing
wrote is `Uninit`. Where the code would read or write outside its objects, or use
such a byte, `process` becomes "undefined" and the model stops: C++ says nothing of
what follows. The `do ... while (len)` loop is `Iterate` over `Turn`, for as many
turns as the packet has bytes; a turn after the last one changes nothing.

### Input, GetValues, Handlers

`Input` is one `Request` object over several uses. The peer sends a list of pairs
cut into records anywhere (`FeedParams(n)` is a PARAMS record with the next `n`
bytes) and input records at any time between BEGIN_REQUEST and the end; records of
a cancelled request are dropped. What `Streams` has (the messages and packets of a
cancellation) is not repeated. A record of an input stream is the number of its
request, its place, and whether it is the last. `AppReads` is a read by the
application: the `rdbuf` of an `istream` is null, so the read ends whatever the
queue holds.

`GetValues` has the connection's second parser, which lives as long as the
connection, and the stream it answers on, as the bytes that the stream took;
`Decode` reads them as a peer does. Nothing catches its `pair_size_error`:
`process` becomes "terminated". `Handlers` runs both in one connection thread, in any order of
records, to the end of the connection. Their common variable is `process`.

### Stats

No behaviour of its own: `Connections` is what `GlobalStats::update` copies while it
has `global_list_mutex`, so a state with the mutex free is a possible snapshot. The
counters read before are atomics, each exact by `BacklogExact` and `SocketsExact`.

## 3. Runs

| Run | Shows | Bounds |
|---|---|---|
| `server_safety` | the nine safety properties and the inductive invariant | 2 connections, 2 ids, 2 workers, 2 descriptors |
| `server_liveness` | pushed requests end, hung-up connections close; `Server` implements `Service`; a held request is left alone | 2 connections, 1 id, 2 workers, 2 descriptors |
| `streams_safety` | EOF and END_REQUEST in order; nothing lost but by a send that throws, and nothing sent after that; the inductive invariant | buffer of 2, 6 characters, 3 requests, throws at any sends |
| `send_safety` | framing; the mutex is given back | 3 threads, 4 packets of 0 or 2 bytes after a 2-byte header |
| `reader_safety` | the reader stands at headers, does not read beyond a record, and leaves when the peer is gone | header and body of 2 bytes, contents of 0 to 3, padding of 0 to 2, any number of records |
| `handlers_safety` | parameters, input records and answers are what was sent; the size limit holds; the inductive invariant | bytes below 8, limit of 5, lists of 2 pairs cut everywhere, 2 uses of the object, 2 records per stream, 2 GET_VALUES streams |
| `server_shutdown`, `server_reuse`, `streams_echoid`, `reader_eintr`, `handlers_params`, `handlers_end` | the findings below, one each | one connection, one id; as above for the others |

**Bounds.** Two connections are what the list mutex, descriptor reuse and the
crossing of two shutdowns need; two ids let one request of a connection be read,
swept or cancelled while another is queued or run (one is enough where the
question is what happens to a pushed request, as in `server_liveness`); two workers let one block,
leave or take the other's wake-up. No action names more than two of any kind, and
the proofs remove these bounds for safety. A connection and its socket are used
once (`conn` ends in "gone"), so descriptor reuse is by the other connection. For
streams, a buffer of two characters has the empty, partial and full cases;
six characters fill it three times, so a throw can come in a first, a middle or the
last packet, and three requests can follow one that lost its buffer. Four packets let three threads queue at the
mutex while one has sent part of its second packet. Contents of 0 to 3 bytes are
empty, shorter than, as long as and longer than the body a handler takes; the
reader keeps nothing from one record to the next but the flag, so its runs need
no bound on their number. `Server` needs no bound on
counters: they count objects of finite sets. In
`handlers_safety` the lists have a name twice, a pair over the limit behind one
within it, and a value of the long form; two uses of the object meet what the first
left; two GET_VALUES streams meet the closed result stream, and the answer to one
name is of the long form. One connection has one object: objects share nothing but
the thread. `MaxPut`, `MaxBegin`, `MaxPackets`, `MaxRecords` and `MaxQueries` are
the only cut-offs.

**Fairness** (`Server!Fairness`): weak fairness of the main thread, of each
connection thread and of each worker. It says that the operating system runs
every thread that can run, that the application's `respond()` returns, and that
`send()` returns (the peer reads, or its socket fails), which the code has no
timeout to enforce. Nothing is assumed of peers, of `accept()`, or of spurious
wake-ups. Weak fairness is enough because each thread's step, once enabled, stays
enabled or is disabled by another thread that makes progress; for the two locks
this is model-checked, not assumed by strong fairness. `MCServer_liveness` uses
no symmetry. In `SendPacket` each thread is fair, and the socket takes more bytes as
long as it works: a peer reads, and a network that is down (`send` is retried in a
loop) comes back; the mutex is not assumed to be fair. In `PacketReader` only the thread's own steps are fair: reads of a
live socket, signals and the failure itself come or do not; a read of a dead
socket returns.

**Deadlock** is not checked in any run: the process may rightly stop (main
returned), and in `Server` a quiet state is one in which everyone waits for the
peers. That a thread is not stuck is what the liveness properties say.

## 4. Proofs

`Server_proofs` proves, for any finite sets of connections and ids and any sets
of workers and descriptors:

| Theorem | States |
|---|---|
| `TypeCorrect` | `[]TypeOK` |
| `Inductive` | `[]IInv` |
| `MemorySafe` | `[]NoDangling` |
| `ServedOnce` | `[]ExclusiveUse` |
| `ActivesCorrect`, `BacklogCorrect` | `[]ActivesExact`, `[]BacklogExact` |
| `SocketsOwned` | `[]OwnSocket` |
| `WorkersNeeded` | `[]WorkersStay` |
| `ShutdownOrder` | `[]ShutdownIsLast`, given `Worker # {}` |
| `PledgesKept` | `PledgedUntouched` |
| `Implements` | `ServiceSafety`: the initial state maps to one, each step to a step or a stutter |

The assumptions are `ServerAssumption` (finite sets, and stand-ins for "none"
outside the sets they extend) and `UIntMaxAssumption`.

**The argument.** None of the properties is inductive. `NoDangling` holds because
a held request is PENDING, and neither the sweep nor a packet changes a PENDING
request without a deserializer (`Pending`); that the last step, `Erase`, destroys
no held request rests on the counter: it read zero, the zero is exact
(`ActivesExact`), and it stays zero because the thread that could begin a request
is the one that waits (`DrainedForGood`). `ActivesExact` needs `ExclusiveUse`: if a
request could be in two places, ending it once would leave it active. And
`ExclusiveUse` needs `Pending`: only a request in READING_PARAMS can be pushed,
so never a held one. These five parts (`RequestInv`) are proved together. Below
them are the types (`TypeInv`), what program counters say about held objects
(`Control`), the accept hand-over (`Accepting`) and descriptors (`Descriptors`);
above them the two exact counts and what a worker that left has seen (`Leaving`),
which rests on `SocketsExact`. Each part has a lemma with one step per action.
For the counts, the lemmas first state what a step can do to the places that hold
requests (`HolderCases`) and to their states (`RequestCases`), so that the
cardinality arguments are made once.

`SendPacket_proofs` proves `FramingCorrect`, `Spec => []FramingUnlessTorn`, from
`PointerSize = HeaderSize`, for any threads and lengths: the holder of the mutex
is the only sender, and the wire ends at a packet's end or at its holder's
position (`Position`).

`PacketReader_proofs` proves `AlignedCorrect` (`[]AlignedUnlessEmpty`) and
`WithinRecord` (`[]NeverOverreads`) for any sizes. The invariant says in each
phase what `unread` is in terms of the program's counters (`Accounted`); it claims
nothing of a dead socket, from which nothing is read any more.

`Streams_proofs` proves `TypeCorrect` (`[]TypeOK`), `OrderInductive`
(`[]StreamsIInv`), `EofCorrect` (`[]EofEndsStream`), `EndCorrect` (`[]EndIsLast`),
`NothingLostCorrect` (`[]NothingLost`) and `NothingAfterLossCorrect`
(`NothingAfterLoss`) for any sends that throw, any buffer size, id, number of characters
and of uses. Neither order is inductive: that the EOF sent now is the
first of its stream rests on the buffers. A stream is ended on the wire exactly when
its buffer was replaced (`WireEnds`), a replaced buffer has nothing to say, and that of
a running request will end its stream (`Buffers`), also after a throw; END_REQUEST
leaves no attached buffer for `~Request` to flush (`EndOnce`). Lemmas about lists say
what one more packet does to `WellFormed`; each action then has one step.
`NothingLost` is a sum over the wire, and BEGIN_REQUEST starts the sum again: it
needs that no buffer still holds characters of the request before (`NothingWaits`).
With throws the sum may be short by one buffer and no more: a stream that lost one
holds nothing and, while it has a buffer, has its badbit set (`LostKnown`), so no put
gets through and no packet of characters follows. `NothingAfterLoss` is the action
property with the same reason.

`Stats_proofs` builds on `Server_proofs`: `SnapshotCorrect` (`[]SnapshotExact`)
says that ids are unique because descriptors are owned, and that the caller's row is
there because its request keeps the connection in the list.
`SendPacket_proofs` and `PacketReader_proofs` also prove their `TypeCorrect`.

**Loops and lists.** What a loop computes is proved by induction. The library's
induction theorems take a predicate as a parameter, which no prover here can
instantiate; `Iteration_proofs` therefore states induction for a set in the place of
the predicate (`SetInduction` for numbers, `ListInduction` for sequences), derived
from the fact that a finite set has no injection into a smaller one. The step of a
loop is a function, so that lemmas can be stated about any step: `TurnsAre` (the
recursive definition has the function it describes), `IterateType`, `KeptAlong` (an
invariant of the loop), `FoldAppend` and `FoldConcat`.

`NVP_proofs` proves of the parser and the serializer, for any radix, host byte order
and limit:

* `FeedModerate`: from any deserializer within the limit and for any bytes, `feed`
  delivers only pairs within the limit and leaves a deserializer of its type whose
  buffer is within the limit. The invariant of the loop is `ModerateResults`.
* `FeedWhole`: a record of whole pairs with short names and values is delivered pair
  by pair and leaves the parser between pairs, or ends with `pair_size_error`, and
  then one of its pairs is over the limit. In particular, it never reads a length that
  nothing wrote: the length fields are converted in place (`ntohl`, also of a field that a
  later pair overwrites), which `NtohlTwice` and `OneByteNative` follow through memory.
* `DecodeSerialized`: a reader of the format gets back from `SerializeAll(w)` the
  list `w`, if each size is below 2^31. `serialize` accepts sizes up to
  0x8FFFFFFF and loses their top bit, so the hypothesis is needed.

`Handlers_proofs` joins these to the records: `InputsCorrect` (`[]InputsExact`),
`TypeCorrect` (`[]TypeOK`), `ParamsWithinCorrect`, `ParamsExactCorrect`,
`HandlersInductive` (`[]HandlersIInv`) and `AnswersExactCorrect`, for any lists of
pairs, cuts, answers, bounds on uses and records. `ParamsExact` and `AnswersExact` are
not inductive, as they say nothing of the parser. `LimitInv` says that both
deserializers and the map are within the limit; it is inductive by `FeedModerate`.
`ParamsInv` says that, as long as records hold whole short pairs, the list is cut in two
at a pair: the map is that of the pairs before the cut, the bytes to come are the
others, and the parser is between pairs (`Clean`). A record moves the cut
(`CutInThree`, `WholeRecord`), and `WhereCut` turns the place in bytes, in which the
properties are stated, into the place in the list. `AnswersInv` is the same of the
first GET_VALUES stream, with the life of the result stream: it has a buffer until that
stream ends, and never again, so later answers are not written and one EOF is sent.

The assumptions are those the modules name: a byte has an even number of values,
more than two (`NVPAssumption`); what peers send are lists of pairs
(`InputAssumption`); the known names and their values are shorter than 2^31
(`GetValuesAssumption`: in the code three literals and numbers made by
`std::to_string`, `connection.cpp:161-173`).

TLC checks each of the three inductive invariants as an invariant of a run: `IInv` in
`server_safety`, `StreamsIInv` in `streams_safety`, `HandlersIInv` in
`handlers_safety`. Proved for every instance: every invariant that a passing run
checks, the refinement (TLC's run of it has one id, the proof any number) and the
action properties `PledgedUntouched` and `NothingAfterLoss`.
Only model-checked: the liveness properties `PledgedEnds`, `HangupCloses`, `SendsEnd`
and `HangupSeen` (liveness under fairness is out of TLAPS's reach). The violation
runs show behaviours, of which there is nothing to prove.

## 5. Findings

Each is a run that TLC ends with a violation.

1. `server_shutdown`: a worker blocked in `pop_request` is never told that the
   server stops, so main does not return (`request-workers.cpp:38` against
   `stats.hpp:26`, `TUTORIAL.md:101`).
2. `server_reuse`: a finished request stays PENDING, so a peer that keeps the
   connection and uses the id again gets no answer (`request-workers.cpp:96`
   against `TUTORIAL.md:125`).
3. `streams_echoid`: the id of a response has the bytes of the request's id
   swapped on little-endian hosts (`connection.cpp:78`). The id is converted once
   more each time a stream is closed (`iostream.cpp:81`), so the first use of a
   `Request` and the next do not agree either.
4. `reader_eintr`: a signal ends the connection of the thread it interrupts
   (`connection.cpp:36` against `connection.cpp:41`).
5. `handlers_params`: a parameter with a name or value of 128 bytes or more, or one
   cut between two records, does not reach the application
   (`name-value-pairs.cpp:58`, `:79-86` and `:120-126` against
   `name-value-pairs.hpp:25-38`).
6. `handlers_end`: `cin` and `cdata` are at their end from the start
   (`iostream.cpp:122-136` against `TUTORIAL.md:125-126`); nor is it the deadlock
   that `TUTORIAL.md:143` warns of. If `rdbuf` were set, `underflow` would return
   EOF as well: `is_open` is zero from the start and nothing sets it.

More, seen while modelling, have no run of their own:

* An exception in the middle of a packet leaves it torn, and the next packet starts
  inside it (`connection.cpp:67` against the comment on `out_mutex`,
  `connection.hpp:37-41`): `Framing` fails, `FramingUnlessTorn` holds.
* The size of a pointer is sent for that of the header (`connection.hpp:106`): on a
  32-bit host each packet is short of its declared length. The theorem
  `FramingCorrect` assumes `PointerSize = HeaderSize`.
* The padding of a record without content is taken for a header (`ipacket.cpp:48`
  against the comment before it): `Aligned` fails, `AlignedUnlessEmpty` holds.
* If `hardware_concurrency()` returns 0 there is no worker to join, and main calls
  `shutdown` over live connections (`main.cpp:33` against `fcgi.hpp:97-98`).
  `ShutdownIsLast` fails in `MCServer` with `Worker = {}`; `server_safety` and the
  theorem `ShutdownOrder` have a worker.
* A response that lost a buffer is still ended as a whole one, by EOF and END_REQUEST
  with REQUEST_COMPLETE. The application can see badbit as long as it has the stream
  open; of a loss in `close()`, or in the worker's own closes, no one is told
  (`iostream.cpp:75-83`, `request-workers.cpp:93-97`, where the errors are a TODO).
* `ipacket::recv_all` consumes what it asked for whether or not it was received
  (`ipacket.cpp:62`), so the handler of a connection's last packet may use a body
  that is partly unread memory: `PacketReader` and `Server` (`BodyRead`) have the
  step.
* A GET_VALUES pair over the size limit terminates the process (`connection.cpp:177`),
  and only the first GET_VALUES stream of a connection is answered.

## 6. What is not modelled, and what is not proved

* `istreambuf::underflow`: no code reaches it, because no `rdbuf` is set. `CreateMap`,
  the move assignments of the streams and `quick_shutdown`: nothing uses them.
* The exception of `serialize` for names over 2 GB (and its limit, 0x8FFFFFFF, which
  is more than the 31 bits of a length can say).
* `workers_online` and `workers_sleeping`, which are only shown.
* What follows a read or write outside an object in `Deserializer::feed`.
* The application: `respond()` is a step that ends.
* Packets of a peer that does not follow the protocol. Roles are in `Input`, as the
  responder and all others: the code does not compile with another role
  (`request-workers.cpp:67-72`). For `Server` all of them end the same way.
* Memory exhaustion and failure to start a thread.
* What static destruction does to a detached thread still in `erase()` when main
  returns (the window is the state "unlock").
* Examples, build files.

## 7. Plan

In order of importance; all but 9 are done.

1. `Server` over `RequestQueue`, `Service` as its abstract specification, the
   inductive invariant and the theorems.
2. `Streams`: order and completeness of the output.
3. `SendPacket`: framing between threads, with its theorem; the mutex given back.
4. `PacketReader`: `recv_all`, `ipacket` and padding, against the stream the peer
   wrote; EINTR, truncated bodies; its theorems.
5. `NVP`, `Input`: parameters and input records over all cuts, against the format.
6. `GetValues` and `Handlers`: the result stream across several exchanges.
7. `Stats`: what one snapshot may show while threads move.
8. Proofs: `EofEndsStream`, `EndIsLast`, `NothingLost`, `NothingAfterLoss` and the types of `Streams`;
   the parser and the serializer as loops; `ParamsWithin`, `ParamsExact` and
   `AnswersExact` for any lists and cuts.
9. Refinements below `Server`: `Streams` as an implementation of a response (data,
   EOFs, END_REQUEST, each once), `SendPacket` as one of an atomic send; and the
   safety half of the liveness properties, as invariants: in which states a worker or
   a connection thread has no step of its own.
