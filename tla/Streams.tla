------------------------------- MODULE Streams -------------------------------
(***************************************************************************)
(* The output of one Request object: its two ostreams (cout and cerr),     *)
(* each with the ostreambuf that turns characters into packets, and the    *)
(* END_REQUEST packet.  By Server!ExclusiveUse one thread at a time works  *)
(* on it: its connection thread until the parameters are read, then a      *)
(* worker.  wire is what send_packet was given since the last              *)
(* BEGIN_REQUEST, the packets that went whole: of one that threw a part    *)
(* may be on the socket, which is SendPacket.tla's subject.  Other         *)
(* requests' packets may come between, never inside.                       *)
(*                                                                         *)
(* A send on a working socket may throw (connection.cpp:67), and the next  *)
(* one not: each send that can throw does so in a disjunct of its action.  *)
(*                                                                         *)
(* Characters are counted, not stored.  An id is the pair of its bytes in  *)
(* memory order, as the peer sent them: the code never converts it.        *)
(***************************************************************************)
EXTENDS Naturals, Sequences, Iteration

CONSTANTS Cap,           \* sizeof(send_buffer.data)
          Id,            \* requestId, <<first byte, second byte>>
          LittleEndian,  \* of the host
          MaxPut,        \* bound: characters given to the streams
          MaxBegin       \* bound: BEGIN_REQUESTs the object accepts

ASSUME StreamsAssumption ==
    /\ Cap \in Nat \ {0}
    /\ Id \in Nat \X Nat
    /\ LittleEndian \in BOOLEAN
    /\ MaxPut \in Nat /\ MaxBegin \in Nat

VARIABLES
    phase,    \* what is being done with the request
    buf,      \* of each stream: rdbuf() is set, the buffer's fields
    bad,      \* of each stream: its badbit
    sock,     \* "up"; "reset": every send is refused, with no exception
    wire,
    accepted, \* history: characters each stream took
    lost,     \* history: a send threw and took a stream's buffer with it
    puts, begins

vars == <<phase, buf, bad, sock, wire, accepted, lost, puts, begins>>

Stream == {"out", "err"}
Phases == {"ready", "params", "app", "report", "flush_report", "close_out",
           "close_err", "end", "ended", "gone", "terminated"}

Htons(id) == IF LittleEndian THEN <<id[2], id[1]>> ELSE id

\* The ostreambuf constructor; rdbuf is set by the one of ostream.
NewBuf(id, attached) ==
    [attached |-> attached, pending |-> 0, send_eof |-> FALSE,
     id |-> Htons(id)]

Packet == [kind : {"data", "eof"}, stream : Stream, id : Nat \X Nat,
           len : 0..Cap]
            \cup [kind : {"end"}, id : Nat \X Nat]
Data(s) == [kind |-> "data", stream |-> s, id |-> buf[s].id,
            len |-> buf[s].pending]
Eof(s) == [kind |-> "eof", stream |-> s, id |-> buf[s].id, len |-> 0]
End == [kind |-> "end", id |-> Htons(Id)]

TypeOK ==
    /\ phase \in Phases
    /\ buf \in [Stream -> [attached : BOOLEAN, pending : 0..Cap,
                           send_eof : BOOLEAN, id : Nat \X Nat]]
    /\ bad \in [Stream -> BOOLEAN]
    /\ sock \in {"up", "reset"}
    /\ wire \in Seq(Packet)
    /\ accepted \in [Stream -> Nat]
    /\ lost \in [Stream -> BOOLEAN]
    /\ puts \in 0..MaxPut /\ begins \in 0..MaxBegin

Init ==
    /\ phase = "ready"
    /\ buf = [s \in Stream |-> NewBuf(Id, TRUE)]
    /\ bad = [s \in Stream |-> FALSE]
    /\ sock = "up"
    /\ wire = <<>>
    /\ accepted = [s \in Stream |-> 0]
    /\ lost = [s \in Stream |-> FALSE]
    /\ puts = 0 /\ begins = 0

-----------------------------------------------------------------------------
\* send_packet: EPIPE and ECONNRESET drop the packet.
Send(packets) == wire' = IF sock = "up" THEN wire \o packets ELSE wire

\* Mutant: the ostream does not set its badbit.
LoseSilently(s) ==
    /\ sock = "up" /\ buf[s].pending > 0
    /\ buf' = [buf EXCEPT ![s].pending = 0]
    /\ lost' = [lost EXCEPT ![s] = TRUE]
    /\ UNCHANGED <<wire, bad>>

\* sync() moves pptr back before the packet is sent and raises send_eof after
\* it, so a throw loses the buffer; the ostream turns the throw into badbit.
Lose(s) ==
    /\ sock = "up" /\ buf[s].pending > 0
    /\ buf' = [buf EXCEPT ![s].pending = 0]
    /\ bad' = [bad EXCEPT ![s] = TRUE]
    /\ lost' = [lost EXCEPT ![s] = TRUE]
    /\ UNCHANGED wire

Sync(s) ==
    \/ /\ Send(IF buf[s].pending = 0 THEN <<>> ELSE <<Data(s)>>)
       /\ buf' = [buf EXCEPT ![s].pending = 0,
                    ![s].send_eof = @ \/ buf[s].pending > 0]
       /\ UNCHANGED <<bad, lost>>
    \/ Lose(s)

\* sputc of one character: overflow when the buffer is full.
Good(s) == buf[s].attached /\ ~bad[s]

\* Mutant: the buffer is never full.
PutUnchecked(s) ==
    /\ Good(s)
    /\ buf' = [buf EXCEPT ![s].pending = @ + 1]
    /\ accepted' = [accepted EXCEPT ![s] = @ + 1]
    /\ UNCHANGED <<bad, lost, wire>>

Put(s) ==
    /\ Good(s)
    /\ \/ /\ buf' = IF buf[s].pending = Cap
                    THEN [buf EXCEPT ![s].pending = 1, ![s].send_eof = TRUE]
                    ELSE [buf EXCEPT ![s].pending = @ + 1]
          /\ Send(IF buf[s].pending = Cap THEN <<Data(s)>> ELSE <<>>)
          /\ accepted' = [accepted EXCEPT ![s] = @ + 1]
          /\ UNCHANGED <<bad, lost>>
       \/ buf[s].pending = Cap /\ Lose(s) /\ UNCHANGED accepted

\* Mutant: the destructor does not flush.
LastPacketsNoFlush(s, loses) ==
    IF buf[s].send_eof \/ buf[s].pending > 0 THEN <<Eof(s)>> ELSE <<>>

\* What a closed or destroyed stream sends: its buffer, unless the flush of
\* close() loses it, and the EOF packet.
LastPackets(s, loses) ==
    LET flushed == buf[s].pending > 0 /\ ~loses
    IN  (IF flushed THEN <<Data(s)>> ELSE <<>>)
          \o (IF buf[s].send_eof \/ flushed THEN <<Eof(s)>> ELSE <<>>)

\* The flush of close() may throw when it sends.
Losses(s) == {loses \in BOOLEAN : loses => sock = "up" /\ buf[s].pending > 0}

\* One of the packets is thrown on in a destructor, or outside every try
\* block: the process ends with only those before it sent.
Terminate(packets) ==
    /\ sock = "up"
    /\ \E n \in 0 .. (Len(packets) - 1) : Send(SubSeq(packets, 1, n))
    /\ phase' = "terminated"
    /\ UNCHANGED <<buf, bad, sock, accepted, lost, puts, begins>>

\* Mutant: the replacement is ready to send EOF.
ClosedEof(s) == [NewBuf(buf[s].id, FALSE) EXCEPT !.send_eof = TRUE]

\* What ostream::close puts in place of the closed buffer: its requestId()
\* is the header field, which the constructor converts once more.
Closed(s) == NewBuf(buf[s].id, FALSE)

Close(s, next) ==
    \/ /\ ~buf[s].attached
       /\ phase' = next
       /\ UNCHANGED <<buf, bad, sock, wire, accepted, lost, puts, begins>>
    \/ /\ buf[s].attached
       /\ \E loses \in Losses(s) :
            \/ Terminate(LastPackets(s, loses))
            \/ /\ phase' = next
               /\ Send(LastPackets(s, loses))
               /\ buf' = [buf EXCEPT ![s] = Closed(s)]
               /\ bad' = [bad EXCEPT ![s] = TRUE]
               /\ lost' = [lost EXCEPT ![s] = @ \/ loses]
               /\ UNCHANGED <<sock, accepted, puts, begins>>

-----------------------------------------------------------------------------
(* The connection thread.                                                  *)

\* Mutant: the new request does not raise send_eof.
BeginNoEof ==
    /\ phase = "ready" /\ begins < MaxBegin
    /\ phase' = "params"
    /\ buf' = [s \in Stream |-> [buf[s] EXCEPT !.attached = TRUE]]
    /\ bad' = [s \in Stream |-> FALSE]
    /\ wire' = <<>>
    /\ accepted' = [s \in Stream |-> 0]
    /\ lost' = [s \in Stream |-> FALSE]
    /\ begins' = begins + 1
    /\ UNCHANGED <<sock, puts>>

\* BEGIN_REQUEST: both streams are reset, both send_eof flags are raised.
BeginRequest ==
    /\ phase = "ready" /\ begins < MaxBegin
    /\ phase' = "params"
    /\ buf' = [s \in Stream |->
                 [buf[s] EXCEPT !.attached = TRUE, !.send_eof = TRUE]]
    /\ bad' = [s \in Stream |-> FALSE]
    /\ wire' = <<>>
    /\ accepted' = [s \in Stream |-> 0]
    /\ lost' = [s \in Stream |-> FALSE]
    /\ begins' = begins + 1
    /\ UNCHANGED <<sock, puts>>

EndParams ==
    /\ phase = "params"
    /\ phase' = "app"
    /\ UNCHANGED <<buf, bad, sock, wire, accepted, lost, puts, begins>>

\* A pair over the size limit: the message, cerr.close(), cout.close(),
\* END_REQUEST, READY.  The message may be lost as any other.
CancelRequest ==
    /\ phase = "params"
    /\ \E loses \in {x \in BOOLEAN : x => sock = "up"} :
         LET message == [Data("err") EXCEPT !.len = 1]
             packets == (IF loses THEN <<>> ELSE <<message>>)
                          \o <<Eof("err"), Eof("out"), End>>
         IN  \/ Terminate(packets)
             \/ /\ phase' = "ready"
                /\ Send(packets)
                /\ buf' = [s \in Stream |-> Closed(s)]
                /\ bad' = [s \in Stream |-> TRUE]
                /\ accepted' = [accepted EXCEPT !["err"] = @ + 1]
                /\ lost' = [lost EXCEPT !["err"] = loses]
                /\ UNCHANGED <<sock, puts, begins>>

\* ~Request: cerr is destroyed before cout.
Destroy ==
    /\ phase \in {"ready", "params", "ended"}
    /\ LET packets == LastPackets("err", FALSE) \o LastPackets("out", FALSE)
       IN  \/ Terminate(packets)
           \/ /\ phase' = "gone"
              /\ Send(packets)
              /\ UNCHANGED <<buf, bad, sock, accepted, lost, puts, begins>>

-----------------------------------------------------------------------------
(* A worker: the application, then the end of thread_func's loop body.     *)

AppPut(s) ==
    /\ phase = "app" /\ puts < MaxPut
    /\ Put(s)
    /\ puts' = puts + 1
    /\ UNCHANGED <<phase, sock, begins>>

AppFlush(s) ==
    /\ phase = "app"
    /\ buf[s].attached
    /\ Sync(s)
    /\ UNCHANGED <<phase, sock, accepted, puts, begins>>

AppClose(s) == phase = "app" /\ Close(s, "app")

\* respond() returns, or throws; a throw is reported when cerr is good.
AppReturns ==
    /\ phase = "app"
    /\ \/ phase' = "close_out"
       \/ Good("err") /\ phase' = "report"
    /\ UNCHANGED <<buf, bad, sock, wire, accepted, lost, puts, begins>>

\* The message and its std::endl.
Report ==
    /\ phase = "report"
    /\ Put("err")
    /\ phase' = "flush_report"
    /\ UNCHANGED <<sock, puts, begins>>

FlushReport ==
    /\ phase = "flush_report"
    /\ Sync("err")
    /\ phase' = "close_out"
    /\ UNCHANGED <<sock, accepted, puts, begins>>

CloseOut == phase = "close_out" /\ Close("out", "close_err")
CloseErr == phase = "close_err" /\ Close("err", "end")

SendEndRequest ==
    /\ phase = "end"
    /\ \/ Terminate(<<End>>)
       \/ /\ phase' = "ended"
          /\ Send(<<End>>)
          /\ UNCHANGED <<buf, bad, sock, accepted, lost, puts, begins>>

\* The peer is gone: from now on send fails with EPIPE or ECONNRESET.
SocketResets ==
    /\ phase \notin {"gone", "terminated"}
    /\ sock = "up"
    /\ sock' = "reset"
    /\ UNCHANGED <<phase, buf, bad, wire, accepted, lost, puts, begins>>

Next ==
    \/ BeginRequest \/ EndParams \/ CancelRequest \/ Destroy
    \/ \E s \in Stream : AppPut(s) \/ AppFlush(s) \/ AppClose(s)
    \/ AppReturns \/ Report \/ FlushReport
    \/ CloseOut \/ CloseErr \/ SendEndRequest
    \/ SocketResets

Spec == Init /\ [][Next]_vars

-----------------------------------------------------------------------------
(* Properties.                                                             *)

OfStream(k, s) == wire[k].kind \in {"data", "eof"} /\ wire[k].stream = s

\* An empty packet ends its stream: only EOF is empty, and no packet of the
\* stream follows it, whoever closes the stream and destroys the buffers
\* ("weird EOF packets that came from nowhere", iostream.hpp:45-51).
EofEndsStream ==
    \A j \in DOMAIN wire :
      /\ wire[j].kind = "data" => wire[j].len > 0
      /\ wire[j].kind = "eof" =>
           \A k \in DOMAIN wire : k > j => ~OfStream(k, wire[j].stream)

\* END_REQUEST is the last packet of its request, sent after both streams
\* were ended, on the normal path and on the cancelling one
\* (request-workers.cpp:93-97, request.cpp:80-86).
EndIsLast ==
    \A k \in DOMAIN wire : wire[k].kind = "end" =>
      /\ k = Len(wire)
      /\ \A s \in Stream :
           \E j \in DOMAIN wire : wire[j].kind = "eof" /\ wire[j].stream = s

\* Only a send that throws loses characters: what a stream took is on the
\* wire or in its buffer, or it was the last buffer, at most Cap characters,
\* and an application still writing has seen badbit (iostream.cpp:39-60,
\* 75-83).  No overflow, flush or close loses any otherwise.
Chars(p, s) == IF p.kind = "data" /\ p.stream = s THEN p.len ELSE 0
Counter(s) == [p \in Packet |-> [n \in Nat |-> n + Chars(p, s)]]
SentLen(w, s) == FoldList(w, 0, Counter(s))
NothingLost ==
    sock = "up" /\ phase \notin {"gone", "terminated"} =>
      \A s \in Stream :
        LET kept == SentLen(wire, s) + buf[s].pending
        IN  /\ kept <= accepted[s] /\ accepted[s] <= kept + Cap
            /\ IF lost[s]
               THEN buf[s].pending = 0 /\ (buf[s].attached => bad[s])
               ELSE kept = accepted[s]

\* Nothing follows what was lost: until the next request the stream takes
\* no character and sends none, though the socket works again, so what the
\* peer reads of it is the beginning of what it took (iostream.cpp:39-60).
NothingAfterLoss ==
    [][\A s \in Stream : lost[s] /\ lost'[s] =>
         /\ accepted'[s] = accepted[s]
         /\ SentLen(wire', s) = SentLen(wire, s)]_vars

\* A response carries the id of the request it answers, also when the
\* streams of the object were closed and made "fresh" (iostream.hpp:45-51).
EchoId == \A k \in DOMAIN wire : wire[k].id = Id
=============================================================================
