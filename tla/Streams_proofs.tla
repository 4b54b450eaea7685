--------------------------- MODULE Streams_proofs ---------------------------
(***************************************************************************)
(* The order of the packets of a request and what becomes of the           *)
(* characters its streams took, for any buffer size and any number of uses *)
(* of its object: first the types, then what sending a packet does to the  *)
(* list and to the count of characters, then the invariant of              *)
(* StreamsInv.tla, and what follows a loss.                                *)
(***************************************************************************)
EXTENDS StreamsInv, Iteration_proofs

Buffer == [attached : BOOLEAN, pending : 0..Cap, send_eof : BOOLEAN,
           id : Nat \X Nat]

-----------------------------------------------------------------------------
(* Types.                                                                  *)

\* Both byte orders of an id are ids.
LEMMA HtonsType == ASSUME NEW id \in Nat \X Nat PROVE Htons(id) \in Nat \X Nat
  BY DEF Htons

\* A new buffer.
LEMMA NewBufType ==
  ASSUME NEW id \in Nat \X Nat, NEW attached \in BOOLEAN
  PROVE  NewBuf(id, attached) \in Buffer
  BY HtonsType, StreamsAssumption DEF NewBuf, Buffer

\* What a stream can send.
LEMMA PacketTypes ==
  ASSUME TypeOK, NEW s \in Stream
  PROVE  /\ buf[s] \in Buffer
         /\ Data(s) \in Packet /\ Eof(s) \in Packet /\ End \in Packet
         /\ [Data(s) EXCEPT !.len = 1] \in Packet
         /\ Closed(s) \in Buffer
  <1>1. buf[s] \in Buffer
    BY DEF TypeOK, Buffer
  <1>2. /\ buf[s].id \in Nat \X Nat /\ buf[s].pending \in 0..Cap
        /\ 0 \in 0..Cap /\ 1 \in 0..Cap
    BY <1>1, StreamsAssumption DEF Buffer
  <1>3. Data(s) \in Packet /\ Eof(s) \in Packet
    BY <1>2 DEF Data, Eof, Packet
  <1>4. [Data(s) EXCEPT !.len = 1] \in Packet
    BY <1>2 DEF Data, Packet
  <1>5. End \in Packet
    BY HtonsType, StreamsAssumption DEF End, Packet
  <1>6. Closed(s) \in Buffer
    BY <1>2, NewBufType DEF Closed
  <1> QED BY <1>1, <1>3, <1>4, <1>5, <1>6

\* Lists of at most one packet, and of two.
LEMMA Lists ==
  ASSUME NEW p \in Packet
  PROVE  <<>> \in Seq(Packet) /\ <<p>> \in Seq(Packet)
  OBVIOUS

\* The values that Init and BEGIN_REQUEST give.
LEMMA Fresh ==
  /\ <<>> \in Seq(Packet)
  /\ [s \in Stream |-> FALSE] \in [Stream -> BOOLEAN]
  /\ [s \in Stream |-> 0] \in [Stream -> Nat]
  OBVIOUS

\* What the end of a request sends.
LEMMA LastPacketsType ==
  ASSUME TypeOK, NEW s \in Stream, NEW loses
  PROVE  LastPackets(s, loses) \in Seq(Packet)
  <1> DEFINE flushed == buf[s].pending > 0 /\ ~loses
             data == IF flushed THEN <<Data(s)>> ELSE <<>>
             eof == IF buf[s].send_eof \/ flushed THEN <<Eof(s)>> ELSE <<>>
  <1>1. /\ <<>> \in Seq(Packet) /\ <<Data(s)>> \in Seq(Packet)
        /\ <<Eof(s)>> \in Seq(Packet)
    BY PacketTypes, Lists
  <1>2. data \in Seq(Packet) /\ eof \in Seq(Packet)
    BY <1>1
  <1>3. LastPackets(s, loses) = data \o eof
    BY DEF LastPackets
  <1> HIDE DEF data, eof
  <1> QED BY <1>2, <1>3

\* Sending keeps the type of the wire.
LEMMA SendType ==
  ASSUME TypeOK, NEW packets \in Seq(Packet), Send(packets)
  PROVE  wire' \in Seq(Packet)
  BY DEF Send, TypeOK

\* So does ending the process on the way.
LEMMA TerminateType ==
  ASSUME TypeOK, NEW packets \in Seq(Packet), Terminate(packets)
  PROVE  TypeOK'
  <1>1. PICK n \in 0 .. (Len(packets) - 1) : Send(SubSeq(packets, 1, n))
    BY DEF Terminate
  <1>2. SubSeq(packets, 1, n) \in Seq(Packet)
    OBVIOUS
  <1>3. wire' \in Seq(Packet)
    BY <1>1, <1>2, SendType
  <1> QED BY <1>3 DEF Terminate, TypeOK, Phases

\* What sync and overflow may change of a buffer.
LEMMA BufferUpdate ==
  ASSUME NEW b \in Buffer, NEW n \in 0..Cap, NEW e \in BOOLEAN
  PROVE  [b EXCEPT !.pending = n, !.send_eof = e] \in Buffer
  BY DEF Buffer

\* What a throw leaves.
LEMMA LoseType ==
  ASSUME TypeOK, NEW s \in Stream, Lose(s)
  PROVE  /\ buf' \in [Stream -> Buffer] /\ bad' \in [Stream -> BOOLEAN]
         /\ wire' \in Seq(Packet) /\ lost' \in [Stream -> BOOLEAN]
  <1>1. /\ buf \in [Stream -> Buffer] /\ bad \in [Stream -> BOOLEAN]
        /\ lost \in [Stream -> BOOLEAN] /\ wire \in Seq(Packet)
        /\ buf[s] \in Buffer
    BY DEF TypeOK, Buffer
  <1>2. [buf[s] EXCEPT !.pending = 0] \in Buffer
    <2>1. 0 \in 0..Cap
      BY StreamsAssumption
    <2> QED BY <1>1, <2>1 DEF Buffer
  <1>3. /\ buf' = [buf EXCEPT ![s] = [buf[s] EXCEPT !.pending = 0]]
        /\ bad' = [bad EXCEPT ![s] = TRUE]
        /\ lost' = [lost EXCEPT ![s] = TRUE] /\ wire' = wire
    BY <1>1 DEF Lose
  <1> QED BY <1>1, <1>2, <1>3

\* What a flush leaves.
LEMMA SyncType ==
  ASSUME TypeOK, NEW s \in Stream, Sync(s)
  PROVE  /\ buf' \in [Stream -> Buffer] /\ bad' \in [Stream -> BOOLEAN]
         /\ wire' \in Seq(Packet) /\ lost' \in [Stream -> BOOLEAN]
  <1> DEFINE e == buf[s].send_eof \/ buf[s].pending > 0
  <1>1. /\ buf \in [Stream -> Buffer] /\ bad \in [Stream -> BOOLEAN]
        /\ lost \in [Stream -> BOOLEAN]
        /\ wire \in Seq(Packet) /\ buf[s] \in Buffer
    BY DEF TypeOK, Buffer
  <1>2. 0 \in 0..Cap /\ e \in BOOLEAN /\ buf[s].send_eof \in BOOLEAN
    BY <1>1, StreamsAssumption DEF Buffer
  <1>3. ASSUME Send(IF buf[s].pending = 0 THEN <<>> ELSE <<Data(s)>>),
               buf' = [buf EXCEPT ![s].pending = 0, ![s].send_eof = e]
        PROVE  wire' \in Seq(Packet) /\ buf' \in [Stream -> Buffer]
    <2>1. wire' \in Seq(Packet)
      <3>1. (IF buf[s].pending = 0 THEN <<>> ELSE <<Data(s)>>) \in Seq(Packet)
        BY PacketTypes, Lists
      <3> QED BY <1>3, <3>1, SendType
    <2>2. buf' \in [Stream -> Buffer]
      <3>1. buf' = [buf EXCEPT ![s] =
                      [buf[s] EXCEPT !.pending = 0, !.send_eof = e]]
        BY <1>1, <1>3
      <3>2. [buf[s] EXCEPT !.pending = 0, !.send_eof = e] \in Buffer
        BY <1>1, <1>2, BufferUpdate
      <3> HIDE DEF e
      <3> QED BY <1>1, <3>1, <3>2
    <2> QED BY <2>1, <2>2
  <1>4. CASE Lose(s)
    BY <1>4, LoseType
  <1>5. CASE ~Lose(s)
    <2>1. /\ Send(IF buf[s].pending = 0 THEN <<>> ELSE <<Data(s)>>)
          /\ buf' = [buf EXCEPT ![s].pending = 0,
                       ![s].send_eof = @ \/ buf[s].pending > 0]
          /\ UNCHANGED <<bad, lost>>
      BY <1>5 DEF Sync
    <2>2. buf' = [buf EXCEPT ![s].pending = 0, ![s].send_eof = e]
      BY <1>1, <2>1 DEF Buffer
    <2> HIDE DEF e
    <2> QED BY <1>1, <1>3, <2>1, <2>2
  <1> QED BY <1>4, <1>5

\* What a write leaves.
LEMMA PutType ==
  ASSUME TypeOK, NEW s \in Stream, Put(s)
  PROVE  /\ buf' \in [Stream -> Buffer] /\ bad' \in [Stream -> BOOLEAN]
         /\ wire' \in Seq(Packet) /\ accepted' \in [Stream -> Nat]
         /\ lost' \in [Stream -> BOOLEAN]
  <1>1. /\ buf \in [Stream -> Buffer] /\ bad \in [Stream -> BOOLEAN]
        /\ wire \in Seq(Packet) /\ buf[s] \in Buffer
        /\ accepted \in [Stream -> Nat] /\ lost \in [Stream -> BOOLEAN]
    BY DEF TypeOK, Buffer
  <1>2. CASE Lose(s) /\ UNCHANGED accepted
    BY <1>1, <1>2, LoseType
  <1>3. CASE ~(Lose(s) /\ UNCHANGED accepted)
    <2>0. /\ buf' = IF buf[s].pending = Cap
                    THEN [buf EXCEPT ![s].pending = 1, ![s].send_eof = TRUE]
                    ELSE [buf EXCEPT ![s].pending = @ + 1]
          /\ Send(IF buf[s].pending = Cap THEN <<Data(s)>> ELSE <<>>)
          /\ accepted' = [accepted EXCEPT ![s] = @ + 1]
          /\ UNCHANGED <<bad, lost>>
      BY <1>3 DEF Put
    <2>1. wire' \in Seq(Packet)
      <3>1. (IF buf[s].pending = Cap THEN <<Data(s)>> ELSE <<>>)
              \in Seq(Packet)
        BY PacketTypes, Lists
      <3> QED BY <2>0, <3>1, SendType
    <2>2. buf' \in [Stream -> Buffer]
      <3>1. CASE buf[s].pending = Cap
        <4>1. 1 \in 0..Cap /\ TRUE \in BOOLEAN
          BY StreamsAssumption
        <4>2. [buf[s] EXCEPT !.pending = 1, !.send_eof = TRUE] \in Buffer
          BY <1>1, <4>1, BufferUpdate
        <4>3. buf' = [buf EXCEPT ![s] =
                        [buf[s] EXCEPT !.pending = 1, !.send_eof = TRUE]]
          BY <1>1, <2>0, <3>1
        <4> QED BY <1>1, <4>2, <4>3
      <3>2. CASE buf[s].pending # Cap
        <4>1. buf[s].pending \in 0..Cap
          BY <1>1 DEF Buffer
        <4>2. buf[s].pending + 1 \in 0..Cap
          BY <3>2, <4>1, StreamsAssumption
        <4>3. [buf[s] EXCEPT !.pending = @ + 1] \in Buffer
          BY <1>1, <4>2 DEF Buffer
        <4>4. buf' = [buf EXCEPT ![s] = [buf[s] EXCEPT !.pending = @ + 1]]
          BY <1>1, <2>0, <3>2
        <4> QED BY <1>1, <4>3, <4>4
      <3> QED BY <3>1, <3>2
    <2>3. accepted' \in [Stream -> Nat]
      BY <1>1, <2>0
    <2> QED BY <1>1, <2>0, <2>1, <2>2, <2>3
  <1> QED BY <1>2, <1>3

\* What a close leaves.
LEMMA CloseType ==
  ASSUME TypeOK, NEW s \in Stream, NEW next \in Phases, Close(s, next)
  PROVE  TypeOK'
  <1>1. CASE ~buf[s].attached
    BY <1>1 DEF Close, TypeOK, Phases
  <1>2. CASE buf[s].attached
    <2>1. PICK loses \in Losses(s) :
            \/ Terminate(LastPackets(s, loses))
            \/ /\ phase' = next
               /\ Send(LastPackets(s, loses))
               /\ buf' = [buf EXCEPT ![s] = Closed(s)]
               /\ bad' = [bad EXCEPT ![s] = TRUE]
               /\ lost' = [lost EXCEPT ![s] = @ \/ loses]
               /\ UNCHANGED <<sock, accepted, puts, begins>>
      BY <1>2 DEF Close
    <2> DEFINE packets == LastPackets(s, loses)
    <2>2. packets \in Seq(Packet)
      BY LastPacketsType
    <2> HIDE DEF packets
    <2>3. CASE Terminate(packets)
      BY <2>2, <2>3, TerminateType
    <2>4. CASE ~Terminate(packets)
      <3>1. /\ phase' = next /\ Send(packets)
            /\ buf' = [buf EXCEPT ![s] = Closed(s)]
            /\ bad' = [bad EXCEPT ![s] = TRUE]
            /\ lost' = [lost EXCEPT ![s] = @ \/ loses]
            /\ UNCHANGED <<sock, accepted, puts, begins>>
        BY <2>1, <2>4 DEF packets
      <3>2. wire' \in Seq(Packet)
        BY <2>2, <3>1, SendType
      <3>3. Closed(s) \in Buffer
        BY PacketTypes
      <3> QED BY <3>1, <3>2, <3>3 DEF TypeOK, Buffer
    <2> QED BY <2>3, <2>4
  <1> QED BY <1>1, <1>2

\* What a cancelled request sends, and its steps with it named.
Message == [Data("err") EXCEPT !.len = 1]
Ends == <<Eof("err"), Eof("out"), End>>
Cancelling(loses) == IF loses THEN Ends ELSE <<Message>> \o Ends
LEMMA CancelIs ==
  ASSUME TypeOK, CancelRequest
  PROVE  \E loses \in BOOLEAN :
           /\ loses => sock = "up"
           /\ \/ Terminate(Cancelling(loses))
              \/ /\ phase' = "ready"
                 /\ Send(Cancelling(loses))
                 /\ buf' = [s \in Stream |-> Closed(s)]
                 /\ bad' = [s \in Stream |-> TRUE]
                 /\ accepted' = [accepted EXCEPT !["err"] = @ + 1]
                 /\ lost' = [lost EXCEPT !["err"] = loses]
                 /\ UNCHANGED <<sock, puts, begins>>
  <1>1. PICK loses \in BOOLEAN :
          /\ loses => sock = "up"
          /\ LET packets == (IF loses THEN <<>> ELSE <<Message>>) \o Ends
             IN  \/ Terminate(packets)
                 \/ /\ phase' = "ready"
                    /\ Send(packets)
                    /\ buf' = [s \in Stream |-> Closed(s)]
                    /\ bad' = [s \in Stream |-> TRUE]
                    /\ accepted' = [accepted EXCEPT !["err"] = @ + 1]
                    /\ lost' = [lost EXCEPT !["err"] = loses]
                    /\ UNCHANGED <<sock, puts, begins>>
    BY DEF CancelRequest, Message, Ends
  <1>2. Ends \in Seq(Packet)
    BY PacketTypes DEF Ends, Stream
  <1>3. (IF loses THEN <<>> ELSE <<Message>>) \o Ends = Cancelling(loses)
    <2>1. <<>> \o Ends = Ends
      BY <1>2
    <2> QED BY <2>1 DEF Cancelling
  <1> QED BY <1>1, <1>3

\* They are packets.
LEMMA CancellingType ==
  ASSUME TypeOK, NEW loses PROVE Cancelling(loses) \in Seq(Packet)
  <1>1. /\ Message \in Packet /\ Eof("err") \in Packet
        /\ Eof("out") \in Packet /\ End \in Packet
    BY PacketTypes DEF Stream, Message
  <1>2. Ends \in Seq(Packet) /\ <<Message>> \in Seq(Packet)
    BY <1>1 DEF Ends
  <1> QED BY <1>2 DEF Cancelling

\* The steps of the connection thread on a request.
LEMMA ConnType ==
  ASSUME TypeOK, BeginRequest \/ EndParams \/ CancelRequest \/ Destroy
  PROVE  TypeOK'
  <1>0. /\ buf \in [Stream -> Buffer] /\ accepted \in [Stream -> Nat]
        /\ begins \in 0..MaxBegin /\ "err" \in Stream /\ "out" \in Stream
    BY DEF TypeOK, Buffer, Stream
  <1>1. CASE BeginRequest
    <2>1. \A s \in Stream :
            [buf[s] EXCEPT !.attached = TRUE, !.send_eof = TRUE] \in Buffer
      BY <1>0 DEF Buffer
    <2>2. buf' \in [Stream -> Buffer]
      <3>1. buf' = [s \in Stream |->
                      [buf[s] EXCEPT !.attached = TRUE, !.send_eof = TRUE]]
        BY <1>1 DEF BeginRequest
      <3> QED BY <2>1, <3>1
    <2>3. begins' \in 0..MaxBegin
      <3>1. begins < MaxBegin /\ begins' = begins + 1
        BY <1>1 DEF BeginRequest
      <3> QED BY ONLY <1>0, <3>1, StreamsAssumption
    <2>4. /\ bad' \in [Stream -> BOOLEAN] /\ accepted' \in [Stream -> Nat]
          /\ lost' \in [Stream -> BOOLEAN]
          /\ wire' \in Seq(Packet) /\ phase' \in Phases
      <3>1. /\ phase' = "params" /\ wire' = <<>>
            /\ bad' = [s \in Stream |-> FALSE]
            /\ accepted' = [s \in Stream |-> 0]
            /\ lost' = [s \in Stream |-> FALSE]
        BY <1>1 DEF BeginRequest
      <3> QED BY <3>1, Fresh DEF Phases
    <2>5. sock' \in {"up", "reset"} /\ puts' \in 0..MaxPut
      BY <1>1 DEF BeginRequest, TypeOK
    <2> QED BY <2>2, <2>3, <2>4, <2>5 DEF TypeOK, Buffer
  <1>2. CASE EndParams
    BY <1>2 DEF EndParams, TypeOK, Phases
  <1>3. CASE CancelRequest
    <2>1. PICK loses \in BOOLEAN :
            \/ Terminate(Cancelling(loses))
            \/ /\ phase' = "ready"
               /\ Send(Cancelling(loses))
               /\ buf' = [s \in Stream |-> Closed(s)]
               /\ bad' = [s \in Stream |-> TRUE]
               /\ accepted' = [accepted EXCEPT !["err"] = @ + 1]
               /\ lost' = [lost EXCEPT !["err"] = loses]
               /\ UNCHANGED <<sock, puts, begins>>
      BY <1>3, CancelIs
    <2>2. Cancelling(loses) \in Seq(Packet)
      BY CancellingType
    <2>3. CASE Terminate(Cancelling(loses))
      BY <2>2, <2>3, TerminateType
    <2>4. CASE ~Terminate(Cancelling(loses))
      <3>1. wire' \in Seq(Packet)
        BY <2>1, <2>2, <2>4, SendType
      <3>2. buf' \in [Stream -> Buffer]
        <4>1. \A s \in Stream : Closed(s) \in Buffer
          BY PacketTypes
        <4> QED BY <2>1, <2>4, <4>1
      <3>3. /\ phase' \in Phases /\ bad' \in [Stream -> BOOLEAN]
            /\ accepted' \in [Stream -> Nat] /\ lost' \in [Stream -> BOOLEAN]
        <4>1. lost \in [Stream -> BOOLEAN]
          BY DEF TypeOK
        <4>2. /\ phase' = "ready" /\ bad' = [s \in Stream |-> TRUE]
              /\ accepted' = [accepted EXCEPT !["err"] = @ + 1]
              /\ lost' = [lost EXCEPT !["err"] = loses]
          BY <2>1, <2>4
        <4>3. phase' \in Phases /\ bad' \in [Stream -> BOOLEAN]
          BY <4>2 DEF Phases
        <4>4. accepted' \in [Stream -> Nat]
          BY ONLY <1>0, <4>2
        <4>5. lost' \in [Stream -> BOOLEAN]
          BY ONLY <4>1, <4>2, loses \in BOOLEAN
        <4> QED BY <4>3, <4>4, <4>5
      <3> QED BY <2>1, <2>4, <3>1, <3>2, <3>3 DEF TypeOK, Buffer
    <2> QED BY <2>3, <2>4
  <1>4. CASE Destroy
    <2> DEFINE err == LastPackets("err", FALSE)
               out == LastPackets("out", FALSE)
               packets == err \o out
    <2>1. packets \in Seq(Packet)
      <3>1. err \in Seq(Packet) /\ out \in Seq(Packet)
        BY <1>0, LastPacketsType
      <3> HIDE DEF err, out
      <3> QED BY <3>1
    <2>2. \/ Terminate(packets)
          \/ /\ phase' = "gone" /\ Send(packets)
             /\ UNCHANGED <<buf, bad, sock, accepted, lost, puts, begins>>
      BY <1>4 DEF Destroy
    <2> HIDE DEF packets
    <2>3. CASE Terminate(packets)
      BY <2>1, <2>3, TerminateType
    <2>4. CASE ~Terminate(packets)
      <3>1. wire' \in Seq(Packet)
        BY <2>1, <2>2, <2>4, SendType
      <3> QED BY <2>2, <2>4, <3>1 DEF TypeOK, Phases
    <2> QED BY <2>3, <2>4
  <1> QED BY <1>1, <1>2, <1>3, <1>4

\* The steps of a worker, and of the socket.
LEMMA WorkerType ==
  ASSUME TypeOK,
         \/ \E s \in Stream : AppPut(s) \/ AppFlush(s) \/ AppClose(s)
         \/ AppReturns \/ Report \/ FlushReport
         \/ CloseOut \/ CloseErr \/ SendEndRequest \/ SocketResets
  PROVE  TypeOK'
  <1>0. "err" \in Stream /\ "out" \in Stream
    BY DEF Stream
  <1>1. ASSUME NEW s \in Stream, AppPut(s) PROVE TypeOK'
    <2>1. puts' \in 0..MaxPut
      BY <1>1, StreamsAssumption DEF AppPut, TypeOK
    <2> QED BY <1>1, <2>1, PutType DEF AppPut, TypeOK, Buffer
  <1>2. ASSUME NEW s \in Stream, AppFlush(s) PROVE TypeOK'
    BY <1>2, SyncType DEF AppFlush, TypeOK, Buffer
  <1>3. ASSUME NEW s \in Stream, AppClose(s) PROVE TypeOK'
    BY <1>3, CloseType DEF AppClose, Phases
  <1>4. CASE AppReturns
    BY <1>4 DEF AppReturns, TypeOK, Phases
  <1>5. CASE Report
    BY <1>0, <1>5, PutType DEF Report, TypeOK, Buffer, Phases
  <1>6. CASE FlushReport
    BY <1>0, <1>6, SyncType DEF FlushReport, TypeOK, Buffer, Phases
  <1>7. CASE CloseOut \/ CloseErr
    BY <1>0, <1>7, CloseType DEF CloseOut, CloseErr, Phases
  <1>8. CASE SendEndRequest
    <2> DEFINE packets == <<End>>
    <2>1. packets \in Seq(Packet)
      BY <1>0, PacketTypes, Lists
    <2>2. \/ Terminate(packets)
          \/ /\ phase' = "ended" /\ Send(packets)
             /\ UNCHANGED <<buf, bad, sock, accepted, lost, puts, begins>>
      BY <1>8 DEF SendEndRequest
    <2> HIDE DEF packets
    <2>3. CASE Terminate(packets)
      BY <2>1, <2>3, TerminateType
    <2>4. CASE ~Terminate(packets)
      <3>1. wire' \in Seq(Packet)
        BY <2>1, <2>2, <2>4, SendType
      <3> QED BY <2>2, <2>4, <3>1 DEF TypeOK, Phases
    <2> QED BY <2>3, <2>4
  <1>9. CASE SocketResets
    BY <1>9 DEF SocketResets, TypeOK
  <1> QED
    BY <1>1, <1>2, <1>3, <1>4, <1>5, <1>6, <1>7, <1>8, <1>9

\* The inductive step of the types.
LEMMA TypeStep == TypeOK /\ [Next]_vars => TypeOK'
  <1>1. TypeOK /\ UNCHANGED vars => TypeOK'
    BY DEF vars, TypeOK
  <1> QED BY <1>1, ConnType, WorkerType DEF Next

\* They hold at the start.
LEMMA TypeInit == Init => TypeOK
  <1> SUFFICES ASSUME Init PROVE TypeOK
    OBVIOUS
  <1>1. NewBuf(Id, TRUE) \in Buffer
    BY NewBufType, StreamsAssumption
  <1>2. buf \in [Stream -> Buffer] /\ wire \in Seq(Packet)
    <2>1. buf = [s \in Stream |-> NewBuf(Id, TRUE)] /\ wire = <<>>
      BY DEF Init
    <2> HIDE DEF Init
    <2> QED BY ONLY <1>1, <2>1, Fresh
  <1>3. accepted \in [Stream -> Nat] /\ bad \in [Stream -> BOOLEAN]
        /\ lost \in [Stream -> BOOLEAN]
        /\ puts \in 0..MaxPut /\ begins \in 0..MaxBegin
    BY StreamsAssumption DEF Init
  <1> QED BY <1>2, <1>3 DEF Init, TypeOK, Buffer, Phases

\* No buffer is overrun, whatever its size and the puts, flushes and closes
\* of the application (iostream.cpp:39-60).
THEOREM TypeCorrect == Spec => []TypeOK
  BY TypeInit, TypeStep, PTL DEF Spec

-----------------------------------------------------------------------------
(* What sending a packet does to a list of packets.                        *)

\* The list grows at its end.
LEMMA Appended ==
  ASSUME NEW w \in Seq(Packet), NEW p \in Packet
  PROVE  /\ w \o <<p>> \in Seq(Packet)
         /\ Len(w) \in Nat /\ Len(w \o <<p>>) = Len(w) + 1
         /\ DOMAIN w = 1..Len(w) /\ DOMAIN (w \o <<p>>) = 1..(Len(w) + 1)
         /\ \A j \in 1..Len(w) : (w \o <<p>>)[j] = w[j]
         /\ (w \o <<p>>)[Len(w) + 1] = p
  OBVIOUS

\* A packet ends what it says, and nothing else.
LEMMA AppendEnds ==
  ASSUME NEW w \in Seq(Packet), NEW p \in Packet
  PROVE  /\ \A s \in Stream : StreamEnded(w \o <<p>>, s) <=>
              StreamEnded(w, s) \/ (p.kind = "eof" /\ p.stream = s)
         /\ HasEnd(w \o <<p>>) <=> HasEnd(w) \/ p.kind = "end"
  <1> DEFINE v == w \o <<p>>
  <1>1. /\ Len(w) \in Nat /\ DOMAIN w = 1..Len(w)
        /\ DOMAIN v = 1..(Len(w) + 1)
        /\ \A j \in 1..Len(w) : v[j] = w[j]
        /\ v[Len(w) + 1] = p
    BY Appended
  <1> HIDE DEF v
  <1>2. \A j : j \in DOMAIN v <=> j \in DOMAIN w \/ j = Len(w) + 1
    BY <1>1
  <1>3. ASSUME NEW s \in Stream
        PROVE  StreamEnded(v, s) <=>
                 StreamEnded(w, s) \/ (p.kind = "eof" /\ p.stream = s)
    BY ONLY <1>1, <1>2 DEF StreamEnded
  <1>4. HasEnd(v) <=> HasEnd(w) \/ p.kind = "end"
    BY ONLY <1>1, <1>2 DEF HasEnd
  <1> QED BY <1>3, <1>4 DEF v

\* A packet of a stream that is not ended keeps the order of the streams.
LEMMA AppendOrderly ==
  ASSUME NEW w \in Seq(Packet), NEW p \in Packet, Orderly(w),
         p.kind = "data" => p.len > 0,
         p.kind \in {"data", "eof"} => ~StreamEnded(w, p.stream)
  PROVE  Orderly(w \o <<p>>)
  <1> DEFINE v == w \o <<p>>
  <1>1. /\ Len(w) \in Nat /\ DOMAIN w = 1..Len(w)
        /\ DOMAIN v = 1..(Len(w) + 1)
        /\ \A j \in 1..Len(w) : v[j] = w[j]
        /\ v[Len(w) + 1] = p
    BY Appended
  <1> HIDE DEF v
  <1>2. ASSUME NEW j \in DOMAIN v, v[j].kind = "data" PROVE v[j].len > 0
    <2>1. CASE j \in DOMAIN w
      BY <1>1, <1>2, <2>1 DEF Orderly
    <2>2. CASE j = Len(w) + 1
      BY <1>1, <1>2, <2>2
    <2> QED BY <1>1, <2>1, <2>2
  <1>3. ASSUME NEW j \in DOMAIN v, v[j].kind = "eof", NEW k \in DOMAIN v,
               k > j, v[k].kind \in {"data", "eof"}
        PROVE  v[k].stream # v[j].stream
    <2>1. j \in DOMAIN w /\ v[j] = w[j]
      BY <1>1, <1>3
    <2>2. CASE k \in DOMAIN w
      <3>1. v[k] = w[k]
        BY <1>1, <2>2
      <3> QED BY <1>3, <2>1, <2>2, <3>1 DEF Orderly
    <2>3. CASE k = Len(w) + 1
      BY <1>1, <1>3, <2>1, <2>3 DEF StreamEnded
    <2> QED BY <1>1, <2>2, <2>3
  <1>4. Orderly(v)
    BY <1>2, <1>3 DEF Orderly
  <1> QED BY <1>4 DEF v

\* A packet may follow any list that END_REQUEST has not closed, and
\* END_REQUEST one in which the streams are ended.
LEMMA AppendEndsLast ==
  ASSUME NEW w \in Seq(Packet), NEW p \in Packet, ~HasEnd(w),
         p.kind = "end" => \A s \in Stream : StreamEnded(w, s)
  PROVE  EndsLast(w \o <<p>>)
  <1> DEFINE v == w \o <<p>>
  <1>1. /\ Len(w) \in Nat /\ Len(v) = Len(w) + 1 /\ DOMAIN w = 1..Len(w)
        /\ DOMAIN v = 1..(Len(w) + 1)
        /\ \A j \in 1..Len(w) : v[j] = w[j]
        /\ v[Len(w) + 1] = p
    BY Appended
  <1>2. \A s \in Stream : StreamEnded(w, s) => StreamEnded(v, s)
    BY AppendEnds
  <1> HIDE DEF v
  <1>3. ASSUME NEW k \in DOMAIN v, v[k].kind = "end" PROVE k = Len(w) + 1
    BY <1>1, <1>3 DEF HasEnd
  <1>4. EndsLast(v)
    BY <1>1, <1>2, <1>3 DEF EndsLast
  <1> QED BY <1>4 DEF v

\* The fields of a buffer.
LEMMA Fields ==
  ASSUME TypeOK, NEW s \in Stream
  PROVE  /\ buf[s].pending \in Nat /\ buf[s].attached \in BOOLEAN
         /\ buf[s].send_eof \in BOOLEAN /\ buf[s].id \in Nat \X Nat
  <1>1. buf[s] \in Buffer
    BY DEF TypeOK, Buffer
  <1> QED BY <1>1, StreamsAssumption DEF Buffer

\* What a stream sends that is not ended.
LEMMA DataSent ==
  ASSUME TypeOK, NEW s \in Stream, NEW w \in Seq(Packet), WellFormed(w),
         ~HasEnd(w), ~StreamEnded(w, s), buf[s].pending > 0
  PROVE  LET v == w \o <<Data(s)>>
         IN  /\ v \in Seq(Packet) /\ WellFormed(v) /\ ~HasEnd(v)
             /\ \A t \in Stream : StreamEnded(v, t) <=> StreamEnded(w, t)
  <1> DEFINE v == w \o <<Data(s)>>
  <1>1. /\ Data(s) \in Packet
        /\ Data(s).kind = "data" /\ Data(s).stream = s
        /\ Data(s).len > 0
    BY PacketTypes DEF Data
  <1>2. v \in Seq(Packet) /\ Orderly(v) /\ EndsLast(v)
    BY <1>1, Appended, AppendOrderly, AppendEndsLast DEF WellFormed
  <1>3. ~HasEnd(v) /\ \A t \in Stream : StreamEnded(v, t) <=> StreamEnded(w, t)
    BY <1>1, AppendEnds
  <1> QED BY <1>2, <1>3 DEF WellFormed

\* The end of a stream keeps the order.
LEMMA EofSent ==
  ASSUME TypeOK, NEW s \in Stream, NEW w \in Seq(Packet), WellFormed(w),
         ~HasEnd(w), ~StreamEnded(w, s)
  PROVE  LET v == w \o <<Eof(s)>>
         IN  /\ v \in Seq(Packet) /\ WellFormed(v) /\ ~HasEnd(v)
             /\ \A t \in Stream :
                  StreamEnded(v, t) <=> StreamEnded(w, t) \/ t = s
  <1> DEFINE v == w \o <<Eof(s)>>
  <1>1. Eof(s) \in Packet /\ Eof(s).kind = "eof" /\ Eof(s).stream = s
    BY PacketTypes DEF Eof
  <1>2. v \in Seq(Packet) /\ Orderly(v) /\ EndsLast(v)
    BY <1>1, Appended, AppendOrderly, AppendEndsLast DEF WellFormed
  <1>3. /\ ~HasEnd(v)
        /\ \A t \in Stream : StreamEnded(v, t) <=> StreamEnded(w, t) \/ t = s
    BY <1>1, AppendEnds
  <1> QED BY <1>2, <1>3 DEF WellFormed

\* So does END_REQUEST, after the ends of all.
LEMMA EndSent ==
  ASSUME TypeOK, NEW w \in Seq(Packet), WellFormed(w), ~HasEnd(w),
         \A s \in Stream : StreamEnded(w, s)
  PROVE  LET v == w \o <<End>>
         IN  /\ v \in Seq(Packet) /\ WellFormed(v)
             /\ \A s \in Stream : StreamEnded(v, s)
  <1>1. End \in Packet /\ End.kind = "end"
    BY PacketTypes DEF End, Stream
  <1> QED BY <1>1, Appended, AppendOrderly, AppendEndsLast, AppendEnds
          DEF WellFormed

\* What a stream that ends sends, in its three cases.
LEMMA LastIs ==
  ASSUME TypeOK, NEW s \in Stream, NEW w \in Seq(Packet), NEW loses
  PROVE  LET flushed == buf[s].pending > 0 /\ ~loses
         IN  w \o LastPackets(s, loses)
               = IF flushed THEN (w \o <<Data(s)>>) \o <<Eof(s)>>
                 ELSE IF buf[s].send_eof THEN w \o <<Eof(s)>> ELSE w
  <1> DEFINE d == Data(s)
             e == Eof(s)
             flushed == buf[s].pending > 0 /\ ~loses
  <1>1. d \in Packet /\ e \in Packet
    BY PacketTypes
  <1>2. LastPackets(s, loses) = (IF flushed THEN <<d>> ELSE <<>>)
          \o (IF buf[s].send_eof \/ flushed THEN <<e>> ELSE <<>>)
    BY DEF LastPackets
  <1>3. w \o LastPackets(s, loses)
          = IF flushed THEN (w \o <<d>>) \o <<e>>
            ELSE IF buf[s].send_eof THEN w \o <<e>> ELSE w
    <2> HIDE DEF d, e, flushed
    <2>1. CASE flushed
      BY <1>1, <1>2, <2>1, Lists
    <2>2. CASE ~flushed
      BY <1>1, <1>2, <2>2, Lists
    <2> QED BY <2>1, <2>2
  <1> QED BY <1>3

\* The end of a stream: its data unless they are lost, and EOF.
LEMMA LastSent ==
  ASSUME TypeOK, NEW s \in Stream, NEW w \in Seq(Packet), WellFormed(w),
         ~HasEnd(w), ~StreamEnded(w, s), NEW loses,
         buf[s].send_eof \/ (buf[s].pending > 0 /\ ~loses)
  PROVE  LET v == w \o LastPackets(s, loses)
         IN  /\ v \in Seq(Packet) /\ WellFormed(v) /\ ~HasEnd(v)
             /\ \A t \in Stream :
                  StreamEnded(v, t) <=> StreamEnded(w, t) \/ t = s
  <1>1. CASE ~(buf[s].pending > 0 /\ ~loses)
    <2>1. w \o LastPackets(s, loses) = w \o <<Eof(s)>>
      BY <1>1, LastIs
    <2> QED BY <2>1, EofSent
  <1>2. CASE buf[s].pending > 0 /\ ~loses
    <2> DEFINE u == w \o <<Data(s)>>
    <2>1. w \o LastPackets(s, loses) = u \o <<Eof(s)>>
      BY <1>2, LastIs
    <2>2. /\ u \in Seq(Packet) /\ WellFormed(u) /\ ~HasEnd(u)
          /\ \A t \in Stream : StreamEnded(u, t) <=> StreamEnded(w, t)
      BY <1>2, DataSent
    <2> HIDE DEF u
    <2>3. ~StreamEnded(u, s)
      BY <2>2
    <2>4. LET v == u \o <<Eof(s)>>
          IN  /\ v \in Seq(Packet) /\ WellFormed(v) /\ ~HasEnd(v)
              /\ \A t \in Stream :
                   StreamEnded(v, t) <=> StreamEnded(u, t) \/ t = s
      BY <2>2, <2>3, EofSent
    <2> QED BY <2>1, <2>2, <2>4
  <1> QED BY <1>1, <1>2

\* A buffer with nothing to say sends nothing.
LEMMA NothingSent ==
  ASSUME TypeOK, NEW s \in Stream, NEW w \in Seq(Packet), NEW loses,
         ~(buf[s].send_eof \/ buf[s].pending > 0)
  PROVE  w \o LastPackets(s, loses) = w
  BY LastIs

\* A list keeps its order when only the packets before one that is thrown on
\* are sent, and it does not reach its end.
LEMMA PartSent ==
  ASSUME NEW w \in Seq(Packet), NEW packets \in Seq(Packet),
         WellFormed(w \o packets), NEW n \in 0 .. (Len(packets) - 1)
  PROVE  LET u == w \o SubSeq(packets, 1, n)
         IN  WellFormed(u) /\ ~HasEnd(u)
  <1> DEFINE u == w \o SubSeq(packets, 1, n)
             v == w \o packets
  <1>1. /\ Len(u) \in Nat /\ Len(v) \in Nat /\ Len(u) < Len(v)
        /\ DOMAIN u = 1..Len(u) /\ DOMAIN v = 1..Len(v)
        /\ \A j \in 1..Len(u) : u[j] = v[j]
    <2> DEFINE part == SubSeq(packets, 1, n)
    <2>1. /\ part \in Seq(Packet) /\ Len(part) = n /\ n \in Nat
          /\ Len(packets) \in Nat /\ Len(w) \in Nat
          /\ \A j \in 1..n : part[j] = packets[j]
      OBVIOUS
    <2> HIDE DEF part
    <2>2. Len(w \o part) = Len(w) + n /\ w \o part \in Seq(Packet)
      BY <2>1
    <2>3. Len(v) = Len(w) + Len(packets) /\ v \in Seq(Packet)
      OBVIOUS
    <2>4. \A j \in 1..(Len(w) + n) : (w \o part)[j] = v[j]
      <3>1. ASSUME NEW j \in 1..(Len(w) + n) PROVE (w \o part)[j] = v[j]
        <4>1. CASE j <= Len(w)
          BY <2>1, <4>1
        <4>2. CASE j > Len(w)
          BY <2>1, <4>2
        <4> QED BY <2>1, <4>1, <4>2
      <3> QED BY <3>1
    <2> HIDE DEF v
    <2> QED BY <2>1, <2>2, <2>3, <2>4 DEF part
  <1>2. WellFormed(v)
    OBVIOUS
  <1> HIDE DEF u, v
  <1>3. \A j \in DOMAIN u : j \in DOMAIN v /\ u[j] = v[j] /\ j # Len(v)
    BY ONLY <1>1
  <1>4. Orderly(u)
    BY ONLY <1>2, <1>3 DEF WellFormed, Orderly
  <1>5. ~HasEnd(u)
    BY ONLY <1>2, <1>3 DEF WellFormed, EndsLast, HasEnd
  <1>6. WellFormed(u)
    BY <1>4, <1>5 DEF WellFormed, EndsLast, HasEnd
  <1> QED BY <1>5, <1>6 DEF u

-----------------------------------------------------------------------------
(* How many characters are on the wire: what one packet adds.              *)

\* What a packet counts for is a number, and the steps of the count add it.
LEMMA CharsType ==
  ASSUME NEW p \in Packet, NEW s PROVE Chars(p, s) \in Nat
  BY StreamsAssumption DEF Chars, Packet

\* A packet adds to the count, or nothing.
LEMMA CounterSteps ==
  ASSUME NEW s PROVE StepsFor(Counter(s), Packet, Nat)
  <1>1. \A p \in Packet : [n \in Nat |-> n + Chars(p, s)] \in [Nat -> Nat]
    BY CharsType
  <1> QED BY <1>1 DEF StepsFor, Counter

\* One packet more, and none.
LEMMA SentMore ==
  ASSUME NEW w \in Seq(Packet), NEW p \in Packet, NEW s
  PROVE  /\ SentLen(w, s) \in Nat
         /\ SentLen(w \o <<p>>, s) = SentLen(w, s) + Chars(p, s)
  <1>1. StepsFor(Counter(s), Packet, Nat)
    BY CounterSteps
  <1>2. FoldList(w, 0, Counter(s)) \in Nat
    BY <1>1, FoldType
  <1>3. FoldList(w \o <<p>>, 0, Counter(s))
          = Counter(s)[p][FoldList(w, 0, Counter(s))]
    BY <1>1, FoldAppend
  <1>4. \A n \in Nat : Counter(s)[p][n] = n + Chars(p, s)
    BY DEF Counter
  <1> QED BY <1>2, <1>3, <1>4 DEF SentLen

\* Nothing sent, nothing counted.
LEMMA SentNone == ASSUME NEW s PROVE SentLen(<<>>, s) = 0
  BY CounterSteps, FoldEmpty DEF SentLen

\* What each kind of packet adds.
LEMMA CountedPackets ==
  ASSUME TypeOK, NEW s \in Stream, NEW t \in Stream, NEW w \in Seq(Packet)
  PROVE  /\ SentLen(w, t) \in Nat
         /\ SentLen(w \o <<Data(s)>>, t)
              = SentLen(w, t) + IF t = s THEN buf[s].pending ELSE 0
         /\ SentLen(w \o <<Eof(s)>>, t) = SentLen(w, t)
         /\ SentLen(w \o <<End>>, t) = SentLen(w, t)
  <1>1. Data(s) \in Packet /\ Eof(s) \in Packet /\ End \in Packet
    BY PacketTypes
  <1>2. /\ Chars(Data(s), t) = IF t = s THEN buf[s].pending ELSE 0
        /\ Chars(Eof(s), t) = 0 /\ Chars(End, t) = 0
    BY DEF Chars, Data, Eof, End
  <1>3. SentLen(w, t) \in Nat
    BY <1>1, SentMore
  <1>4. SentLen(w \o <<Data(s)>>, t) = SentLen(w, t) + Chars(Data(s), t)
    BY <1>1, SentMore
  <1>5. SentLen(w \o <<Eof(s)>>, t) = SentLen(w, t) + Chars(Eof(s), t)
    BY <1>1, SentMore
  <1>6. SentLen(w \o <<End>>, t) = SentLen(w, t) + Chars(End, t)
    BY <1>1, SentMore
  <1> QED BY ONLY <1>2, <1>3, <1>4, <1>5, <1>6

\* A stream that ends sends what its buffer holds, unless that is lost.
LEMMA CountedLast ==
  ASSUME TypeOK, NEW s \in Stream, NEW t \in Stream, NEW w \in Seq(Packet),
         NEW loses
  PROVE  SentLen(w \o LastPackets(s, loses), t)
           = SentLen(w, t) + IF t = s /\ ~loses THEN buf[s].pending ELSE 0
  <1> DEFINE d == Data(s)
             e == Eof(s)
             u == w \o <<d>>
  <1>1. d \in Packet /\ e \in Packet /\ buf[s].pending \in Nat
        /\ SentLen(w, t) \in Nat /\ u \in Seq(Packet)
    <2>1. d \in Packet /\ e \in Packet
      BY PacketTypes
    <2>2. u \in Seq(Packet)
      BY <2>1, Appended
    <2> HIDE DEF u, d, e
    <2> QED BY <2>1, <2>2, Fields, CountedPackets
  <1>2. w \o LastPackets(s, loses)
          = IF buf[s].pending > 0 /\ ~loses THEN u \o <<e>>
            ELSE IF buf[s].send_eof THEN w \o <<e>> ELSE w
    BY LastIs
  <1>3. SentLen(u, t) = SentLen(w, t) + IF t = s THEN buf[s].pending ELSE 0
    BY CountedPackets
  <1>4. SentLen(w \o <<e>>, t) = SentLen(w, t)
    BY CountedPackets
  <1> HIDE DEF u
  <1>5. SentLen(u \o <<e>>, t) = SentLen(u, t)
    BY <1>1, CountedPackets
  <1> HIDE DEF e
  <1>6. CASE buf[s].pending > 0 /\ ~loses
    <2>1. SentLen(w \o LastPackets(s, loses), t) = SentLen(u, t)
      BY <1>2, <1>5, <1>6
    <2> QED BY <1>3, <1>6, <2>1
  <1>7. CASE ~(buf[s].pending > 0 /\ ~loses)
    <2>1. SentLen(w \o LastPackets(s, loses), t) = SentLen(w, t)
      BY <1>2, <1>4, <1>7
    <2>2. loses \/ buf[s].pending = 0
      BY <1>1, <1>7
    <2> QED BY <1>1, <2>1, <2>2
  <1> QED BY <1>6, <1>7

\* Packets with no character of a stream do not change its count.
Silent(q, s) == \A i \in DOMAIN q : Chars(q[i], s) = 0
LEMMA SilentSent ==
  ASSUME NEW w \in Seq(Packet), NEW q \in Seq(Packet), NEW s, Silent(q, s)
  PROVE  SentLen(w \o q, s) = SentLen(w, s)
  <1> DEFINE C == Counter(s)
             P == {u \in Seq(Packet) :
                     Silent(u, s) => \A n \in Nat : FoldList(u, n, C) = n}
  <1>0. \A p \in Packet, n \in Nat : C[p][n] = n + Chars(p, s)
    BY DEF Counter
  <1>1. StepsFor(C, Packet, Nat)
    BY CounterSteps
  <1> HIDE DEF C
  <1>2. <<>> \in P
    <2>1. <<>> \in Seq(Packet)
      OBVIOUS
    <2> QED BY <1>1, <2>1, FoldEmpty
  <1>3. ASSUME NEW u \in Seq(Packet), NEW p \in Packet, u \in P
        PROVE  u \o <<p>> \in P
    <2> DEFINE v == u \o <<p>>
    <2>1. /\ v \in Seq(Packet) /\ Len(u) \in Nat /\ DOMAIN u = 1..Len(u)
          /\ DOMAIN v = 1..(Len(u) + 1)
          /\ \A j \in 1..Len(u) : v[j] = u[j]
          /\ v[Len(u) + 1] = p
      BY Appended
    <2>2. ASSUME NEW n \in Nat
          PROVE  FoldList(v, n, C) = C[p][FoldList(u, n, C)]
      <3> DEFINE S == Nat
      <3>1. n \in S /\ StepsFor(C, Packet, S)
        BY <1>1
      <3> HIDE DEF S, P, v
      <3>2. FoldList(u \o <<p>>, n, C) = C[p][FoldList(u, n, C)]
        BY <3>1, FoldAppend
      <3> QED BY <3>2 DEF v
    <2> HIDE DEF v
    <2>3. ASSUME Silent(v, s), NEW n \in Nat PROVE FoldList(v, n, C) = n
      <3>1. Silent(u, s) /\ Chars(p, s) = 0
        BY <2>1, <2>3 DEF Silent
      <3>2. FoldList(u, n, C) = n
        BY <1>3, <3>1
      <3> QED BY <1>0, <2>2, <3>1, <3>2
    <2>4. v \in P
      BY <2>1, <2>3
    <2> QED BY <2>4 DEF v
  <1> HIDE DEF P
  <1>4. Grows(P, Packet)
    BY <1>3 DEF Grows
  <1>5. Seq(Packet) \subseteq P
    BY <1>2, <1>4, ListInduction
  <1>6. FoldList(w, 0, C) \in Nat /\ 0 \in Nat
    BY <1>1, FoldType
  <1>7. FoldList(w \o q, 0, C) = FoldList(q, FoldList(w, 0, C), C)
    <2> DEFINE S == Nat
               z == 0
    <2>1. z \in S /\ StepsFor(C, Packet, S)
      BY <1>1
    <2> HIDE DEF S, z
    <2>2. FoldList(w \o q, z, C) = FoldList(q, FoldList(w, z, C), C)
      BY <2>1, FoldConcat
    <2> QED BY <2>2 DEF z
  <1>8. FoldList(q, FoldList(w, 0, C), C) = FoldList(w, 0, C)
    BY <1>5, <1>6 DEF P
  <1> QED BY <1>7, <1>8 DEF SentLen, C

\* Nor does a part of them.
LEMMA SilentPart ==
  ASSUME NEW q \in Seq(Packet), NEW s, Silent(q, s),
         NEW n \in 0 .. (Len(q) - 1)
  PROVE  SubSeq(q, 1, n) \in Seq(Packet) /\ Silent(SubSeq(q, 1, n), s)
  <1> DEFINE part == SubSeq(q, 1, n)
  <1>1. /\ part \in Seq(Packet) /\ DOMAIN part = 1..n /\ n \in Nat
        /\ \A j \in 1..n : part[j] = q[j] /\ j \in DOMAIN q
    OBVIOUS
  <1> HIDE DEF part
  <1>2. Silent(part, s)
    BY <1>1 DEF Silent
  <1> QED BY <1>1, <1>2 DEF part

-----------------------------------------------------------------------------
(* The invariant.                                                          *)

\* Its list part is the two properties the runs check.
LEMMA Restated ==
  ASSUME WellFormed(wire) PROVE EofEndsStream /\ EndIsLast
  BY DEF WellFormed, Orderly, EndsLast, StreamEnded, EofEndsStream, EndIsLast,
         OfStream

\* While the request runs, an attached stream is not ended, nor is the
\* request.
LEMMA Running ==
  ASSUME StreamsIInv, InRequest, phase # "ended"
  PROVE  /\ ~HasEnd(wire)
         /\ \A s \in Stream : buf[s].attached => ~StreamEnded(wire, s)
  BY DEF StreamsIInv, WireEnds, EndOnce, InRequest

\* Putting characters and flushing: the streams stay open, the wire may get
\* data.
LEMMA OutputStep ==
  ASSUME StreamsIInv, InRequest, phase # "ended", NEW s \in Stream,
         buf[s].attached, Put(s) \/ Sync(s)
  PROVE  /\ WellFormed(wire') /\ ~HasEnd(wire')
         /\ \A t \in Stream : StreamEnded(wire', t) <=> StreamEnded(wire, t)
         /\ \A t \in Stream :
              /\ buf'[t].attached = buf[t].attached
              /\ buf[t].send_eof => buf'[t].send_eof
              /\ t # s => buf'[t] = buf[t]
  <1>1. /\ TypeOK /\ WellFormed(wire) /\ wire \in Seq(Packet)
        /\ ~HasEnd(wire) /\ ~StreamEnded(wire, s)
        /\ buf[s].pending \in Nat /\ Cap \in Nat \ {0}
    BY Running, Fields, StreamsAssumption DEF StreamsIInv, TypeOK
  <1>2. wire' = wire \/ (buf[s].pending > 0 /\ wire' = wire \o <<Data(s)>>)
    <2> DEFINE d == Data(s)
               sent == wire \o <<d>>
    <2>1. wire \o <<>> = wire
      BY <1>1
    <2> HIDE DEF d
    <2>2. ASSUME Sync(s)
          PROVE  wire' = wire \/ (buf[s].pending > 0 /\ wire' = sent)
      <3>1. \/ wire' = wire
            \/ Send(IF buf[s].pending = 0 THEN <<>> ELSE <<d>>)
        BY ONLY <2>2 DEF Sync, Lose, d
      <3> QED BY ONLY <1>1, <2>1, <3>1 DEF Send
    <2>3. ASSUME Put(s)
          PROVE  wire' = wire \/ (buf[s].pending > 0 /\ wire' = sent)
      <3>1. \/ wire' = wire
            \/ Send(IF buf[s].pending = Cap THEN <<d>> ELSE <<>>)
        BY ONLY <2>3 DEF Put, Lose, d
      <3>2. buf[s].pending = Cap => buf[s].pending > 0
        BY <1>1
      <3>3. CASE buf[s].pending = Cap
        BY ONLY <3>1, <3>2, <3>3 DEF Send
      <3>4. CASE buf[s].pending # Cap
        BY ONLY <2>1, <3>1, <3>4 DEF Send
      <3> QED BY <3>3, <3>4
    <2> QED BY <2>2, <2>3 DEF d
  <1>3. /\ WellFormed(wire') /\ ~HasEnd(wire')
        /\ \A t \in Stream : StreamEnded(wire', t) <=> StreamEnded(wire, t)
    <2>1. CASE wire' = wire
      BY <1>1, <2>1
    <2>2. CASE buf[s].pending > 0 /\ wire' = wire \o <<Data(s)>>
      BY <1>1, <2>2, DataSent
    <2> QED BY <1>2, <2>1, <2>2
  <1>4. buf \in [Stream -> Buffer]
    BY <1>1 DEF TypeOK, Buffer
  <1>5. ASSUME NEW t \in Stream
        PROVE  /\ buf'[t].attached = buf[t].attached
               /\ buf[t].send_eof => buf'[t].send_eof
               /\ t # s => buf'[t] = buf[t]
    BY <1>4 DEF Put, Sync, Lose, Buffer
  <1> QED BY <1>3, <1>5

\* The invariant without the types, which TypeStep keeps.
Order == Buffers /\ Control /\ WireEnds /\ EndOnce /\ WellFormed(wire)

\* When the process ends inside a list of packets that may be sent.
LEMMA TerminateOrder ==
  ASSUME TypeOK, Buffers, NEW packets \in Seq(Packet),
         WellFormed(wire \o packets), Terminate(packets)
  PROVE  Order'
  <1>1. PICK n \in 0 .. (Len(packets) - 1) :
          sock = "up" /\ Send(SubSeq(packets, 1, n))
    BY DEF Terminate
  <1>2. wire \in Seq(Packet)
    BY DEF TypeOK
  <1>3. WellFormed(wire') /\ ~HasEnd(wire')
    <2>1. wire' = wire \o SubSeq(packets, 1, n)
      BY <1>1 DEF Send
    <2> QED BY <1>2, <2>1, PartSent
  <1>4. phase' = "terminated" /\ UNCHANGED buf
    BY DEF Terminate
  <1> QED BY <1>3, <1>4
          DEF Order, Buffers, Control, WireEnds, EndOnce, InRequest

\* The steps that put and flush.
LEMMA OutputOrder ==
  ASSUME StreamsIInv,
         \/ \E s \in Stream : AppPut(s) \/ AppFlush(s)
         \/ Report \/ FlushReport
  PROVE  Order'
  <1>1. PICK s \in Stream :
          /\ buf[s].attached /\ (Put(s) \/ Sync(s)) /\ UNCHANGED sock
          /\ \/ phase = "app" /\ phase' = "app"
             \/ phase = "report" /\ phase' = "flush_report" /\ s = "err"
             \/ phase = "flush_report" /\ phase' = "close_out" /\ s = "err"
    <2>1. "err" \in Stream
      BY DEF Stream
    <2>2. ASSUME NEW s \in Stream, Put(s) PROVE buf[s].attached
      BY <2>2 DEF Put, Good
    <2>3. phase = "flush_report" => buf["err"].attached
      BY DEF StreamsIInv, Control
    <2> QED BY <2>1, <2>2, <2>3 DEF AppPut, AppFlush, Report, FlushReport
  <1>2. InRequest /\ phase # "ended" /\ InRequest'
    BY <1>1 DEF InRequest
  <1>3. /\ WellFormed(wire') /\ ~HasEnd(wire')
        /\ \A t \in Stream : StreamEnded(wire', t) <=> StreamEnded(wire, t)
        /\ \A t \in Stream :
             /\ buf'[t].attached = buf[t].attached
             /\ buf[t].send_eof => buf'[t].send_eof
             /\ t # s => buf'[t] = buf[t]
    BY <1>1, <1>2, OutputStep
  <1>4. Buffers'
    BY <1>1, <1>2, <1>3 DEF StreamsIInv, Buffers
  <1>5. Control'
    BY <1>1, <1>3 DEF Control
  <1>6. WireEnds' /\ EndOnce'
    BY <1>1, <1>2, <1>3 DEF StreamsIInv, WireEnds, EndOnce
  <1> QED BY <1>3, <1>4, <1>5, <1>6 DEF Order

\* Closing a stream ends it, once.
LEMMA CloseOrder ==
  ASSUME StreamsIInv, NEW s \in Stream,
         \/ AppClose(s)
         \/ s = "out" /\ CloseOut
         \/ s = "err" /\ CloseErr
  PROVE  Order'
  <1>1. PICK next \in {"app", "close_err", "end"} :
          /\ Close(s, next) /\ InRequest /\ phase # "ended"
          /\ next = "close_err" => s = "out"
          /\ next = "end" => s = "err" /\ ~buf["out"].attached
    BY DEF AppClose, CloseOut, CloseErr, InRequest, StreamsIInv, Control
  <1>2. /\ TypeOK /\ WellFormed(wire) /\ wire \in Seq(Packet)
        /\ buf \in [Stream -> Buffer] /\ ~HasEnd(wire)
        /\ Buffers /\ WireEnds /\ Control /\ EndOnce
    BY <1>1, Running DEF StreamsIInv, TypeOK, Buffer
  <1>3. CASE ~buf[s].attached /\ phase' = next
             /\ UNCHANGED <<buf, sock, wire>>
    BY <1>1, <1>2, <1>3
    DEF Order, Buffers, Control, WireEnds, EndOnce, InRequest
  <1>4. ASSUME buf[s].attached, NEW loses
        PROVE  LET v == wire \o LastPackets(s, loses)
               IN  /\ v \in Seq(Packet) /\ WellFormed(v) /\ ~HasEnd(v)
                   /\ \A t \in Stream :
                        StreamEnded(v, t) <=> StreamEnded(wire, t) \/ t = s
    <2>1. ~StreamEnded(wire, s) /\ buf[s].send_eof
      BY <1>1, <1>2, <1>4, Running DEF Buffers
    <2> QED BY <1>2, <2>1, LastSent
  <1>5. ASSUME buf[s].attached, NEW loses, Terminate(LastPackets(s, loses))
        PROVE  Order'
    <2> DEFINE packets == LastPackets(s, loses)
    <2>1. packets \in Seq(Packet) /\ WellFormed(wire \o packets)
      BY <1>2, <1>4, <1>5, LastPacketsType
    <2> HIDE DEF packets
    <2>2. Terminate(packets)
      BY <1>5 DEF packets
    <2> QED BY <1>2, <2>1, <2>2, TerminateOrder
  <1>6. ASSUME buf[s].attached, phase' = next, UNCHANGED sock, NEW loses,
               Send(LastPackets(s, loses)),
               buf' = [buf EXCEPT ![s] = Closed(s)]
        PROVE  Order'
    <2>1. /\ ~buf'[s].attached /\ buf'[s].pending = 0 /\ ~buf'[s].send_eof
          /\ \A t \in Stream : t # s => buf'[t] = buf[t]
      BY <1>2, <1>6 DEF Closed, NewBuf
    <2>2. /\ WellFormed(wire') /\ ~HasEnd(wire')
          /\ \A t \in Stream : StreamEnded(wire', t) <=>
               StreamEnded(wire, t) \/ (sock = "up" /\ t = s)
      BY <1>2, <1>4, <1>6 DEF Send
    <2>3. InRequest'
      BY <1>1, <1>6 DEF InRequest
    <2>4. Buffers'
      BY <1>1, <1>2, <2>1 DEF Buffers
    <2>5. Control'
      BY <1>1, <1>6, <2>1 DEF Control, Stream
    <2>6. WireEnds' /\ EndOnce'
      BY <1>1, <1>2, <1>6, <2>1, <2>2 DEF WireEnds, EndOnce, InRequest
    <2> QED BY <2>2, <2>4, <2>5, <2>6 DEF Order
  <1> QED BY <1>1, <1>3, <1>5, <1>6 DEF Close

\* Cancelling writes a whole response into the empty list.
LEMMA CancelSent ==
  ASSUME TypeOK, NEW loses PROVE WellFormed(Cancelling(loses))
  <1>1. /\ Message.kind = "data" /\ Message.stream = "err"
        /\ Message.len = 1
        /\ Eof("err").kind = "eof" /\ Eof("err").stream = "err"
        /\ Eof("out").kind = "eof" /\ Eof("out").stream = "out"
        /\ End.kind = "end"
    BY DEF Message, Data, Eof, End
  <1>2. CASE loses
    <2> DEFINE v == <<Eof("err"), Eof("out"), End>>
    <2>1. /\ Len(v) = 3 /\ DOMAIN v = 1..3
          /\ v[1] = Eof("err") /\ v[2] = Eof("out") /\ v[3] = End
      OBVIOUS
    <2>2. Cancelling(loses) = v
      BY <1>2 DEF Cancelling, Ends
    <2> HIDE DEF v
    <2>3. \A j \in DOMAIN v : j = 1 \/ j = 2 \/ j = 3
      BY <2>1
    <2>4. Orderly(v)
      BY ONLY <1>1, <2>1, <2>3 DEF Orderly
    <2>5. \A s \in Stream : StreamEnded(v, s)
      BY <1>1, <2>1 DEF StreamEnded, Stream
    <2>6. EndsLast(v)
      BY ONLY <1>1, <2>1, <2>3, <2>5 DEF EndsLast
    <2> QED BY <2>2, <2>4, <2>6 DEF WellFormed
  <1>3. CASE ~loses
    <2> DEFINE m == Message
               ends == Ends
               v == <<m>> \o ends
    <2>0. /\ m = Message /\ m \in Packet
          /\ Cancelling(loses) = v
          /\ ends \in Seq(Packet) /\ Len(ends) = 3 /\ ends[1] = Eof("err")
          /\ ends[2] = Eof("out") /\ ends[3] = End
      BY <1>3, PacketTypes DEF Cancelling, Message, Ends, Stream
    <2> HIDE DEF m, ends
    <2>1. /\ Len(v) = 4 /\ DOMAIN v = 1..4 /\ v[1] = m
          /\ v[2] = Eof("err") /\ v[3] = Eof("out") /\ v[4] = End
      <3>1. m \in Packet /\ ends \in Seq(Packet) /\ Len(ends) = 3
        BY <2>0
      <3>2. v \in Seq(Packet) /\ Len(v) = 4
        <4> DEFINE one == <<m>>
        <4>0. ends \in Seq(Packet)
          BY <3>1
        <4>1. one \in Seq(Packet) /\ Len(one) = 1
          BY ONLY <3>1
        <4> HIDE DEF one
        <4>2. /\ Len(one \o ends) = Len(one) + Len(ends)
              /\ one \o ends \in Seq(Packet)
          <5>1. one \in Seq(Packet)
            BY <4>1
          <5> QED BY ONLY <4>0, <5>1
        <4> QED BY <3>1, <4>1, <4>2 DEF one
      <3>3. v[1] = m
        BY ONLY <3>1
      <3>4. v[2] = ends[1] /\ v[3] = ends[2] /\ v[4] = ends[3]
        BY ONLY <3>1
      <3>5. DOMAIN v = 1..4
        BY ONLY <3>2
      <3> HIDE DEF v
      <3> QED BY ONLY <2>0, <3>2, <3>3, <3>4, <3>5
    <2> HIDE DEF v
    <2>3. \A j \in DOMAIN v : j = 1 \/ j = 2 \/ j = 3 \/ j = 4
      BY <2>1
    <2>4. Orderly(v)
      BY ONLY <1>1, <2>0, <2>1, <2>3 DEF Orderly
    <2>5. \A s \in Stream : StreamEnded(v, s)
      BY <1>1, <2>1 DEF StreamEnded, Stream
    <2>6. EndsLast(v)
      BY ONLY <1>1, <2>0, <2>1, <2>3, <2>5 DEF EndsLast
    <2> QED BY <2>0, <2>4, <2>6 DEF WellFormed
  <1> QED BY <1>2, <1>3

\* The destructors send nothing after END_REQUEST, and nothing for a closed
\* stream.
LEMMA DestroySent ==
  ASSUME StreamsIInv, phase \notin {"gone", "terminated"}
  PROVE  LET v == wire \o (LastPackets("err", FALSE)
                            \o LastPackets("out", FALSE))
         IN  WellFormed(v) /\ (HasEnd(v) => HasEnd(wire))
  <1> DEFINE sends(s) == buf[s].send_eof \/ buf[s].pending > 0
             err == LastPackets("err", FALSE)
             out == LastPackets("out", FALSE)
             x == wire \o err
  <1>0. "err" \in Stream /\ "out" \in Stream /\ "err" # "out"
    BY DEF Stream
  <1>1. /\ TypeOK /\ wire \in Seq(Packet) /\ WellFormed(wire)
        /\ \A s \in Stream :
             sends(s) => ~HasEnd(wire) /\ ~StreamEnded(wire, s)
    <2>1. \A s \in Stream : sends(s) => buf[s].attached
      BY Fields DEF StreamsIInv, Buffers
    <2> QED BY <2>1 DEF StreamsIInv, TypeOK, WireEnds, EndOnce
  <1>2. wire \o (err \o out) = x \o out
    <2>1. err \in Seq(Packet) /\ out \in Seq(Packet)
      BY <1>0, <1>1, LastPacketsType
    <2> HIDE DEF err, out
    <2> QED BY <1>1, <2>1
  <1>3. /\ x \in Seq(Packet) /\ WellFormed(x)
        /\ HasEnd(x) <=> HasEnd(wire)
        /\ StreamEnded(x, "out") <=> StreamEnded(wire, "out")
    <2>1. CASE sends("err")
      BY <1>0, <1>1, <2>1, LastSent
    <2>2. CASE ~sends("err")
      BY <1>0, <1>1, <2>2, NothingSent
    <2> QED BY <2>1, <2>2
  <1> HIDE DEF x
  <1>4. CASE sends("out")
    BY <1>0, <1>1, <1>2, <1>3, <1>4, LastSent
  <1>5. CASE ~sends("out")
    BY <1>0, <1>1, <1>2, <1>3, <1>5, NothingSent
  <1> QED BY <1>4, <1>5

\* The steps of the connection thread.
LEMMA ConnOrder ==
  ASSUME StreamsIInv, BeginRequest \/ EndParams \/ CancelRequest \/ Destroy
  PROVE  Order'
  <1>1. /\ TypeOK /\ WellFormed(wire) /\ buf \in [Stream -> Buffer]
        /\ Buffers /\ WireEnds /\ Control /\ EndOnce
    BY DEF StreamsIInv, TypeOK, Buffer
  <1>2. CASE BeginRequest
    <2>1. \A s \in Stream : buf'[s].attached /\ buf'[s].send_eof
      BY <1>1, <1>2 DEF BeginRequest, Buffer
    <2>2. /\ WellFormed(wire') /\ ~HasEnd(wire') /\ wire' = <<>>
          /\ \A s \in Stream : ~StreamEnded(wire', s)
      <3>1. wire' = <<>>
        BY <1>2 DEF BeginRequest
      <3> QED BY ONLY <3>1 DEF WellFormed, Orderly, EndsLast, HasEnd,
                               StreamEnded
    <2> QED
      BY <1>2, <2>1, <2>2
      DEF BeginRequest, Order, Buffers, Control, WireEnds, EndOnce, InRequest
  <1>3. CASE EndParams
    BY <1>1, <1>3
    DEF EndParams, Order, Buffers, Control, WireEnds, EndOnce, InRequest
  <1>4. CASE CancelRequest
    <2>1. PICK loses \in BOOLEAN :
            \/ Terminate(Cancelling(loses))
            \/ /\ phase' = "ready" /\ Send(Cancelling(loses))
               /\ buf' = [s \in Stream |-> Closed(s)]
      BY <1>1, <1>4, CancelIs
    <2> DEFINE v == Cancelling(loses)
    <2>2. v \in Seq(Packet) /\ WellFormed(v) /\ wire \o v = v
      <3>1. wire = <<>>
        BY <1>1, <1>4 DEF CancelRequest, Control
      <3>2. v \in Seq(Packet) /\ WellFormed(v)
        BY <1>1, CancellingType, CancelSent
      <3> HIDE DEF v
      <3> QED BY <3>1, <3>2
    <2> HIDE DEF v
    <2>3. CASE Terminate(v)
      BY <1>1, <2>2, <2>3, TerminateOrder
    <2>4. CASE ~Terminate(v)
      <3>1. /\ phase' = "ready" /\ Send(v)
            /\ buf' = [s \in Stream |-> Closed(s)]
        BY <2>1, <2>4 DEF v
      <3>2. \A s \in Stream :
              ~buf'[s].attached /\ buf'[s].pending = 0 /\ ~buf'[s].send_eof
        BY <3>1 DEF Closed, NewBuf
      <3>3. WellFormed(wire')
        BY <1>1, <2>2, <3>1 DEF Send
      <3> QED
        BY <3>1, <3>2, <3>3
        DEF Order, Buffers, Control, WireEnds, EndOnce, InRequest
    <2> QED BY <2>3, <2>4
  <1>5. CASE Destroy
    <2> DEFINE err == LastPackets("err", FALSE)
               out == LastPackets("out", FALSE)
               packets == err \o out
    <2>1. /\ packets \in Seq(Packet) /\ WellFormed(wire \o packets)
          /\ HasEnd(wire \o packets) => HasEnd(wire)
      <3>1. err \in Seq(Packet) /\ out \in Seq(Packet)
        BY <1>1, LastPacketsType DEF Stream
      <3>2. phase \notin {"gone", "terminated"}
        BY <1>5 DEF Destroy
      <3>3. /\ WellFormed(wire \o packets)
            /\ HasEnd(wire \o packets) => HasEnd(wire)
        BY <3>2, DestroySent
      <3> HIDE DEF err, out
      <3> QED BY <3>1, <3>3
    <2>2. \/ Terminate(packets)
          \/ phase' = "gone" /\ Send(packets) /\ UNCHANGED buf
      BY <1>5 DEF Destroy
    <2> HIDE DEF packets
    <2>3. CASE Terminate(packets)
      BY <1>1, <2>1, <2>3, TerminateOrder
    <2>4. CASE ~Terminate(packets)
      <3>1. WellFormed(wire') /\ (HasEnd(wire') => HasEnd(wire))
        BY <1>1, <2>1, <2>2, <2>4 DEF Send
      <3> QED
        BY <1>1, <2>2, <2>4, <3>1
        DEF Order, Buffers, Control, WireEnds, EndOnce, InRequest
    <2> QED BY <2>3, <2>4
  <1> QED BY <1>2, <1>3, <1>4, <1>5

\* The remaining steps.
LEMMA OtherOrder ==
  ASSUME StreamsIInv, AppReturns \/ SendEndRequest \/ SocketResets
  PROVE  Order'
  <1>1. /\ TypeOK /\ WellFormed(wire) /\ wire \in Seq(Packet)
        /\ Buffers /\ WireEnds /\ Control /\ EndOnce
    BY DEF StreamsIInv, TypeOK
  <1>2. CASE AppReturns
    BY <1>1, <1>2
    DEF AppReturns, Order, Buffers, Control, WireEnds, EndOnce, InRequest
  <1>3. CASE SendEndRequest
    <2> DEFINE packets == <<End>>
    <2>1. ~HasEnd(wire) /\ \A s \in Stream : ~buf[s].attached
      BY <1>1, <1>3, Running DEF SendEndRequest, Control, InRequest, Stream
    <2>2. sock = "up" => \A s \in Stream : StreamEnded(wire, s)
      BY <1>1, <1>3, <2>1 DEF SendEndRequest, WireEnds, InRequest
    <2>3. sock = "up" => /\ WellFormed(wire \o packets)
                         /\ \A s \in Stream : StreamEnded(wire \o packets, s)
      BY <1>1, <2>1, <2>2, EndSent
    <2>4. packets \in Seq(Packet)
      BY <1>1, PacketTypes, Lists DEF Stream
    <2>5. \/ Terminate(packets)
          \/ phase' = "ended" /\ Send(packets) /\ UNCHANGED <<buf, sock>>
      BY <1>3 DEF SendEndRequest
    <2> HIDE DEF packets
    <2>6. CASE Terminate(packets)
      <3>1. sock = "up"
        BY <2>6 DEF Terminate
      <3> QED BY <1>1, <2>3, <2>4, <2>6, <3>1, TerminateOrder
    <2>7. CASE ~Terminate(packets)
      <3>1. phase' = "ended" /\ Send(packets) /\ UNCHANGED <<buf, sock>>
        BY <2>5, <2>7
      <3>2. /\ WellFormed(wire')
            /\ sock = "up" => \A s \in Stream : StreamEnded(wire', s)
        BY <1>1, <2>3, <3>1 DEF Send
      <3> QED
        BY <1>1, <2>1, <3>1, <3>2
        DEF Order, Buffers, Control, WireEnds, EndOnce, InRequest, Stream
    <2> QED BY <2>6, <2>7
  <1>4. CASE SocketResets
    BY <1>1, <1>4
    DEF SocketResets, Order, Buffers, Control, WireEnds, EndOnce, InRequest
  <1> QED BY <1>2, <1>3, <1>4

-----------------------------------------------------------------------------
(* What is lost, and when.                                                 *)

\* A stream that lost its buffer has nothing left and is not written to.
LEMMA OutputLost ==
  ASSUME TypeOK, LostKnown, NEW s \in Stream, Put(s) \/ Sync(s)
  PROVE  LostKnown'
  <1>1. /\ buf \in [Stream -> Buffer] /\ bad \in [Stream -> BOOLEAN]
        /\ lost \in [Stream -> BOOLEAN]
    BY DEF TypeOK, Buffer
  <1>2. ASSUME NEW t \in Stream, lost'[t]
        PROVE  buf'[t].pending = 0 /\ (buf'[t].attached => bad'[t])
    <2>1. CASE Lose(s)
      <3>1. /\ buf' = [buf EXCEPT ![s].pending = 0]
            /\ bad' = [bad EXCEPT ![s] = TRUE]
            /\ lost' = [lost EXCEPT ![s] = TRUE]
        BY <2>1 DEF Lose
      <3>2. CASE t = s
        BY <1>1, <3>1, <3>2 DEF Buffer
      <3>3. CASE t # s
        <4>1. lost[t] /\ buf'[t] = buf[t] /\ bad'[t] = bad[t]
          BY <1>1, <1>2, <3>1, <3>3
        <4> QED BY <4>1 DEF LostKnown
      <3> QED BY <3>2, <3>3
    <2>2. CASE Sync(s) /\ ~Lose(s)
      <3>1. /\ buf' = [buf EXCEPT ![s].pending = 0,
                         ![s].send_eof = @ \/ buf[s].pending > 0]
            /\ UNCHANGED <<bad, lost>>
        BY <2>2 DEF Sync
      <3>2. /\ buf'[t].attached = buf[t].attached
            /\ buf'[t].pending = IF t = s THEN 0 ELSE buf[t].pending
        BY <1>1, <3>1 DEF Buffer
      <3> QED BY <1>2, <3>1, <3>2 DEF LostKnown
    <2>3. CASE Put(s) /\ ~Lose(s)
      <3>1. /\ buf' = IF buf[s].pending = Cap
                      THEN [buf EXCEPT ![s].pending = 1, ![s].send_eof = TRUE]
                      ELSE [buf EXCEPT ![s].pending = @ + 1]
            /\ UNCHANGED <<bad, lost>> /\ buf[s].attached /\ ~bad[s]
        BY <2>3 DEF Put, Good
      <3>2. lost[t] /\ t # s
        BY <1>2, <3>1 DEF LostKnown
      <3>3. buf'[t] = buf[t]
        BY <1>1, <3>1, <3>2
      <3> QED BY <3>1, <3>2, <3>3 DEF LostKnown
    <2> QED BY <2>1, <2>2, <2>3
  <1> QED BY <1>2 DEF LostKnown

\* So is one that close() loses.
LEMMA CloseLost ==
  ASSUME TypeOK, LostKnown, NEW s \in Stream, NEW next, Close(s, next)
  PROVE  LostKnown'
  <1>1. CASE UNCHANGED <<buf, bad, lost>>
    BY <1>1 DEF LostKnown
  <1>2. ASSUME NEW loses, buf' = [buf EXCEPT ![s] = Closed(s)],
               bad' = [bad EXCEPT ![s] = TRUE],
               lost' = [lost EXCEPT ![s] = @ \/ loses]
        PROVE  LostKnown'
    <2>1. /\ buf \in [Stream -> Buffer] /\ bad \in [Stream -> BOOLEAN]
          /\ lost \in [Stream -> BOOLEAN]
      BY DEF TypeOK, Buffer
    <2>2. Closed(s).pending = 0 /\ ~Closed(s).attached
      BY DEF Closed, NewBuf
    <2> QED BY <1>2, <2>1, <2>2 DEF LostKnown
  <1> QED BY <1>1, <1>2 DEF Close, Terminate

\* The inductive step.
LEMMA LostStep ==
  ASSUME StreamsIInv, [Next]_vars PROVE LostKnown'
  <1>1. TypeOK /\ LostKnown
    BY DEF StreamsIInv
  <1>2. CASE UNCHANGED <<buf, bad, lost>>
    BY <1>1, <1>2 DEF LostKnown
  <1>3. CASE BeginRequest
    BY <1>3 DEF BeginRequest, LostKnown
  <1>4. CASE CancelRequest /\ ~UNCHANGED <<buf, bad, lost>>
    <2>1. /\ buf' = [s \in Stream |-> Closed(s)]
          /\ bad' = [s \in Stream |-> TRUE]
      BY <1>4 DEF CancelRequest, Terminate
    <2>2. \A s \in Stream : Closed(s).pending = 0
      BY DEF Closed, NewBuf
    <2> QED BY <2>1, <2>2 DEF LostKnown
  <1>5. ASSUME NEW s \in Stream, AppPut(s) \/ AppFlush(s) PROVE LostKnown'
    BY <1>1, <1>5, OutputLost DEF AppPut, AppFlush
  <1>6. CASE Report \/ FlushReport
    BY <1>1, <1>6, OutputLost DEF Report, FlushReport, Stream
  <1>7. ASSUME NEW s \in Stream, AppClose(s) PROVE LostKnown'
    BY <1>1, <1>7, CloseLost DEF AppClose
  <1>8. CASE CloseOut \/ CloseErr
    BY <1>1, <1>8, CloseLost DEF CloseOut, CloseErr, Stream
  <1>9. CASE EndParams \/ Destroy \/ AppReturns \/ SendEndRequest
             \/ SocketResets \/ UNCHANGED vars
    BY <1>2, <1>9 DEF EndParams, Destroy, AppReturns, SendEndRequest,
                      SocketResets, Terminate, vars
  <1> QED BY <1>2, <1>3, <1>4, <1>5, <1>6, <1>7, <1>8, <1>9 DEF Next

\* What is held of a stream, and how it may differ from what it took; the
\* claim of NothingLost, with LostKnown.
Held(s) == SentLen(wire, s) + buf[s].pending
Even(h, a, l) == h <= a /\ a <= h + Cap /\ (~l => h = a)
Balanced == \A s \in Stream : Even(Held(s), accepted[s], lost[s])

LEMMA Claim ==
  ASSUME LostKnown
  PROVE  NothingLost <=>
           (sock = "up" /\ phase \notin {"gone", "terminated"} => Balanced)
  BY DEF LostKnown, NothingLost, Balanced, Even, Held

\* And after a step.
LEMMA ClaimNext ==
  ASSUME LostKnown',
         sock' = "up" /\ phase' \notin {"gone", "terminated"} => Balanced'
  PROVE  NothingLost'
  BY DEF LostKnown, NothingLost, Balanced, Even, Held

\* Losing the buffer makes what is held less by what it held.
LEMMA LoseCount ==
  ASSUME TypeOK, LostKnown, Balanced, NEW s \in Stream, Lose(s),
         UNCHANGED accepted
  PROVE  Balanced'
  <1>1. /\ buf \in [Stream -> Buffer] /\ lost \in [Stream -> BOOLEAN]
        /\ accepted \in [Stream -> Nat] /\ wire \in Seq(Packet)
    BY DEF TypeOK, Buffer
  <1>2. /\ buf' = [buf EXCEPT ![s].pending = 0] /\ wire' = wire
        /\ lost' = [lost EXCEPT ![s] = TRUE] /\ buf[s].pending > 0
    BY DEF Lose
  <1>3. ASSUME NEW t \in Stream PROVE Even(Held(t), accepted[t], lost[t])'
    <2>1. CASE t # s
      <3>1. Held(t)' = Held(t) /\ lost'[t] = lost[t]
        BY <1>1, <1>2, <2>1 DEF Held
      <3>2. Even(Held(t), accepted[t], lost[t])
        BY DEF Balanced
      <3> QED BY <3>1, <3>2 DEF Even
    <2>2. CASE t = s
      <3>1. Held(s) = accepted[s]
        <4>1. ~lost[s]
          BY <1>2 DEF LostKnown
        <4> QED BY <4>1 DEF Balanced, Even
      <3>2. buf'[s].pending = 0 /\ lost'[s]
        BY <1>1, <1>2 DEF Buffer
      <3>3. SentLen(wire, s) \in Nat /\ buf[s].pending \in 0..Cap
        BY <1>1, CountedPackets DEF Buffer
      <3>4. Held(s)' = SentLen(wire, s)
        BY <1>2, <3>2, <3>3 DEF Held
      <3>5. /\ SentLen(wire, s) <= accepted[s]
            /\ accepted[s] <= SentLen(wire, s) + Cap
        BY <1>1, <3>1, <3>3, StreamsAssumption DEF Held
      <3> QED BY <2>2, <3>2, <3>4, <3>5 DEF Even
    <2> QED BY <2>1, <2>2
  <1> QED BY <1>3 DEF Balanced

\* Putting moves a character into the buffer, flushing moves the buffer to
\* the wire.
LEMMA OutputCount ==
  ASSUME TypeOK, LostKnown, Balanced, sock = "up", NEW s \in Stream,
         Put(s) \/ (Sync(s) /\ UNCHANGED accepted)
  PROVE  Balanced'
  <1> DEFINE d == Data(s)
             full == buf[s].pending = Cap
  <1>1. /\ wire \in Seq(Packet) /\ buf \in [Stream -> Buffer]
        /\ accepted \in [Stream -> Nat] /\ lost \in [Stream -> BOOLEAN]
        /\ wire \o <<>> = wire /\ Cap \in Nat \ {0}
    BY StreamsAssumption DEF TypeOK, Buffer
  <1>2. \A t \in Stream :
          /\ buf[t].pending \in Nat /\ SentLen(wire, t) \in Nat
          /\ SentLen(wire \o <<d>>, t)
               = SentLen(wire, t) + IF t = s THEN buf[s].pending ELSE 0
          /\ Even(Held(t), accepted[t], lost[t])
    BY <1>1, Fields, CountedPackets DEF Balanced
  <1> HIDE DEF d
  <1>3. CASE Lose(s) /\ UNCHANGED accepted
    BY <1>3, LoseCount
  <1>4. CASE Sync(s) /\ ~Lose(s) /\ UNCHANGED accepted
    <2>1. /\ wire' = IF buf[s].pending = 0 THEN wire ELSE wire \o <<d>>
          /\ buf' = [buf EXCEPT ![s].pending = 0,
                       ![s].send_eof = @ \/ buf[s].pending > 0]
          /\ UNCHANGED <<lost, accepted>>
      BY <1>1, <1>4 DEF Sync, Send, d
    <2>2. \A t \in Stream :
            buf'[t].pending = IF t = s THEN 0 ELSE buf[t].pending
      BY <1>1, <2>1 DEF Buffer
    <2>3. ASSUME NEW t \in Stream PROVE Held(t)' = Held(t)
      <3>1. SentLen(wire', t)
              = SentLen(wire, t) + IF t = s THEN buf[s].pending ELSE 0
        <4>1. CASE buf[s].pending = 0
          BY <1>2, <2>1, <4>1
        <4>2. CASE buf[s].pending # 0
          BY <1>2, <2>1, <4>2
        <4> QED BY <4>1, <4>2
      <3> QED BY <1>2, <2>2, <3>1 DEF Held
    <2> QED BY <1>2, <2>1, <2>3 DEF Balanced, Even
  <1>5. CASE Put(s) /\ ~(Lose(s) /\ UNCHANGED accepted)
    <2>1. /\ buf' = IF full THEN [buf EXCEPT ![s].pending = 1,
                                            ![s].send_eof = TRUE]
                   ELSE [buf EXCEPT ![s].pending = @ + 1]
          /\ wire' = IF full THEN wire \o <<d>> ELSE wire
          /\ accepted' = [accepted EXCEPT ![s] = @ + 1]
          /\ UNCHANGED lost
      BY <1>1, <1>5 DEF Put, Send, d
    <2>2. \A t \in Stream :
            /\ buf'[t].pending = IF t # s THEN buf[t].pending
                                 ELSE IF full THEN 1 ELSE buf[s].pending + 1
            /\ accepted'[t] = IF t = s THEN accepted[s] + 1 ELSE accepted[t]
      <3>1. CASE full
        BY <1>1, <2>1, <3>1 DEF Buffer
      <3>2. CASE ~full
        BY <1>1, <2>1, <3>2 DEF Buffer
      <3> QED BY <3>1, <3>2
    <2>3. ASSUME NEW t \in Stream PROVE Even(Held(t), accepted[t], lost[t])'
      <3>1. SentLen(wire', t)
              = SentLen(wire, t) + IF t = s /\ full THEN buf[s].pending ELSE 0
        <4>1. CASE full
          BY <1>2, <2>1, <4>1
        <4>2. CASE ~full
          BY <1>2, <2>1, <4>2
        <4> QED BY <4>1, <4>2
      <3>2. SentLen(wire, t) \in Nat /\ buf[t].pending \in Nat
        BY <1>2
      <3>3. CASE t = s
        <4>1. accepted[s] \in Nat /\ buf[s].pending \in Nat
          BY <1>1, <1>2
        <4>2. Held(s)' = Held(s) + 1
          <5>1. CASE full
            <6>1. SentLen(wire', s) = SentLen(wire, s) + buf[s].pending
              BY <3>1, <3>3, <5>1
            <6>2. buf'[s].pending = 1
              BY <2>2, <5>1
            <6> QED BY <3>2, <3>3, <4>1, <6>1, <6>2 DEF Held
          <5>2. CASE ~full
            <6>1. SentLen(wire', s) = SentLen(wire, s)
              BY <3>1, <3>2, <3>3, <5>2
            <6>2. buf'[s].pending = buf[s].pending + 1
              BY <2>2, <5>2
            <6> QED BY <3>2, <3>3, <4>1, <6>1, <6>2 DEF Held
          <5> QED BY <5>1, <5>2
        <4>3. Held(s) = accepted[s]
          <5>1. ~lost[s]
            BY <1>5 DEF Put, Good, LostKnown
          <5> QED BY <1>2, <5>1 DEF Even
        <4>4. accepted'[s] = accepted[s] + 1
          BY <2>2
        <4>5. Held(s)' = accepted'[s] /\ accepted'[s] \in Nat
          BY <4>1, <4>2, <4>3, <4>4
        <4> QED BY <1>1, <3>3, <4>5 DEF Even
      <3>4. CASE t # s
        <4>1. SentLen(wire', t) = SentLen(wire, t)
          BY <3>1, <3>2, <3>4
        <4>2. buf'[t].pending = buf[t].pending /\ accepted'[t] = accepted[t]
          BY <2>2, <3>4
        <4>3. Held(t)' = Held(t)
          BY <4>1, <4>2 DEF Held
        <4> QED BY <1>2, <2>1, <4>2, <4>3 DEF Even
      <3> QED BY <3>3, <3>4
    <2> QED BY <2>3 DEF Balanced
  <1> QED BY <1>3, <1>4, <1>5

\* Closing a stream sends what its buffer holds, or loses it.
LEMMA CloseCount ==
  ASSUME TypeOK, LostKnown, Balanced, sock = "up", NEW s \in Stream, NEW next,
         Close(s, next), phase' # "terminated"
  PROVE  Balanced'
  <1>1. CASE UNCHANGED <<wire, buf, accepted, lost>>
    BY <1>1 DEF Balanced, Even, Held
  <1>2. ASSUME NEW loses \in Losses(s), wire' = wire \o LastPackets(s, loses),
               buf' = [buf EXCEPT ![s] = Closed(s)], UNCHANGED accepted,
               lost' = [lost EXCEPT ![s] = @ \/ loses]
        PROVE  Balanced'
    <2>1. /\ wire \in Seq(Packet) /\ buf \in [Stream -> Buffer]
          /\ lost \in [Stream -> BOOLEAN] /\ accepted \in [Stream -> Nat]
          /\ loses \in BOOLEAN /\ (loses => buf[s].pending > 0)
      BY DEF TypeOK, Buffer, Losses
    <2>2. \A t \in Stream :
            /\ buf[t].pending \in 0..Cap /\ SentLen(wire, t) \in Nat
            /\ SentLen(wire', t) = SentLen(wire, t)
                 + IF t = s /\ ~loses THEN buf[s].pending ELSE 0
      <3>1. \A t \in Stream :
              buf[t].pending \in 0..Cap /\ SentLen(wire, t) \in Nat
        BY <2>1, CountedPackets DEF Buffer
      <3>2. ASSUME NEW t \in Stream
            PROVE  SentLen(wire', t) = SentLen(wire, t)
                     + IF t = s /\ ~loses THEN buf[s].pending ELSE 0
        BY <1>2, <2>1, CountedLast
      <3> QED BY <3>1, <3>2
    <2>3. \A t \in Stream :
            /\ buf'[t].pending = IF t = s THEN 0 ELSE buf[t].pending
            /\ lost'[t] = IF t = s THEN lost[s] \/ loses ELSE lost[t]
      BY <1>2, <2>1 DEF Closed, NewBuf
    <2>4. ASSUME NEW t \in Stream PROVE Even(Held(t), accepted[t], lost[t])'
      <3>1. Even(Held(t), accepted[t], lost[t]) /\ accepted'[t] = accepted[t]
        BY <1>2 DEF Balanced
      <3>2. /\ SentLen(wire, t) \in Nat /\ buf[t].pending \in 0..Cap
            /\ accepted[t] \in Nat /\ Cap \in Nat
        BY <2>1, <2>2, StreamsAssumption
      <3>3. CASE t # s
        <4>1. /\ SentLen(wire', t) = SentLen(wire, t)
              /\ buf'[t].pending = buf[t].pending /\ lost'[t] = lost[t]
          BY <2>2, <2>3, <3>2, <3>3
        <4>2. Held(t)' = Held(t)
          BY <4>1 DEF Held
        <4> QED BY <3>1, <4>1, <4>2 DEF Even
      <3>4. CASE t = s /\ ~loses
        <4>1. /\ SentLen(wire', t) = SentLen(wire, t) + buf[t].pending
              /\ buf'[t].pending = 0 /\ lost'[t] = lost[t]
          BY <2>1, <2>2, <2>3, <3>4
        <4>2. Held(t)' = Held(t)
          BY <3>2, <4>1 DEF Held
        <4> QED BY <3>1, <4>1, <4>2 DEF Even
      <3>5. CASE t = s /\ loses
        <4>1. /\ SentLen(wire', t) = SentLen(wire, t)
              /\ buf'[t].pending = 0 /\ lost'[t]
          <5>1. SentLen(wire', t) = SentLen(wire, t) + 0
            BY <2>2, <3>5
          <5>2. buf'[t].pending = 0 /\ lost'[t]
            BY <2>1, <2>3, <3>5
          <5> QED BY <3>2, <5>1, <5>2
        <4>2. ~lost[t]
          BY <2>1, <3>5 DEF LostKnown
        <4>3. Held(t)' = SentLen(wire, t)
          BY <3>2, <4>1 DEF Held
        <4>4. SentLen(wire, t) + buf[t].pending = accepted[t]
          BY <3>1, <4>2 DEF Even, Held
        <4>5. /\ SentLen(wire, t) <= accepted[t]
              /\ accepted[t] <= SentLen(wire, t) + Cap
          BY ONLY <3>2, <4>4
        <4> QED BY <3>1, <4>1, <4>3, <4>5 DEF Even
      <3> QED BY <2>1, <3>3, <3>4, <3>5
    <2> QED BY <2>4 DEF Balanced
  <1>3. CASE buf[s].attached
    <2>1. PICK loses \in Losses(s) :
            /\ Send(LastPackets(s, loses))
            /\ buf' = [buf EXCEPT ![s] = Closed(s)]
            /\ lost' = [lost EXCEPT ![s] = @ \/ loses]
            /\ UNCHANGED accepted
      BY <1>3 DEF Close, Terminate
    <2>2. wire' = wire \o LastPackets(s, loses)
      BY <2>1 DEF Send
    <2> QED BY <1>2, <2>1, <2>2
  <1> QED BY <1>1, <1>3 DEF Close

\* The end of a request has no characters, and the message of a cancelled
\* one has one.
LEMMA CancelCount ==
  ASSUME TypeOK, NEW loses \in BOOLEAN, NEW s \in Stream
  PROVE  SentLen(Cancelling(loses), s)
           = IF s = "err" /\ ~loses THEN 1 ELSE 0
  <1>1. /\ Message \in Packet /\ Eof("err") \in Packet
        /\ Eof("out") \in Packet /\ End \in Packet
    BY PacketTypes DEF Stream, Message
  <1>2. Ends \in Seq(Packet) /\ Silent(Ends, s)
    <2>1. /\ Chars(Eof("err"), s) = 0 /\ Chars(Eof("out"), s) = 0
          /\ Chars(End, s) = 0
      BY DEF Chars, Eof, End
    <2>2. /\ Ends \in Seq(Packet) /\ DOMAIN Ends = 1..3
          /\ Ends[1] = Eof("err") /\ Ends[2] = Eof("out") /\ Ends[3] = End
      BY <1>1 DEF Ends
    <2>3. \A i \in DOMAIN Ends : i = 1 \/ i = 2 \/ i = 3
      BY <2>2
    <2> QED BY <2>1, <2>2, <2>3 DEF Silent
  <1>3. CASE loses
    <2> DEFINE none == <<>>
    <2>1. none \in Seq(Packet) /\ none \o Ends = Ends
      BY <1>2
    <2>2. SentLen(none, s) = 0
      BY SentNone
    <2> HIDE DEF none
    <2>3. SentLen(none \o Ends, s) = SentLen(none, s)
      BY <1>2, <2>1, SilentSent
    <2>4. Cancelling(loses) = Ends
      BY <1>3 DEF Cancelling
    <2> QED BY <1>3, <2>1, <2>2, <2>3, <2>4
  <1>4. CASE ~loses
    <2> DEFINE m == Message
               one == <<m>>
               none == <<>>
    <2>1. /\ none \in Seq(Packet) /\ one \in Seq(Packet)
          /\ none \o <<m>> = one /\ m \in Packet
      BY <1>1
    <2>2. SentLen(none, s) = 0
      BY SentNone
    <2>3. Chars(m, s) = IF s = "err" THEN 1 ELSE 0
      BY DEF Message, Chars, Data
    <2> HIDE DEF none, m
    <2>4. SentLen(none \o <<m>>, s) = SentLen(none, s) + Chars(m, s)
      BY <2>1, SentMore
    <2> HIDE DEF one
    <2>5. SentLen(one \o Ends, s) = SentLen(one, s)
      BY <1>2, <2>1, SilentSent
    <2>6. Cancelling(loses) = one \o Ends
      BY <1>4 DEF Cancelling, one, m
    <2>7. SentLen(one, s) = 0 + Chars(m, s)
      <3>1. none \o <<m>> = one
        BY <2>1
      <3> QED BY <2>2, <2>4, <3>1
    <2>8. SentLen(one, s) = IF s = "err" THEN 1 ELSE 0
      BY ONLY <2>3, <2>7
    <2> QED BY ONLY <1>4, <2>5, <2>6, <2>8
  <1> QED BY <1>3, <1>4

\* A new request begins with nothing sent and nothing waiting; one that is
\* cancelled took one message and sent it, or lost it.
LEMMA ConnCount ==
  ASSUME StreamsIInv, BeginRequest \/ EndParams \/ CancelRequest \/ Destroy,
         sock' = "up", phase' \notin {"gone", "terminated"}
  PROVE  NothingWaits' /\ Balanced'
  <1>1. /\ TypeOK /\ NothingWaits /\ Control /\ sock = "up"
        /\ buf \in [Stream -> Buffer] /\ accepted \in [Stream -> Nat]
        /\ lost \in [Stream -> BOOLEAN]
        /\ "err" \in Stream /\ "out" \in Stream
        /\ phase \notin {"gone", "terminated"} => Balanced
    BY Claim DEF StreamsIInv, TypeOK, Buffer, Stream, BeginRequest, EndParams,
                 CancelRequest, Destroy, Terminate
  <1>2. CASE BeginRequest
    <2>1. /\ phase = "ready" /\ wire' = <<>>
          /\ accepted' = [s \in Stream |-> 0]
          /\ buf' = [s \in Stream |-> [buf[s] EXCEPT !.attached = TRUE,
                                                    !.send_eof = TRUE]]
      BY <1>2 DEF BeginRequest
    <2>2. \A s \in Stream :
            /\ buf'[s].pending = 0 /\ accepted'[s] = 0
            /\ SentLen(wire', s) = 0
      BY <1>1, <2>1, SentNone DEF NothingWaits, Buffer
    <2>3. \A s \in Stream : Even(Held(s), accepted[s], lost[s])'
      BY <2>2, StreamsAssumption DEF Even, Held
    <2> QED BY <2>2, <2>3 DEF NothingWaits, Balanced
  <1>3. CASE EndParams
    BY <1>1, <1>3 DEF EndParams, NothingWaits, Balanced, Even, Held
  <1>4. CASE CancelRequest
    <2>1. PICK loses \in BOOLEAN :
            \/ Terminate(Cancelling(loses))
            \/ /\ phase' = "ready"
               /\ Send(Cancelling(loses))
               /\ buf' = [s \in Stream |-> Closed(s)]
               /\ bad' = [s \in Stream |-> TRUE]
               /\ accepted' = [accepted EXCEPT !["err"] = @ + 1]
               /\ lost' = [lost EXCEPT !["err"] = loses]
               /\ UNCHANGED <<sock, puts, begins>>
      BY <1>1, <1>4, CancelIs
    <2> DEFINE v == Cancelling(loses)
    <2>2. /\ Send(v) /\ buf' = [s \in Stream |-> Closed(s)]
          /\ accepted' = [accepted EXCEPT !["err"] = @ + 1]
          /\ lost' = [lost EXCEPT !["err"] = loses]
      BY <2>1 DEF Terminate
    <2>3. /\ wire = <<>> /\ Balanced
          /\ \A s \in Stream : buf[s].pending = 0 /\ ~lost[s]
      BY <1>1, <1>4 DEF CancelRequest, Control, NothingWaits
    <2>4. \A s \in Stream : buf'[s].pending = 0
      BY <2>2 DEF Closed, NewBuf
    <2>5. wire' = v
      <3>1. v \in Seq(Packet)
        BY <1>1, CancellingType
      <3> HIDE DEF v
      <3> QED BY <1>1, <2>2, <2>3, <3>1 DEF Send
    <2>6. ASSUME NEW s \in Stream PROVE Even(Held(s), accepted[s], lost[s])'
      <3>1. accepted[s] = 0
        <4>1. SentLen(wire, s) = 0
          BY <2>3, SentNone
        <4>2. SentLen(wire, s) + buf[s].pending = accepted[s]
          BY <2>3 DEF Balanced, Even, Held
        <4> QED BY <2>3, <4>1, <4>2
      <3>2. SentLen(wire', s) = IF s = "err" /\ ~loses THEN 1 ELSE 0
        BY <1>1, <2>5, CancelCount
      <3>3. Held(s)' = IF s = "err" /\ ~loses THEN 1 ELSE 0
        BY <2>4, <3>2 DEF Held
      <3>4. /\ accepted'[s] = IF s = "err" THEN 1 ELSE 0
            /\ s = "err" => lost'[s] = loses
        <4>1. accepted'[s] = IF s = "err" THEN 1 ELSE 0
          BY <1>1, <2>2, <3>1
        <4>2. s = "err" => lost'[s] = loses
          BY <1>1, <2>2
        <4> QED BY <4>1, <4>2
      <3> QED BY <3>3, <3>4, StreamsAssumption DEF Even
    <2> QED BY <2>4, <2>6 DEF NothingWaits, Balanced
  <1>5. CASE Destroy
    BY <1>5 DEF Destroy, Terminate
  <1> QED BY <1>2, <1>3, <1>4, <1>5

\* The steps of a worker and of the socket.
LEMMA WorkerCount ==
  ASSUME StreamsIInv,
         \/ \E s \in Stream : AppPut(s) \/ AppFlush(s) \/ AppClose(s)
         \/ AppReturns \/ Report \/ FlushReport
         \/ CloseOut \/ CloseErr \/ SendEndRequest \/ SocketResets,
         sock' = "up", phase' \notin {"gone", "terminated"}
  PROVE  phase' \notin {"ready", "params"} /\ Balanced'
  <1>1. /\ sock = "up" /\ ~SocketResets
        /\ phase \notin {"gone", "terminated"}
        /\ phase' \notin {"ready", "params"}
    BY DEF AppPut, AppFlush, AppClose, AppReturns, Report, FlushReport,
           CloseOut, CloseErr, SendEndRequest, SocketResets, Close, Terminate
  <1>2. /\ TypeOK /\ LostKnown /\ wire \in Seq(Packet)
        /\ "err" \in Stream /\ "out" \in Stream /\ Balanced
    BY <1>1, Claim DEF StreamsIInv, TypeOK, Stream
  <1>3. ASSUME NEW s \in Stream, AppPut(s) \/ AppFlush(s) \/ AppClose(s)
        PROVE  Balanced'
    BY <1>1, <1>2, <1>3, OutputCount, CloseCount
    DEF AppPut, AppFlush, AppClose
  <1>4. ASSUME Report \/ FlushReport PROVE Balanced'
    BY <1>1, <1>2, <1>4, OutputCount DEF Report, FlushReport
  <1>5. ASSUME CloseOut \/ CloseErr PROVE Balanced'
    BY <1>1, <1>2, <1>5, CloseCount DEF CloseOut, CloseErr
  <1>6. ASSUME AppReturns PROVE Balanced'
    BY <1>2, <1>6 DEF Balanced, Even, Held, AppReturns
  <1>7. ASSUME SendEndRequest PROVE Balanced'
    <2>1. wire' = wire \o <<End>> /\ UNCHANGED <<buf, accepted, lost>>
      BY <1>1, <1>7 DEF SendEndRequest, Terminate, Send
    <2>2. \A s \in Stream : SentLen(wire \o <<End>>, s) = SentLen(wire, s)
      BY <1>2, CountedPackets
    <2>3. \A s \in Stream : Held(s)' = Held(s)
      BY <2>1, <2>2 DEF Held
    <2> QED BY <1>2, <2>1, <2>3 DEF Balanced, Even
  <1> QED BY <1>1, <1>3, <1>4, <1>5, <1>6, <1>7

\* The inductive step of the count.
LEMMA CountStep ==
  ASSUME StreamsIInv, [Next]_vars PROVE NothingWaits' /\ NothingLost'
  <1>1. LostKnown'
    BY LostStep
  <1>2. CASE UNCHANGED vars
    BY <1>2 DEF vars, StreamsIInv, NothingWaits, NothingLost
  <1>3. ASSUME Next, sock' = "up" /\ phase' \notin {"gone", "terminated"}
        PROVE  Balanced'
    BY <1>3, ConnCount, WorkerCount DEF Next
  <1>4. ASSUME Next PROVE NothingWaits'
    <2>1. CASE BeginRequest \/ CancelRequest
      <3>1. NothingWaits
        BY DEF StreamsIInv
      <3>2. CASE BeginRequest
        <4>1. buf \in [Stream -> Buffer] /\ phase = "ready"
              /\ buf' = [s \in Stream |-> [buf[s] EXCEPT !.attached = TRUE,
                                                        !.send_eof = TRUE]]
          BY <3>2 DEF BeginRequest, StreamsIInv, TypeOK, Buffer
        <4> QED BY <3>1, <4>1 DEF NothingWaits, Buffer
      <3>3. CASE CancelRequest
        BY <3>3 DEF CancelRequest, Terminate, NothingWaits, Closed, NewBuf
      <3> QED BY <2>1, <3>2, <3>3
    <2>2. CASE SocketResets
      BY <2>2 DEF SocketResets, StreamsIInv, NothingWaits
    <2>3. CASE ~(BeginRequest \/ CancelRequest \/ SocketResets)
      <3>1. phase' \notin {"ready", "params"}
        BY <1>4, <2>3
        DEF Next, EndParams, Destroy, AppPut, AppFlush, AppClose, AppReturns,
            Report, FlushReport, CloseOut, CloseErr, SendEndRequest, Close,
            Terminate
      <3> QED BY <3>1 DEF NothingWaits
    <2> QED BY <2>1, <2>2, <2>3
  <1> QED BY <1>1, <1>2, <1>3, <1>4, ClaimNext

-----------------------------------------------------------------------------
(* Nothing follows what was lost.                                          *)

\* Two lists of packets without characters of a stream.
LEMMA SilentJoin ==
  ASSUME NEW q \in Seq(Packet), NEW r \in Seq(Packet), NEW s,
         Silent(q, s), Silent(r, s)
  PROVE  Silent(q \o r, s)
  <1> DEFINE v == q \o r
  <1>1. /\ Len(q) \in Nat /\ Len(r) \in Nat /\ DOMAIN v = 1..(Len(q) + Len(r))
        /\ DOMAIN q = 1..Len(q) /\ DOMAIN r = 1..Len(r)
        /\ \A i \in 1..(Len(q) + Len(r)) :
             v[i] = IF i <= Len(q) THEN q[i] ELSE r[i - Len(q)]
    OBVIOUS
  <1> HIDE DEF v
  <1>2. ASSUME NEW i \in DOMAIN v PROVE Chars(v[i], s) = 0
    <2>1. CASE i <= Len(q)
      BY <1>1, <2>1 DEF Silent
    <2>2. CASE ~(i <= Len(q))
      <3>1. i - Len(q) \in DOMAIN r
        BY <1>1, <2>2
      <3> QED BY <1>1, <2>2, <3>1 DEF Silent
    <2> QED BY <2>1, <2>2
  <1>3. Silent(v, s)
    BY <1>2 DEF Silent
  <1> QED BY <1>3 DEF v

\* What a stream sends at its end has none of another, and none when its
\* buffer is empty.
LEMMA LastSilent ==
  ASSUME TypeOK, NEW s \in Stream, NEW t \in Stream, NEW loses,
         t # s \/ buf[t].pending = 0
  PROVE  Silent(LastPackets(t, loses), s)
  <1> DEFINE flushed == buf[t].pending > 0 /\ ~loses
             data == IF flushed THEN <<Data(t)>> ELSE <<>>
             eof == IF buf[t].send_eof \/ flushed THEN <<Eof(t)>> ELSE <<>>
  <1>1. data \in Seq(Packet) /\ eof \in Seq(Packet)
    BY PacketTypes, Lists
  <1>2. Silent(data, s)
    <2>1. flushed => Chars(Data(t), s) = 0
      BY DEF Chars, Data
    <2> QED BY <2>1 DEF Silent
  <1>3. Silent(eof, s)
    <2>1. Chars(Eof(t), s) = 0
      BY DEF Chars, Eof
    <2> QED BY <2>1 DEF Silent
  <1>4. LastPackets(t, loses) = data \o eof
    BY DEF LastPackets
  <1> HIDE DEF data, eof
  <1> QED BY <1>1, <1>2, <1>3, <1>4, SilentJoin

\* Sending such packets, or the process ending while it does, does not change
\* the count.
LEMMA QuietSend ==
  ASSUME TypeOK, NEW s \in Stream, NEW packets \in Seq(Packet),
         Silent(packets, s), Send(packets) \/ Terminate(packets)
  PROVE  SentLen(wire', s) = SentLen(wire, s)
  <1>1. wire \in Seq(Packet)
    BY DEF TypeOK
  <1>2. ASSUME NEW q \in Seq(Packet), Silent(q, s), Send(q)
        PROVE  SentLen(wire', s) = SentLen(wire, s)
    <2>1. SentLen(wire \o q, s) = SentLen(wire, s)
      BY <1>1, <1>2, SilentSent
    <2> QED BY <1>2, <2>1 DEF Send
  <1>3. CASE Terminate(packets)
    <2>1. PICK n \in 0 .. (Len(packets) - 1) : Send(SubSeq(packets, 1, n))
      BY <1>3 DEF Terminate
    <2> DEFINE q == SubSeq(packets, 1, n)
    <2>2. q \in Seq(Packet) /\ Silent(q, s) /\ Send(q)
      BY <2>1, SilentPart
    <2> HIDE DEF q
    <2> QED BY <1>2, <2>2
  <1> QED BY <1>2, <1>3

\* Writing to and flushing a stream.
LEMMA QuietOutput ==
  ASSUME TypeOK, LostKnown, NEW s \in Stream, lost[s], NEW t \in Stream,
         Put(t) \/ (Sync(t) /\ UNCHANGED accepted)
  PROVE  accepted'[s] = accepted[s] /\ SentLen(wire', s) = SentLen(wire, s)
  <1>1. /\ wire \in Seq(Packet) /\ accepted \in [Stream -> Nat]
        /\ buf[s].pending = 0 /\ (buf[s].attached => bad[s])
        /\ SentLen(wire, s) \in Nat
    BY CountedPackets DEF TypeOK, LostKnown
  <1>2. Put(t) => t # s
    BY <1>1 DEF Put, Good
  <1>3. accepted'[s] = accepted[s]
    BY <1>1, <1>2 DEF Put
  <1>4. wire' = wire \/ (wire' = wire \o <<Data(t)>> /\ t # s)
    <2> DEFINE d == Data(t)
    <2>1. wire \o <<>> = wire
      BY <1>1
    <2> HIDE DEF d
    <2>2. \/ wire' = wire
          \/ Send(<<>>)
          \/ Send(<<d>>) /\ t # s
      BY <1>1, <1>2 DEF Put, Sync, Lose, d
    <2>3. wire' = wire \/ (wire' = wire \o <<d>> /\ t # s)
      BY ONLY <2>1, <2>2 DEF Send
    <2> QED BY <2>3 DEF d
  <1>5. CASE wire' = wire
    BY <1>3, <1>5
  <1>6. CASE wire' = wire \o <<Data(t)>> /\ t # s
    <2>1. SentLen(wire \o <<Data(t)>>, s) = SentLen(wire, s) + 0
      BY <1>1, <1>6, CountedPackets
    <2> QED BY <1>1, <1>3, <1>6, <2>1
  <1> QED BY <1>4, <1>5, <1>6

\* Closing a stream.
LEMMA QuietClose ==
  ASSUME TypeOK, LostKnown, NEW s \in Stream, lost[s], NEW t \in Stream,
         NEW next, Close(t, next)
  PROVE  accepted'[s] = accepted[s] /\ SentLen(wire', s) = SentLen(wire, s)
  <1>1. CASE ~buf[t].attached
    <2>1. UNCHANGED <<wire, accepted>>
      BY <1>1 DEF Close
    <2> QED BY <2>1
  <1>2. CASE buf[t].attached
    <2>1. PICK loses \in Losses(t) :
            /\ \/ Terminate(LastPackets(t, loses))
               \/ Send(LastPackets(t, loses))
            /\ UNCHANGED accepted
      BY <1>2 DEF Close, Terminate
    <2> DEFINE packets == LastPackets(t, loses)
    <2>2. packets \in Seq(Packet) /\ Silent(packets, s)
      BY LastPacketsType, LastSilent DEF LostKnown
    <2> HIDE DEF packets
    <2>3. Send(packets) \/ Terminate(packets)
      BY <2>1 DEF packets
    <2> QED BY <2>1, <2>2, <2>3, QuietSend
  <1> QED BY <1>1, <1>2

\* The rest of the steps.
LEMMA QuietStep ==
  ASSUME StreamsIInv, [Next]_vars, NEW s \in Stream, lost[s], lost'[s]
  PROVE  accepted'[s] = accepted[s] /\ SentLen(wire', s) = SentLen(wire, s)
  <1>1. /\ TypeOK /\ LostKnown /\ Control /\ Buffers /\ NothingWaits
        /\ "err" \in Stream /\ "out" \in Stream
    BY DEF StreamsIInv, Stream
  <1>2. CASE UNCHANGED <<wire, accepted>>
    BY <1>2
  <1>3. ~BeginRequest /\ ~CancelRequest
    BY <1>1 DEF BeginRequest, CancelRequest, Control
  <1>4. ASSUME NEW t \in Stream, AppPut(t) \/ AppFlush(t)
        PROVE  accepted'[s] = accepted[s] /\ SentLen(wire', s) = SentLen(wire, s)
    BY <1>1, <1>4, QuietOutput DEF AppPut, AppFlush
  <1>5. CASE Report \/ FlushReport
    BY <1>1, <1>5, QuietOutput DEF Report, FlushReport
  <1>6. ASSUME NEW t \in Stream, AppClose(t)
        PROVE  accepted'[s] = accepted[s] /\ SentLen(wire', s) = SentLen(wire, s)
    BY <1>1, <1>6, QuietClose DEF AppClose
  <1>7. CASE CloseOut \/ CloseErr
    BY <1>1, <1>7, QuietClose DEF CloseOut, CloseErr
  <1>8. CASE SendEndRequest
    <2> DEFINE packets == <<End>>
    <2>1. packets \in Seq(Packet)
      BY <1>1, PacketTypes, Lists
    <2>2. Silent(packets, s)
      <3>1. Chars(End, s) = 0
        BY DEF Chars, End
      <3> QED BY <3>1 DEF Silent
    <2>3. UNCHANGED accepted /\ (Send(packets) \/ Terminate(packets))
      BY <1>8 DEF SendEndRequest, Terminate
    <2> HIDE DEF packets
    <2> QED BY <1>1, <2>1, <2>2, <2>3, QuietSend
  <1>9. CASE Destroy
    <2> DEFINE err == LastPackets("err", FALSE)
               out == LastPackets("out", FALSE)
               packets == err \o out
    <2>1. \A t \in Stream : buf[t].pending = 0
      BY <1>1, <1>9 DEF Destroy, NothingWaits, Control, Buffers, Stream
    <2>2. /\ err \in Seq(Packet) /\ out \in Seq(Packet)
          /\ Silent(err, s) /\ Silent(out, s)
      BY <1>1, <2>1, LastPacketsType, LastSilent
    <2>3. UNCHANGED accepted /\ (Send(packets) \/ Terminate(packets))
      BY <1>9 DEF Destroy, Terminate
    <2> HIDE DEF err, out
    <2>4. packets \in Seq(Packet) /\ Silent(packets, s)
      BY <2>2, SilentJoin
    <2> HIDE DEF packets
    <2> QED BY <1>1, <2>3, <2>4, QuietSend
  <1> QED
    BY <1>2, <1>3, <1>4, <1>5, <1>6, <1>7, <1>8, <1>9
    DEF Next, vars, EndParams, AppReturns, SocketResets

-----------------------------------------------------------------------------
(* The theorems.                                                           *)

\* The inductive step.
LEMMA OrderStep == StreamsIInv /\ [Next]_vars => StreamsIInv'
  <1> SUFFICES ASSUME StreamsIInv, [Next]_vars PROVE StreamsIInv'
    OBVIOUS
  <1>1. TypeOK'
    BY TypeStep DEF StreamsIInv
  <1>2. Order'
    <2>1. CASE UNCHANGED vars
      BY <2>1 DEF vars, StreamsIInv, Order, Buffers, Control, WireEnds,
                  EndOnce, InRequest
    <2>2. CASE Next
      BY <2>2, ConnOrder, OutputOrder, CloseOrder, OtherOrder
      DEF Next, CloseOut, CloseErr, Stream
    <2> QED BY <2>1, <2>2
  <1>3. NothingWaits' /\ NothingLost' /\ LostKnown'
    BY CountStep, LostStep
  <1> QED BY <1>1, <1>2, <1>3 DEF StreamsIInv, Order

\* It holds at the start.
LEMMA OrderInit == Init => StreamsIInv
  <1> SUFFICES ASSUME Init PROVE StreamsIInv
    OBVIOUS
  <1>1. TypeOK
    BY TypeInit
  <1>2. wire = <<>> /\ phase = "ready"
    BY DEF Init
  <1>3. \A s \in Stream : buf[s].attached
    BY DEF Init, NewBuf
  <1>4. /\ WellFormed(wire) /\ ~HasEnd(wire)
        /\ \A s \in Stream : ~StreamEnded(wire, s)
    BY ONLY <1>2 DEF WellFormed, Orderly, EndsLast, HasEnd, StreamEnded
  <1>5. Buffers /\ Control /\ WireEnds /\ EndOnce
    BY <1>2, <1>3, <1>4 DEF Buffers, Control, WireEnds, EndOnce, InRequest
  <1>6. NothingWaits /\ NothingLost /\ LostKnown
    <2>1. \A s \in Stream :
            buf[s].pending = 0 /\ accepted[s] = 0 /\ ~lost[s]
      BY DEF Init, NewBuf
    <2>2. \A s \in Stream : SentLen(wire, s) = 0
      BY <1>2, SentNone
    <2>3. Cap \in Nat
      BY StreamsAssumption
    <2> QED BY <2>1, <2>2, <2>3 DEF NothingWaits, NothingLost, LostKnown
  <1> QED BY <1>1, <1>4, <1>5, <1>6 DEF StreamsIInv

\* What the order of the packets and the count rest on: a stream is ended on
\* the wire exactly when its buffer was replaced, and one that lost a buffer
\* is written to no more (iostream.cpp:39-60, 75-83), whatever sends throw.
THEOREM OrderInductive == Spec => []StreamsIInv
  BY OrderInit, OrderStep, PTL DEF Spec

\* No packet of a stream follows its end: for any buffer size and any puts,
\* flushes, closes and failures (iostream.hpp:45-51).
THEOREM EofCorrect == Spec => []EofEndsStream
  <1>1. StreamsIInv => EofEndsStream
    BY Restated DEF StreamsIInv
  <1> QED BY <1>1, OrderInductive, PTL

\* END_REQUEST follows the ends of both streams and ends the response, on
\* the normal path and on the cancelling one (request-workers.cpp:93-97,
\* request.cpp:80-86).
THEOREM EndCorrect == Spec => []EndIsLast
  <1>1. StreamsIInv => EndIsLast
    BY Restated DEF StreamsIInv
  <1> QED BY <1>1, OrderInductive, PTL

\* Only a send that throws loses characters, for any buffer size and any
\* number of characters, flushes, closes and throws: at most the buffer it
\* was to send, after which the stream holds nothing and shows badbit while
\* it is open (iostream.cpp:39-60, 75-83).
THEOREM NothingLostCorrect == Spec => []NothingLost
  <1>1. StreamsIInv => NothingLost
    BY DEF StreamsIInv
  <1> QED BY <1>1, OrderInductive, PTL

\* Nothing of a stream follows what it lost until the next request, though
\* later sends succeed: what the peer reads of it is a beginning of what it
\* took (iostream.cpp:39-60).
THEOREM NothingAfterLossCorrect == Spec => NothingAfterLoss
  <1>1. ASSUME StreamsIInv, [Next]_vars
        PROVE  [\A s \in Stream : lost[s] /\ lost'[s] =>
                  /\ accepted'[s] = accepted[s]
                  /\ SentLen(wire', s) = SentLen(wire, s)]_vars
    BY <1>1, QuietStep
  <1> QED BY <1>1, OrderInductive, PTL DEF Spec, NothingAfterLoss
=============================================================================
