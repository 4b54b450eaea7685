-------------------------- MODULE SendPacket_proofs --------------------------
(***************************************************************************)
(* FramingUnlessTorn for any threads, packet lengths and partial sends, on *)
(* hosts where a pointer is as long as a Header (connection.hpp:106).      *)
(***************************************************************************)
EXTENDS SendPacket, TLAPS

\* out_mutex excludes: its holder is the only thread inside the loop.
Exclusion ==
    sending = IF out_mutex = NoThread THEN {} ELSE {out_mutex}

\* Where the wire stands, as long as the socket works: at the end of a
\* packet, or inside the one being sent.
AtBoundary == out # <<>> => out[Len(out)].pos = out[Len(out)].declared
Inside(t) == out # <<>> /\ out[Len(out)] = ByteAt(t, packet[t].sent)
Position ==
    /\ \A t \in sending : packet[t].size = packet[t].declared
    /\ ~torn /\ sock = "up" =>
         /\ sending = {} => AtBoundary
         /\ \A t \in sending :
              IF packet[t].sent = 0 THEN AtBoundary ELSE Inside(t)

FramingInv == TypeOK /\ Exclusion /\ Position /\ FramingUnlessTorn

-----------------------------------------------------------------------------
\* Nothing is sent at first.
LEMMA FramingInit == Init => FramingInv
  <1> SUFFICES ASSUME Init PROVE FramingInv
    OBVIOUS
  <1> USE SendPacketAssumption DEF Init
  <1>1. NoPacket \in Packet /\ NoPacket.sent <= NoPacket.size
    BY DEF Packet, NoPacket
  <1>2. TypeOK
    <2>1. packet \in [Thread -> Packet]
          /\ \A t \in Thread : packet[t].sent <= packet[t].size
      BY <1>1
    <2>2. out \in Seq(Byte)
      OBVIOUS
    <2>3. serial \in 0..MaxPackets
      OBVIOUS
    <2>4. /\ out_mutex \in Thread \cup {NoThread} /\ sending \subseteq Thread
          /\ sock \in {"up", "reset"} /\ torn \in BOOLEAN
      OBVIOUS
    <2> HIDE DEF Init
    <2> QED BY ONLY <2>1, <2>2, <2>3, <2>4 DEF TypeOK
  <1>3. Exclusion /\ Position
    BY DEF Exclusion, Position, AtBoundary
  <1>4. FramingUnlessTorn
    BY DEF FramingUnlessTorn, Framing
  <1> QED BY <1>2, <1>3, <1>4 DEF FramingInv

\* Both wrappers send exactly the declared length when sizeof agrees.
LEMMA SizesType ==
  ASSUME NEW len \in Content, NEW size \in Sizes(len)
  PROVE  /\ size \in Nat \ {0} /\ HeaderSize + len \in Nat \ {0}
         /\ PointerSize = HeaderSize => size = HeaderSize + len
  BY SendPacketAssumption DEF Sizes

\* A packet is begun only where the last one ended.
LEMMA LockStep ==
  ASSUME FramingInv, PointerSize = HeaderSize, NEW t \in Thread,
         NEW len \in Content, NEW size \in Sizes(len), Lock(t, len, size)
  PROVE  FramingInv'
  <1> USE SizesType, SendPacketAssumption DEF FramingInv
  <1>1. TypeOK'
    BY DEF Lock, TypeOK, Packet
  <1>2. Exclusion'
    BY DEF Lock, TypeOK, Exclusion
  <1>3. FramingUnlessTorn'
    BY DEF Lock, FramingUnlessTorn, Framing
  <1>4. sending' = {t} /\ packet'[t].sent = 0 /\ sending = {}
        /\ packet'[t].size = packet'[t].declared
    BY DEF Lock, TypeOK, Exclusion
  <1>5. Position'
    BY <1>4 DEF Lock, Position, AtBoundary
  <1> QED BY <1>1, <1>2, <1>3, <1>5

\* A partial send continues the packet on the wire.
LEMMA SendStep ==
  ASSUME FramingInv, NEW t \in Thread, NEW n \in Nat, SendSome(t, n)
  PROVE  FramingInv'
  <1> DEFINE p == packet[t]
             s == [k \in 1..n |-> ByteAt(t, p.sent + k)]
             L == Len(out)
  <1>0. /\ p \in Packet /\ p.sent + n <= p.size /\ n >= 1
        /\ p.sent \in Nat /\ p.size \in Nat \ {0}
        /\ p.declared \in Nat \ {0} /\ p.serial \in Nat
    BY DEF SendSome, FramingInv, TypeOK, Packet
  <1>1. s \in Seq(Byte) /\ Len(s) = n
    <2>1. \A k \in 1..n : ByteAt(t, p.sent + k) \in Byte
      BY <1>0 DEF ByteAt, Byte
    <2>2. s \in [1..n -> Byte]
      BY <2>1
    <2> QED BY <2>2
  <1>2. /\ out \in Seq(Byte) /\ L \in Nat /\ out' = out \o s
        /\ out' \in Seq(Byte) /\ Len(out') = L + n
        /\ \A k \in 1..L : out'[k] = out[k]
        /\ \A k \in 1..n : out'[L + k] = ByteAt(t, p.sent + k)
    BY <1>1 DEF SendSome, FramingInv, TypeOK
  <1>4. sending = {t} /\ sending' = {t} /\ Exclusion'
    BY DEF SendSome, FramingInv, Exclusion
  <1>5. p.size = p.declared
    BY <1>4 DEF FramingInv, Position
  <1>6. /\ packet' = [packet EXCEPT ![t] = [p EXCEPT !.sent = p.sent + n]]
        /\ packet \in [Thread -> Packet]
    BY DEF SendSome, FramingInv, TypeOK
  <1>9. /\ packet'[t].sent = p.sent + n /\ packet'[t].size = p.size
        /\ packet'[t].declared = p.declared /\ packet'[t].serial = p.serial
        /\ packet'[t] \in Packet
    BY <1>0, <1>6 DEF Packet
  <1>3. TypeOK'
    <2>1. packet' \in [Thread -> Packet]
          /\ \A u \in Thread : packet'[u].sent <= packet'[u].size
      BY <1>0, <1>6, <1>9 DEF FramingInv, TypeOK
    <2> QED BY <1>2, <2>1 DEF SendSome, FramingInv, TypeOK
  <1>7. Position'
    <2>1. out' # <<>>
      <3>1. Len(out') # 0
        BY <1>0, <1>2
      <3> QED BY <3>1
    <2>2. out'[Len(out')] = ByteAt(t, p.sent + n)
      BY <1>0, <1>2
    <2>3. ByteAt(t, packet[t].sent)' = ByteAt(t, p.sent + n)
      BY <1>9 DEF ByteAt
    <2>4. Inside(t)'
      BY <2>1, <2>2, <2>3 DEF Inside
    <2>5. packet'[t].sent # 0 /\ packet'[t].size = packet'[t].declared
      BY <1>0, <1>5, <1>9
    <2> QED BY <1>4, <2>4, <2>5 DEF Position
  <1>8. FramingUnlessTorn'
    <2> SUFFICES ASSUME ~torn, NEW k \in DOMAIN out'
                 PROVE  \/ /\ out'[k].pos = 1
                           /\ k > 1 => out'[k - 1].pos = out'[k - 1].declared
                        \/ /\ k > 1
                           /\ out'[k].serial = out'[k - 1].serial
                           /\ out'[k].pos = out'[k - 1].pos + 1
                           /\ out'[k].pos <= out'[k].declared
      BY DEF FramingUnlessTorn, Framing, SendSome
    <2>0. k \in 1..(L + n) /\ DOMAIN out = 1..L
      BY <1>2
    <2>1. CASE k \in 1..L
      BY <1>2, <2>0, <2>1 DEF FramingInv, FramingUnlessTorn, Framing
    <2>2. CASE k = L + 1 /\ p.sent = 0
      <3>1. AtBoundary
        BY <1>4, <2>2 DEF FramingInv, Position, SendSome
      <3>2. out'[k].pos = 1
        BY <1>0, <1>2, <2>2 DEF ByteAt
      <3> QED BY <1>2, <2>2, <3>1, <3>2 DEF AtBoundary
    <2>3. CASE k = L + 1 /\ p.sent # 0
      <3>1. Inside(t)
        BY <1>4, <2>3 DEF FramingInv, Position, SendSome
      <3> QED BY <1>0, <1>2, <1>5, <2>3, <3>1 DEF Inside, ByteAt
    <2>4. CASE k > L + 1
      <3>1. PICK j \in 2..n : k = L + j
        <4>1. k - L \in 2..n /\ k = L + (k - L)
          BY <1>0, <1>2, <2>0, <2>4
        <4> QED BY <4>1
      <3>2. j \in 1..n /\ j - 1 \in 1..n /\ k - 1 = L + (j - 1)
        BY <1>0, <1>2, <3>1
      <3>3. out'[k] = ByteAt(t, p.sent + j)
            /\ out'[k - 1] = ByteAt(t, p.sent + (j - 1))
        BY <1>2, <3>1, <3>2
      <3>4. p.sent + j = (p.sent + (j - 1)) + 1 /\ p.sent + j <= p.declared
        <4>1. /\ p.sent \in Nat /\ p.size \in Nat /\ p.declared \in Nat
              /\ n \in 1..(p.size - p.sent) /\ p.size <= p.declared
          BY <1>0, <1>5
        <4> HIDE DEF p
        <4> QED BY ONLY <3>1, <4>1
      <3>5. k > 1
        BY <1>2, <2>4
      <3> QED BY <3>3, <3>4, <3>5 DEF ByteAt
    <2>5. k \in 1..L \/ k = L + 1 \/ k > L + 1
      BY <1>0, <1>2, <2>0
    <2> QED BY <2>1, <2>2, <2>3, <2>4, <2>5
  <1> QED BY <1>3, <1>4, <1>7, <1>8 DEF FramingInv

\* The mutex is released at the end of a packet, or the packet is lost.
LEMMA LeaveStep ==
  ASSUME FramingInv, NEW t \in Thread, Unlock(t) \/ Throw(t)
  PROVE  FramingInv'
  <1> USE DEF FramingInv, Leave
  <1>1. TypeOK' /\ Exclusion' /\ sending = {t} /\ sending' = {}
    BY DEF Unlock, Throw, TypeOK, Exclusion
  <1>2. FramingUnlessTorn'
    BY DEF Unlock, Throw, FramingUnlessTorn, Framing
  <1>3. ASSUME ~torn', sock' = "up" PROVE AtBoundary'
    <2>1. CASE packet[t].sent = 0
      BY <1>1, <1>3, <2>1 DEF Unlock, Throw, Position, AtBoundary
    <2>2. CASE packet[t].sent # 0
      <3>1. Unlock(t) /\ Finished(t)
        <4>1. packet[t].sent > 0
          BY <2>2 DEF TypeOK, Packet
        <4> QED BY <1>3, <4>1 DEF Unlock, Throw
      <3>2. Inside(t) /\ packet[t].sent = packet[t].declared
        BY <1>1, <1>3, <2>2, <3>1 DEF Unlock, Position, Finished
      <3> QED BY <3>1, <3>2 DEF Unlock, Inside, AtBoundary, ByteAt
    <2> QED BY <2>1, <2>2
  <1>4. Position'
    BY <1>1, <1>3 DEF Position
  <1> QED BY <1>1, <1>2, <1>4

\* Nothing is written after a reset.
LEMMA ResetStep == FramingInv /\ Reset => FramingInv'
  BY DEF Reset, FramingInv, TypeOK, Exclusion, Position, FramingUnlessTorn,
         Framing

\* Whatever the threads and the lengths of partial sends, packets reach the
\* socket whole and one after the other (connection.cpp:51-70) until an
\* error other than EPIPE and ECONNRESET cuts one.
THEOREM FramingCorrect ==
  ASSUME PointerSize = HeaderSize
  PROVE  Spec => []FramingUnlessTorn
  <1>1. FramingInv /\ [Next]_vars => FramingInv'
    <2> SUFFICES ASSUME FramingInv, [Next]_vars PROVE FramingInv'
      OBVIOUS
    <2>1. ASSUME NEW t \in Thread, NEW n \in 1..packet[t].size, SendSome(t, n)
          PROVE  FramingInv'
      <3>1. n \in Nat
        BY <2>1 DEF FramingInv, TypeOK, Packet
      <3> QED BY <2>1, <3>1, SendStep
    <2>2. CASE UNCHANGED vars
      BY <2>2
      DEF vars, FramingInv, TypeOK, Exclusion, Position, FramingUnlessTorn,
          Framing, AtBoundary, Inside, ByteAt
    <2> QED
      BY <2>1, <2>2, LockStep, LeaveStep, ResetStep DEF Next
  <1>2. FramingInv => FramingUnlessTorn
    BY DEF FramingInv
  <1> QED
    BY FramingInit, <1>1, <1>2, PTL DEF Spec

\* A partial send moves sent within the packet.
LEMMA SendType ==
  ASSUME TypeOK, NEW t \in Thread, NEW n \in Nat, SendSome(t, n)
  PROVE  TypeOK'
  <1> DEFINE p == packet[t]
             s == [k \in 1..n |-> ByteAt(t, p.sent + k)]
  <1>1. /\ p \in Packet /\ p.sent + n <= p.size
        /\ p.sent \in Nat /\ p.size \in Nat \ {0}
        /\ p.declared \in Nat \ {0} /\ p.serial \in Nat
    BY DEF SendSome, TypeOK, Packet
  <1>2. s \in Seq(Byte)
    <2>1. \A k \in 1..n : ByteAt(t, p.sent + k) \in Byte
      BY <1>1 DEF ByteAt, Byte
    <2> QED BY <2>1
  <1>3. out' \in Seq(Byte)
    BY <1>2 DEF SendSome, TypeOK
  <1>4. packet' = [packet EXCEPT ![t] = [p EXCEPT !.sent = p.sent + n]]
    BY DEF SendSome, TypeOK
  <1>5. [p EXCEPT !.sent = p.sent + n] \in Packet
    BY <1>1 DEF Packet
  <1>6. packet' \in [Thread -> Packet]
        /\ \A u \in Thread : packet'[u].sent <= packet'[u].size
    BY <1>1, <1>4, <1>5 DEF TypeOK
  <1> QED BY <1>3, <1>6 DEF SendSome, TypeOK

\* No partial send runs past its packet, also where the two wrappers
\* disagree on its size (connection.cpp:53-58).
THEOREM TypeCorrect == Spec => []TypeOK
  <1>1. Init => TypeOK
    BY FramingInit DEF FramingInv
  <1>2. TypeOK /\ [Next]_vars => TypeOK'
    <2> SUFFICES ASSUME TypeOK, [Next]_vars PROVE TypeOK'
      OBVIOUS
    <2>1. ASSUME NEW t \in Thread, NEW len \in Content,
                 NEW size \in Sizes(len), Lock(t, len, size)
          PROVE  TypeOK'
      BY <2>1, SizesType, SendPacketAssumption DEF Lock, TypeOK, Packet
    <2>2. ASSUME NEW t \in Thread, NEW n \in 1..packet[t].size,
                 SendSome(t, n)
          PROVE  TypeOK'
      <3>1. n \in Nat
        BY <2>2 DEF TypeOK, Packet
      <3> QED BY <2>2, <3>1, SendType
    <2>3. ASSUME NEW t \in Thread, Unlock(t) \/ Throw(t) PROVE TypeOK'
      BY <2>3 DEF Unlock, Throw, Leave, TypeOK
    <2>4. CASE Reset
      BY <2>4 DEF Reset, TypeOK
    <2>5. CASE UNCHANGED vars
      BY <2>5 DEF vars, TypeOK
    <2> QED BY <2>1, <2>2, <2>3, <2>4, <2>5 DEF Next
  <1> QED BY <1>1, <1>2, PTL DEF Spec
=============================================================================
