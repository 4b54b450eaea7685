------------------------ MODULE PacketReader_proofs ------------------------
(***************************************************************************)
(* AlignedUnlessEmpty and NeverOverreads for any sizes of headers, bodies, *)
(* contents and paddings.  The invariant relates, in each phase, what the  *)
(* program thinks is left of the record to what is left on the wire.       *)
(***************************************************************************)
EXTENDS PacketReader, TLAPS

\* What is on the wire behind the content the program knows of.
Behind == IF remaining > 0 \/ record.content = 0 THEN record.padding ELSE 0

InHeader == unread = need + record.content + record.padding
InHandler ==
    /\ remaining = record.content /\ padding = record.padding
    /\ unread = record.content + record.padding
InContent ==
    /\ padding = record.padding
    /\ asked \in 1..remaining /\ need <= asked
    /\ remaining <= record.content
    /\ unread = need + (remaining - asked) + record.padding
InPadding ==
    /\ padding = record.padding /\ remaining = 0
    /\ record.content > 0 /\ unread = need
InDestructor ==
    /\ padding = record.padding /\ remaining <= record.content
    /\ unread = remaining + Behind
InLoop == unread = 0 \/ EmptyPadded

\* A dead socket is not read any more, so nothing is claimed of it.
Accounted ==
    /\ phase = "header" => InHeader
    /\ phase = "handler" => InHandler
    /\ phase \in {"body", "skip"} => InContent
    /\ phase = "padding" => InPadding
    /\ phase = "destructor" => InDestructor
    /\ phase = "loop" => InLoop

\* asked \in 1..remaining keeps the subtraction of consume in Nat also when
\* the header never came whole.
Asked == phase \in {"body", "skip"} => asked \in 1..remaining

ReaderInv ==
    /\ TypeOK /\ Asked
    /\ dead => ~socket_insane
    /\ phase = "handler" => ~dead
    /\ ~dead => Accounted

-----------------------------------------------------------------------------
\* Content and padding of a record are numbers.
LEMMA RecordNat ==
  TypeOK => record.content \in Nat /\ record.padding \in Nat
  <1>1. Content \cup {0} \subseteq Nat /\ Padding \cup {0} \subseteq Nat
    BY PacketReaderAssumption
  <1>2. TypeOK => /\ record.content \in Content \cup {0}
                  /\ record.padding \in Padding \cup {0}
    BY DEF TypeOK
  <1> QED BY <1>1, <1>2

\* At first no record has been read.
LEMMA ReaderInit == Init => ReaderInv
  <1> SUFFICES ASSUME Init PROVE ReaderInv
    OBVIOUS
  <1>1. record \in [content : Content \cup {0}, padding : Padding \cup {0}]
    BY DEF Init
  <1>2. TypeOK
    BY <1>1 DEF Init, TypeOK, Phases
  <1> QED BY <1>2 DEF Init, ReaderInv, Asked, Accounted, InLoop

\* The invariant speaks of the variables only.
LEMMA ReaderStutter == ReaderInv /\ UNCHANGED vars => ReaderInv'
  BY DEF vars, ReaderInv, TypeOK, Asked, Accounted, InHeader, InHandler,
         InContent, InPadding, InDestructor, InLoop, Behind, EmptyPadded

\* Reading a header starts from the end of the last record, or gives up.
LEMMA ReadHeaderStep ==
  ASSUME ReaderInv, NEW r \in Record, ReadHeader(r)
  PROVE  ReaderInv'
  <1>1. r.content \in Content /\ r.padding \in Padding
        /\ r.content \in Nat /\ r.padding \in Nat
    BY PacketReaderAssumption DEF Record
  <1>2. TypeOK'
    BY <1>1, PacketReaderAssumption
    DEF ReaderInv, TypeOK, ReadHeader, Recv, Phases, Receiving, Record
  <1>3. phase' = "header" /\ InHeader'
    BY <1>1, PacketReaderAssumption DEF ReadHeader, Recv, InHeader
  <1> QED BY <1>2, <1>3 DEF ReaderInv, ReadHeader, Asked, Accounted

\* A read takes as many bytes from the wire as from the need.
LEMMA GotStep ==
  ASSUME ReaderInv, NEW n \in 1..need, Got(n)
  PROVE  ReaderInv'
  <1>1. /\ n \in Nat /\ n <= need /\ need' = need - n /\ unread' = unread - n
        /\ need \in Nat /\ unread \in Nat /\ ~dead /\ phase \in Receiving
        /\ asked \in Nat /\ remaining \in Nat
    BY DEF ReaderInv, TypeOK, Got
  <1>2. record.content \in Nat /\ record.padding \in Nat
    BY RecordNat DEF ReaderInv
  <1>3. need <= unread
    BY <1>1, <1>2
    DEF ReaderInv, Accounted, Receiving, InHeader, InContent, InPadding
  <1>4. TypeOK'
    BY <1>1, <1>3 DEF ReaderInv, TypeOK, Got
  <1>5. Accounted'
    BY <1>1, <1>2
    DEF ReaderInv, Accounted, Got, Receiving, InHeader, InContent, InPadding
  <1> QED BY <1>4, <1>5 DEF ReaderInv, Got, Asked

\* An interrupted read changes nothing but the flag.
LEMMA InterruptedStep == ReaderInv /\ Interrupted => ReaderInv'
  BY DEF Interrupted, Receiving, ReaderInv, TypeOK, Asked, Accounted,
         InHeader, InHandler, InContent, InPadding, InDestructor, InLoop,
         Behind, EmptyPadded

\* A failed read leaves a dead socket.
LEMMA FailStep == ReaderInv /\ Fail => ReaderInv'
  <1> SUFFICES ASSUME ReaderInv, Fail PROVE ReaderInv'
    OBVIOUS
  <1>1. Content \cup {0} \subseteq Nat /\ Padding \cup {0} \subseteq Nat
    BY PacketReaderAssumption
  <1>2. remaining' \in Nat /\ padding' \in Nat
    BY <1>1 DEF ReaderInv, TypeOK, Fail
  <1>3. TypeOK'
    BY <1>2 DEF ReaderInv, TypeOK, Fail
  <1> QED BY <1>3 DEF ReaderInv, Fail, Receiving, Asked

\* The header says what is on the wire behind it.
LEMMA HeaderReadStep == ReaderInv /\ HeaderRead => ReaderInv'
  <1> SUFFICES ASSUME ReaderInv, HeaderRead PROVE ReaderInv'
    OBVIOUS
  <1>1. record.content \in Nat /\ record.padding \in Nat
    BY RecordNat DEF ReaderInv
  <1>2. TypeOK' /\ Asked' /\ (dead => phase' = "destructor")
    BY <1>1 DEF ReaderInv, HeaderRead, TypeOK, Phases, Asked
  <1>3. ASSUME ~dead PROVE Accounted'
    BY <1>1, <1>3
    DEF ReaderInv, HeaderRead, Accounted, InHeader, InHandler, InDestructor,
        Behind
  <1> QED BY <1>2, <1>3 DEF ReaderInv, HeaderRead

\* A handler asks for no more than the record has.
LEMMA TakeStep ==
  ASSUME ReaderInv, TakeAll \/ TakeBegin \/ TakeNone \/ ThrowBegin
  PROVE  ReaderInv'
  <1> USE PacketReaderAssumption
  <1>1. /\ record.content \in Nat /\ record.padding \in Nat
        /\ remaining \in Nat
    BY RecordNat DEF ReaderInv, TypeOK
  <1>2. InHandler /\ ~dead /\ phase = "handler"
    BY DEF ReaderInv, Accounted, TakeAll, TakeBegin, TakeNone, ThrowBegin
  <1>3. UNCHANGED <<socket_insane, remaining, padding, record, unread, dead>>
    BY DEF TakeAll, TakeBegin, TakeNone, ThrowBegin
  <1>4. \/ /\ phase' = "body" /\ need' = asked'
           /\ asked' \in Nat /\ asked' \in 1..remaining
        \/ phase' \in {"destructor", "terminated"} /\ UNCHANGED <<need, asked>>
    BY <1>1 DEF TakeAll, TakeBegin, TakeNone, ThrowBegin, Take, Recv
  <1>5. TypeOK'
    BY <1>3, <1>4
    DEF ReaderInv, TypeOK, Phases, Receiving, TakeAll, TakeBegin, TakeNone,
        ThrowBegin
  <1>6. CASE phase' = "body"
    BY <1>1, <1>2, <1>3, <1>4, <1>5, <1>6
    DEF ReaderInv, Asked, Accounted, InHandler, InContent
  <1>7. CASE phase' \in {"destructor", "terminated"}
    BY <1>1, <1>2, <1>3, <1>5, <1>7
    DEF ReaderInv, Asked, Accounted, InHandler, InDestructor, Behind
  <1> QED BY <1>4, <1>6, <1>7

\* Padding is read exactly when the content was.
LEMMA ConsumeStep == ReaderInv /\ Consume => ReaderInv'
  <1> SUFFICES ASSUME ReaderInv, Consume PROVE ReaderInv'
    OBVIOUS
  <1>1. /\ record.content \in Nat /\ record.padding \in Nat
        /\ remaining \in Nat /\ asked \in 1..remaining /\ padding \in Nat
        /\ need = 0 /\ unread \in Nat
    BY RecordNat DEF ReaderInv, TypeOK, Asked, Consume
  <1>2. remaining' = remaining - asked /\ remaining' \in Nat
    BY <1>1 DEF Consume
  <1>3. \/ phase' = "padding" /\ need' = padding /\ remaining' = 0
        \/ /\ phase' = "destructor"
           /\ UNCHANGED need
           /\ remaining' > 0 \/ padding = 0
    BY <1>1, <1>2 DEF Consume, Recv
  <1>4. TypeOK'
    BY <1>1, <1>2 DEF ReaderInv, TypeOK, Phases, Receiving, Consume, Recv
  <1>5. ASSUME ~dead PROVE Accounted'
    <2>1. /\ padding = record.padding /\ unread = remaining' + record.padding
          /\ remaining <= record.content
      BY <1>1, <1>2, <1>5 DEF ReaderInv, Accounted, InContent, Consume
    <2>2. CASE phase' = "padding"
      BY <1>1, <1>3, <2>1, <2>2 DEF Accounted, InPadding, Consume
    <2>3. CASE phase' = "destructor"
      BY <1>1, <1>2, <1>3, <2>1, <2>3
      DEF Accounted, InDestructor, Behind, Consume
    <2> QED BY <1>3, <2>2, <2>3
  <1> QED BY <1>3, <1>4, <1>5 DEF ReaderInv, Consume, Asked

\* After the padding nothing is left; after the destructor neither, but for
\* the padding of an empty record.
LEMMA EndStep ==
  ASSUME ReaderInv, PaddingRead \/ Destroy \/ LeaveLoop
  PROVE  ReaderInv'
  <1>1. /\ record.content \in Nat /\ record.padding \in Nat
        /\ remaining \in Nat /\ unread \in Nat
    BY RecordNat DEF ReaderInv, TypeOK
  <1>2. CASE PaddingRead
    BY <1>1, <1>2
    DEF ReaderInv, TypeOK, Phases, Receiving, Asked, PaddingRead, Accounted,
        InPadding, InDestructor, Behind
  <1>3. CASE Destroy /\ remaining = 0
    BY <1>1, <1>3
    DEF ReaderInv, TypeOK, Phases, Asked, Destroy, Accounted, InDestructor,
        InLoop, Behind, EmptyPadded
  <1>4. CASE Destroy /\ remaining # 0
    BY <1>1, <1>4
    DEF ReaderInv, TypeOK, Phases, Receiving, Asked, Destroy, Recv,
        Accounted, InDestructor, InContent, Behind
  <1>5. CASE LeaveLoop
    BY <1>5 DEF ReaderInv, TypeOK, Phases, Asked, LeaveLoop, Accounted
  <1> QED BY <1>2, <1>3, <1>4, <1>5

\* What the program thinks is left of a record is what is left of it on the
\* wire, in every phase (ipacket.cpp:17-64).
THEOREM ReaderCorrect == Spec => []ReaderInv
  <1>1. ReaderInv /\ [Next]_vars => ReaderInv'
    BY ReadHeaderStep, GotStep, InterruptedStep, FailStep, HeaderReadStep,
       TakeStep, ConsumeStep, EndStep, ReaderStutter
    DEF Next, ReaderStep
  <1> QED BY ReaderInit, <1>1, PTL DEF Spec

\* The reader goes on to the next record from the end of the last one,
\* unless that one had padding and no content (ipacket.cpp:47-51).
THEOREM AlignedCorrect == Spec => []AlignedUnlessEmpty
  <1>1. ReaderInv => AlignedUnlessEmpty
    BY DEF ReaderInv, Accounted, InLoop, AlignedUnlessEmpty, Aligned
  <1> QED BY <1>1, ReaderCorrect, PTL

\* No read waits for bytes behind the record being read.
THEOREM WithinRecord == Spec => []NeverOverreads
  <1>1. ReaderInv => NeverOverreads
    <2> SUFFICES ASSUME ReaderInv, phase \in Receiving, ~dead
                 PROVE  need <= unread
      BY DEF NeverOverreads
    <2>1. /\ record.content \in Nat /\ record.padding \in Nat
          /\ need \in Nat /\ remaining \in Nat
      BY RecordNat DEF ReaderInv, TypeOK
    <2> QED
      BY <2>1
      DEF ReaderInv, Accounted, Receiving, InHeader, InContent, InPadding
  <1> QED BY <1>1, ReaderCorrect, PTL

\* The counters stay numbers: nothing is subtracted below zero, whatever a
\* header that never came whole left in them.
THEOREM TypeCorrect == Spec => []TypeOK
  <1>1. ReaderInv => TypeOK
    BY DEF ReaderInv
  <1> QED BY <1>1, ReaderCorrect, PTL
=============================================================================
