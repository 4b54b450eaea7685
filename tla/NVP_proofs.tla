------------------------------ MODULE NVP_proofs -------------------------------
(***************************************************************************)
(* The name-value pair parser and serializer of NVP.tla: their types, and  *)
(* what the parser makes of the pairs the serializer writes.  They hold    *)
(* for any size of a byte, either byte order and any limit.                *)
(***************************************************************************)
EXTENDS NVP, Iteration_proofs

-----------------------------------------------------------------------------
(* Numbers and bytes.                                                      *)

\* What the assumptions say of the constants.
LEMMA Bytes ==
  /\ Radix \in Nat /\ TopBit \in Nat /\ Radix = 2 * TopBit /\ TopBit > 1
  /\ Word \in Nat /\ Radix <= Word /\ Limit \in Nat
  /\ 0 \in Byte /\ Byte \subseteq Nat
  <1>1. Radix \in Nat /\ Radix % 2 = 0 /\ Radix > 2 /\ Limit \in Nat
    BY NVPAssumption
  <1>2. TopBit \in Nat /\ Radix = 2 * TopBit /\ TopBit > 1
    BY <1>1 DEF TopBit
  <1>3. Word \in Nat /\ Radix <= Word
    BY <1>1 DEF Word
  <1> QED BY <1>1, <1>2, <1>3 DEF Byte

\* A remainder is below its divisor, and is what is below it already.
LEMMA Remainders ==
  ASSUME NEW m \in Nat, m > 0, NEW n \in Nat
  PROVE  n % m \in 0..(m - 1) /\ n \div m \in Nat /\ (n < m => n % m = n)
  OBVIOUS

-----------------------------------------------------------------------------
(* The serializer.                                                         *)

\* A size takes one byte or four.
LEMMA SizeBytesType ==
  ASSUME NEW n \in Nat
  PROVE  /\ SizeBytes(n) \in Seq(Byte)
         /\ n < TopBit => Len(SizeBytes(n)) = 1 /\ SizeBytes(n)[1] = n
         /\ n >= TopBit => Len(SizeBytes(n)) = 4
  <1>1. CASE n < TopBit
    BY <1>1, Bytes DEF SizeBytes, Byte
  <1>2. CASE n >= TopBit
    <2> DEFINE R3 == Radix * Radix * Radix
               R2 == Radix * Radix
    <2>1. R3 \in Nat /\ R3 > 0 /\ R2 \in Nat /\ R2 > 0 /\ Radix > 0
      BY Bytes
    <2> HIDE DEF R3, R2
    <2>2. n \div R3 \in Nat /\ n \div R2 \in Nat /\ n \div Radix \in Nat
      BY <2>1, Bytes, Remainders
    <2>3. /\ (n \div R3) % TopBit \in 0..(TopBit - 1)
          /\ (n \div R2) % Radix \in Byte /\ (n \div Radix) % Radix \in Byte
          /\ n % Radix \in Byte
      BY <2>1, <2>2, Bytes, Remainders DEF Byte
    <2>4. TopBit + ((n \div R3) % TopBit) \in Byte
      BY <2>3, Bytes DEF Byte
    <2>5. SizeBytes(n) = <<TopBit + ((n \div R3) % TopBit), (n \div R2) % Radix,
                           (n \div Radix) % Radix, n % Radix>>
      BY <1>2, Bytes DEF SizeBytes, R3, R2
    <2> QED BY <1>2, <2>3, <2>4, <2>5, Bytes
  <1> QED BY <1>1, <1>2, Bytes

\* Lists put together.
LEMMA Joined ==
  ASSUME NEW T, NEW a \in Seq(T), NEW b \in Seq(T)
  PROVE  /\ a \o b \in Seq(T) /\ Len(a) \in Nat /\ Len(b) \in Nat
         /\ Len(a \o b) = Len(a) + Len(b)
  OBVIOUS

\* What is found again in two lists put together.
LEMMA Prefixed ==
  ASSUME NEW T, NEW a \in Seq(T), NEW b \in Seq(T)
  PROVE  /\ SubSeq(a \o b, 1, Len(a)) = a
         /\ SubSeq(a \o b, Len(a) + 1, Len(a \o b)) = b
         /\ Len(a) > 0 => (a \o b)[1] = a[1]
  OBVIOUS

\* The four parts of a pair.
LEMMA Parts ==
  ASSUME NEW p \in Pair
  PROVE  LET a == SizeBytes(Len(p.name))
             b == SizeBytes(Len(p.value))
         IN  /\ a \in Seq(Byte) /\ Len(a) > 0 /\ b \in Seq(Byte) /\ Len(b) > 0
             /\ p.name \in Seq(Byte) /\ p.value \in Seq(Byte)
             /\ Serialize(p) = a \o (b \o (p.name \o p.value))
  <1> DEFINE a == SizeBytes(Len(p.name))
             b == SizeBytes(Len(p.value))
             n == p.name
             v == p.value
  <1>1. n \in Seq(Byte) /\ v \in Seq(Byte)
    BY DEF Pair
  <1>2. Len(n) \in Nat /\ Len(v) \in Nat
    BY <1>1
  <1>3. \A k \in Nat : SizeBytes(k) \in Seq(Byte) /\ Len(SizeBytes(k)) > 0
    <2>1. \A k \in Nat : k < TopBit \/ k >= TopBit
      BY Bytes
    <2> QED BY <2>1, SizeBytesType
  <1>4. a \in Seq(Byte) /\ Len(a) > 0 /\ b \in Seq(Byte) /\ Len(b) > 0
    BY <1>2, <1>3
  <1>5. Serialize(p) = ((a \o b) \o n) \o v
    BY DEF Serialize
  <1> HIDE DEF a, b, n, v
  <1>6. a \o b \in Seq(Byte) /\ n \o v \in Seq(Byte)
    BY <1>1, <1>4
  <1>7. ((a \o b) \o n) \o v = (a \o b) \o (n \o v)
    <2> DEFINE ab == a \o b
    <2>1. ab \in Seq(Byte)
      BY <1>6
    <2> HIDE DEF ab
    <2>2. (ab \o n) \o v = ab \o (n \o v)
      BY <1>1, <2>1, ConcatAssociative
    <2> QED BY <2>2 DEF ab
  <1>8. (a \o b) \o (n \o v) = a \o (b \o (n \o v))
    <2> DEFINE nv == n \o v
    <2>1. nv \in Seq(Byte)
      BY <1>6
    <2> HIDE DEF nv
    <2>2. (a \o b) \o nv = a \o (b \o nv)
      BY <1>4, <2>1, ConcatAssociative
    <2> QED BY <2>2 DEF nv
  <1> QED BY <1>1, <1>4, <1>5, <1>7, <1>8 DEF a, b, n, v

\* A pair takes two bytes at least.
LEMMA SerializeType ==
  ASSUME NEW p \in Pair
  PROVE  Serialize(p) \in Seq(Byte) /\ Len(Serialize(p)) > 1
  <1>1. PICK a, b, n, v \in Seq(Byte) :
          Len(a) > 0 /\ Len(b) > 0 /\ Serialize(p) = a \o (b \o (n \o v))
    BY Parts
  <1>2. /\ n \o v \in Seq(Byte) /\ Len(n \o v) >= 0
        /\ Len(a) \in Nat /\ Len(b) \in Nat
    BY Joined
  <1>3. b \o (n \o v) \in Seq(Byte) /\ Len(b \o (n \o v)) > 0
    BY <1>1, <1>2, Joined
  <1>4. /\ a \o (b \o (n \o v)) \in Seq(Byte)
        /\ Len(a \o (b \o (n \o v))) > 1
    BY <1>1, <1>2, <1>3, Joined
  <1> QED BY <1>1, <1>4

\* Each pair adds bytes to the bytes before.
LEMMA SerializerSteps == StepsFor(Serializer, Pair, Seq(Byte))
  <1>1. \A p \in Pair : [b \in Seq(Byte) |-> b \o Serialize(p)]
                          \in [Seq(Byte) -> Seq(Byte)]
    BY SerializeType
  <1> QED BY <1>1 DEF StepsFor, Serializer

\* A list of pairs is written one after the other.
LEMMA SerializeAllType ==
  ASSUME NEW w \in Seq(Pair) PROVE SerializeAll(w) \in Seq(Byte)
  <1>1. <<>> \in Seq(Byte)
    OBVIOUS
  <1> QED BY <1>1, SerializerSteps, FoldType DEF SerializeAll

\* No pair, no byte.
LEMMA SerializeNone == SerializeAll(<<>>) = <<>>
  <1>1. <<>> \in Seq(Byte)
    OBVIOUS
  <1> QED BY <1>1, SerializerSteps, FoldEmpty DEF SerializeAll

\* One pair more.
LEMMA SerializeMore ==
  ASSUME NEW w \in Seq(Pair), NEW p \in Pair
  PROVE  SerializeAll(w \o <<p>>) = SerializeAll(w) \o Serialize(p)
  <1> DEFINE e == <<>>
  <1>1. e \in Seq(Byte) /\ SerializeAll(w) \in Seq(Byte)
    BY SerializeAllType
  <1> HIDE DEF e
  <1>2. FoldList(w \o <<p>>, e, Serializer)
          = Serializer[p][FoldList(w, e, Serializer)]
    BY <1>1, SerializerSteps, FoldAppend
  <1>3. SerializeAll(w \o <<p>>) = Serializer[p][SerializeAll(w)]
    BY <1>2 DEF SerializeAll, e
  <1> QED BY <1>1, <1>3 DEF Serializer

\* Two lists are written one after the other.
LEMMA SerializeConcat ==
  ASSUME NEW v \in Seq(Pair), NEW w \in Seq(Pair)
  PROVE  SerializeAll(v \o w) = SerializeAll(v) \o SerializeAll(w)
  <1> DEFINE P == {u \in Seq(Pair) :
                     SerializeAll(v \o u) = SerializeAll(v) \o SerializeAll(u)}
             x == SerializeAll(v)
  <1>1. x \in Seq(Byte)
    BY SerializeAllType
  <1>2. <<>> \in P
    <2>1. v \o <<>> = v /\ x \o <<>> = x /\ <<>> \in Seq(Pair)
      BY <1>1
    <2> QED BY <2>1, SerializeNone
  <1>3. ASSUME NEW u \in Seq(Pair), NEW p \in Pair, u \in P
        PROVE  u \o <<p>> \in P
    <2>1. /\ v \o (u \o <<p>>) = (v \o u) \o <<p>>
          /\ v \o u \in Seq(Pair) /\ u \o <<p>> \in Seq(Pair)
      OBVIOUS
    <2>2. SerializeAll((v \o u) \o <<p>>) = SerializeAll(v \o u) \o Serialize(p)
      BY <2>1, SerializeMore
    <2>3. SerializeAll(u \o <<p>>) = SerializeAll(u) \o Serialize(p)
      BY SerializeMore
    <2>4. SerializeAll(v \o u) = x \o SerializeAll(u)
      BY <1>3
    <2>5. SerializeAll(u) \in Seq(Byte) /\ Serialize(p) \in Seq(Byte)
      BY SerializeAllType, SerializeType
    <2>6. (x \o SerializeAll(u)) \o Serialize(p)
            = x \o (SerializeAll(u) \o Serialize(p))
      <3> DEFINE y == SerializeAll(u)
                 z == Serialize(p)
      <3>1. x \in Seq(Byte) /\ y \in Seq(Byte) /\ z \in Seq(Byte)
        BY <1>1, <2>5
      <3> HIDE DEF x, y, z
      <3>2. (x \o y) \o z = x \o (y \o z)
        BY <3>1, ConcatAssociative
      <3> QED BY <3>2 DEF y, z
    <2> HIDE DEF x
    <2>7. SerializeAll(v \o (u \o <<p>>)) = x \o SerializeAll(u \o <<p>>)
      BY ONLY <2>1, <2>2, <2>3, <2>4, <2>6
    <2> QED BY <2>1, <2>7 DEF x
  <1> HIDE DEF P
  <1>4. Grows(P, Pair)
    BY <1>3 DEF Grows
  <1>5. Seq(Pair) \subseteq P
    BY <1>2, <1>4, ListInduction
  <1> QED BY <1>5 DEF P

-----------------------------------------------------------------------------
(* Lengths in memory.                                                      *)

\* Four bytes of memory are a sequence.
LEMMA FourSeq ==
  ASSUME NEW X, NEW m \in [1..4 -> X]
  PROVE  m \in Seq(X) /\ Len(m) = 4
  <1>1. m \in Seq(X)
    BY SeqDef
  <1> QED BY <1>1, LenProperties

\* A word turned is a word.
LEMMA NtohlType ==
  ASSUME NEW X, NEW m \in [1..4 -> X] PROVE Ntohl(m) \in [1..4 -> X]
  <1>1. Len(m) = 4
    BY FourSeq
  <1>2. \A i \in 1..4 : (4 - i) + 1 \in 1..4
    OBVIOUS
  <1>3. Reverse(m) = [i \in 1..4 |-> m[(4 - i) + 1]]
    BY <1>1 DEF Reverse
  <1>4. Reverse(m) \in [1..4 -> X]
    BY <1>2, <1>3
  <1> QED BY <1>4 DEF Ntohl

\* A length is a number.
LEMMA NativeType ==
  ASSUME NEW m \in [1..4 -> Byte] PROVE Native(m) \in Nat
  <1>1. \A w \in [1..4 -> Byte] : BigEndian(w) \in Nat
    <2>1. ASSUME NEW w \in [1..4 -> Byte] PROVE BigEndian(w) \in Nat
      <3>1. Radix \in Nat /\ \A k \in 1..4 : w[k] \in Nat
        BY Bytes
      <3>2. w[1] \in Nat /\ w[2] \in Nat /\ w[3] \in Nat /\ w[4] \in Nat
        BY <3>1
      <3> QED BY <3>1, <3>2 DEF BigEndian
    <2> QED BY <2>1
  <1> QED BY <1>1, NtohlType DEF Native

\* What of a packet is cut off and left.
LEMMA Cut ==
  ASSUME NEW T, NEW w \in Seq(T), NEW m \in Nat, NEW n \in Nat, n <= Len(w)
  PROVE  /\ SubSeq(w, m + 1, n) \in Seq(T)
         /\ Len(SubSeq(w, m + 1, n)) = IF m < n THEN n - m ELSE 0
  OBVIOUS

-----------------------------------------------------------------------------
(* The parser: types, and that nothing over the limit is buffered or       *)
(* delivered.                                                              *)

Memory == [1..4 -> Byte \cup {Uninit}]
Hows == {"next", "stop", "throw", "undefined", "end"}
ModerateResults ==
    [how : Hows, d : Moderate, data : Seq(Byte), out : Seq(Within)]

\* A part that delivers nothing keeps the limit.
LEMMA EndedModerate ==
  ASSUME NEW how \in Hows, NEW d \in Moderate, NEW data \in Seq(Byte)
  PROVE  Ended(how, d, data) \in ModerateResults
  BY DEF Ended, ModerateResults

\* They are results of the parser.
LEMMA ModerateAre == ModerateResults \subseteq Results
  <1>1. Seq(Within) \subseteq Seq(Pair)
    <2>1. Within \subseteq Pair
      BY DEF Within
    <2> QED BY <2>1, SeqMonotonic
  <1>2. Moderate \subseteq Deserializer
    BY DEF Moderate
  <1> QED BY <1>1, <1>2 DEF ModerateResults, Results, Hows

\* The pieces of the parser's steps keep a deserializer moderate.
LEMMA SetLength ==
  ASSUME NEW d \in Moderate, NEW field \in Lengths, NEW m \in Memory
  PROVE  LET e == [d EXCEPT ![field] = m]
         IN  /\ e \in Moderate /\ e[field] = m
             /\ \A other \in Lengths : other # field => e[other] = d[other]
             /\ e.remaining_len = d.remaining_len /\ e.dest = d.dest
             /\ e.parse_state = d.parse_state
             /\ e.at = d.at /\ e.size = d.size
  <1>1. CASE field = "name_len"
    BY <1>1 DEF Moderate, Deserializer, Memory, Lengths
  <1>2. CASE field = "value_len"
    BY <1>2 DEF Moderate, Deserializer, Memory, Lengths
  <1> QED BY <1>1, <1>2 DEF Lengths

\* The place in the buffer does not matter to it.
LEMMA AdvanceModerate ==
  ASSUME NEW d \in Moderate, NEW n \in Nat
  PROVE  /\ Advance(d, n) \in Moderate
         /\ d.remaining_len = 0 => Advance(d, n) = d
  BY DEF Advance, Moderate, Deserializer

\* Nor do the bytes of a length.
LEMMA CopyModerate ==
  ASSUME NEW d \in Moderate, NEW bytes \in Seq(Byte)
  PROVE  Copy(d, bytes) \in Moderate
  <1>1. CASE d.dest \in Lengths
    <2> DEFINE m == [k \in 1..4 |-> IF k - d.at \in DOMAIN bytes
                                    THEN bytes[k - d.at] ELSE d[d.dest][k]]
    <2>1. d[d.dest] \in Memory
      BY <1>1 DEF Moderate, Deserializer, Lengths, Memory
    <2>2. m \in Memory
      <3>1. ASSUME NEW k \in 1..4 PROVE m[k] \in Byte \cup {Uninit}
        <4>1. CASE k - d.at \in DOMAIN bytes
          BY <4>1
        <4>2. CASE k - d.at \notin DOMAIN bytes
          BY <2>1, <4>2 DEF Memory
        <4> QED BY <4>1, <4>2
      <3> QED BY <3>1 DEF Memory
    <2>3. Copy(d, bytes) = [d EXCEPT ![d.dest] = m]
      BY <1>1 DEF Copy
    <2> HIDE DEF m
    <2>4. \A field \in Lengths : [d EXCEPT ![field] = m] \in Moderate
      BY <2>2, SetLength
    <2> QED BY <1>1, <2>3, <2>4
  <1>2. CASE d.dest \notin Lengths
    BY <1>2 DEF Copy
  <1> QED BY <1>1, <1>2

\* Reading a length makes no buffer and delivers nothing.
LEMMA ReadLengthModerate ==
  ASSUME NEW d \in Moderate, NEW data \in Seq(Byte), NEW field \in Lengths
  PROVE  /\ ReadLength(d, data, field) \in ModerateResults
         /\ ReadLength(d, data, field).out = <<>>
  <1> DEFINE rest == SubSeq(data, 5, Len(data))
             r == ReadLength(d, data, field)
  <1>1. Len(data) \in Nat /\ (data # <<>> => data[1] \in Nat /\ data[1] \in Byte)
    <2>1. data # <<>> => 1 \in 1..Len(data)
      BY EmptySeq
    <2>2. data # <<>> => data[1] \in Byte
      BY <2>1, ElementOfSeq
    <2>3. Len(data) \in Nat
      OBVIOUS
    <2> QED BY <2>2, <2>3, Bytes
  <1>2. CASE data = <<>>
    <2>1. r = Ended("undefined", d, data)
      BY <1>2 DEF ReadLength
    <2> QED BY <2>1, EndedModerate DEF Hows, Ended
  <1>3. CASE data # <<>> /\ data[1] < TopBit
    <2> DEFINE m == <<0, 0, 0, data[1]>>
               e == [d EXCEPT ![field] = m]
    <2>1. r = Ended("next", Advance(e, 1), Tail(data))
      <3>1. ~(data[1] >= TopBit)
        BY <1>1, <1>3, Bytes
      <3> QED BY <1>3, <3>1 DEF ReadLength
    <2>2. m \in Memory
      BY <1>1, <1>3, Bytes DEF Memory
    <2> HIDE DEF m
    <2>3. e \in Moderate
      BY <2>2, SetLength
    <2> HIDE DEF e
    <2>4. Advance(e, 1) \in Moderate /\ Tail(data) \in Seq(Byte)
      BY <1>3, <2>3, AdvanceModerate
    <2> QED BY <2>1, <2>4, EndedModerate DEF Hows, Ended
  <1>4. CASE data # <<>> /\ data[1] >= TopBit /\ Len(data) < 4
    <2> DEFINE e == [d EXCEPT !.dest = field, !.at = 0]
               bytes == [data EXCEPT ![1] = @ - TopBit]
               c == Copy(e, bytes)
               f == [c EXCEPT !.at = Len(data), !.size = 4,
                              !.remaining_len = 4 - Len(data)]
    <2>1. r = Ended("stop", f, data)
      <3>1. ~(data[1] < TopBit)
        BY <1>1, <1>4, Bytes
      <3> QED BY <1>4, <3>1 DEF ReadLength
    <2>2. e \in Moderate /\ e.dest \in Lengths
      BY DEF Moderate, Deserializer, Lengths
    <2>3. bytes \in Seq(Byte)
      <3>1. data[1] - TopBit \in Byte
        BY <1>1, <1>4, Bytes DEF Byte
      <3>2. 1 \in 1..Len(data)
        BY <1>1, <1>4, EmptySeq
      <3> QED BY <3>1, <3>2, ExceptSeq
    <2> HIDE DEF bytes, e
    <2>4. c \in Moderate /\ c.dest \in Lengths
      <3>1. c \in Moderate
        BY <2>2, <2>3, CopyModerate
      <3>2. c.dest = e.dest
        <4>1. c = [e EXCEPT ![e.dest] =
                     [k \in 1..4 |-> IF k - e.at \in DOMAIN bytes
                                     THEN bytes[k - e.at] ELSE @[k]]]
          BY <2>2 DEF Copy
        <4>2. e.dest # "dest"
          BY <2>2 DEF Lengths
        <4> QED BY <2>2, <4>1, <4>2 DEF Moderate, Deserializer
      <3> QED BY <2>2, <3>1, <3>2
    <2> HIDE DEF c
    <2>5. f \in Moderate
      <3>1. Len(data) \in Nat /\ 4 \in Nat /\ 4 - Len(data) \in Nat
        BY <1>1, <1>4
      <3>2. c \in Deserializer /\ c.dest # "string_buffer"
        BY <2>4 DEF Moderate, Lengths
      <3>3. f \in Deserializer /\ f.dest = c.dest
        BY <3>1, <3>2 DEF Deserializer
      <3> QED BY <3>2, <3>3 DEF Moderate
    <2> HIDE DEF f
    <2> QED BY <2>1, <2>5, EndedModerate DEF Hows, Ended
  <1>5. CASE data # <<>> /\ data[1] >= TopBit /\ Len(data) >= 4
    <2> DEFINE m == SubSeq(data, 1, 4)
               e == [d EXCEPT ![field] = m]
               how == IF Len(rest) = 4 THEN "next" ELSE "stop"
    <2>1. r = Ended(how, Advance(e, 4), rest)
      <3>1. ~(data[1] < TopBit) /\ ~(Len(data) < 4)
        BY <1>1, <1>5, Bytes
      <3> QED BY <1>5, <3>1 DEF ReadLength
    <2>2. m \in Memory
      <3>1. m = [i \in 1..4 |-> data[i]]
        BY <1>1, <1>5, SubSeqProperties
      <3>2. \A i \in 1..4 : data[i] \in Byte
        BY <1>1, <1>5
      <3> QED BY <3>1, <3>2 DEF Memory
    <2> HIDE DEF m
    <2>3. e \in Moderate
      BY <2>2, SetLength
    <2>4. rest \in Seq(Byte)
      BY <1>1, Cut
    <2> HIDE DEF e, rest
    <2>5. Advance(e, 4) \in Moderate /\ how \in Hows
      BY <2>3, AdvanceModerate DEF Hows
    <2> HIDE DEF how
    <2> QED BY <2>1, <2>4, <2>5, EndedModerate DEF Ended
  <1>6. data # <<>> => data[1] < TopBit \/ data[1] >= TopBit
    BY <1>1, Bytes
  <1> QED BY <1>1, <1>2, <1>3, <1>4, <1>5, <1>6

\* A pair is delivered, or a buffer made for it, only if it is within the
\* limit; its sizes are those of the parts of it that lay in the packet.
LEMMA ReadPairModerate ==
  ASSUME NEW d \in Moderate, NEW data \in Seq(Byte)
  PROVE  ReadPair(d, data) \in ModerateResults
  <1> DEFINE unread == \E k \in 1..4 : Uninit \in {d.name_len[k], d.value_len[k]}
             e == [d EXCEPT !.name_len = Ntohl(@), !.value_len = Ntohl(@)]
             n == Native(e.name_len)
             v == Native(e.value_len)
             sum == (n + v) % Word
             r == ReadPair(d, data)
  <1> SUFFICES r \in ModerateResults
    OBVIOUS
  <1>1. CASE unread
    <2>1. r = Ended("undefined", d, data)
      BY <1>1 DEF ReadPair
    <2> QED BY <2>1, EndedModerate DEF Hows
  <1>2. CASE ~unread
    <2>1. d.name_len \in [1..4 -> Byte] /\ d.value_len \in [1..4 -> Byte]
      <3>1. d.name_len \in Memory /\ d.value_len \in Memory
        BY DEF Moderate, Deserializer, Memory
      <3>2. \A k \in 1..4 : d.name_len[k] \in Byte /\ d.value_len[k] \in Byte
        BY <1>2, <3>1 DEF Memory
      <3> QED BY <3>1, <3>2 DEF Memory
    <2>2. /\ Ntohl(d.name_len) \in [1..4 -> Byte]
          /\ Ntohl(d.value_len) \in [1..4 -> Byte]
      BY <2>1, NtohlType
    <2>3. /\ e \in Deserializer /\ e.dest = d.dest /\ e.size = d.size
          /\ e.name_len = Ntohl(d.name_len) /\ e.value_len = Ntohl(d.value_len)
      BY <2>2 DEF Moderate, Deserializer
    <2>4. e \in Moderate
      BY <2>3 DEF Moderate
    <2>5. n \in Nat /\ v \in Nat
      BY <2>2, <2>3, NativeType
    <2>6. sum \in Nat /\ n + v \in Nat
      <3> HIDE DEF n, v
      <3>1. n + v \in Nat /\ Word > 0
        BY <2>5, Bytes
      <3> QED BY <3>1, Bytes, Remainders
    <2>7. r = IF TooLarge(n, v) THEN Ended("throw", e, data)
              ELSE IF Len(data) < sum
              THEN Ended("stop",
                     [e EXCEPT !.dest = "string_buffer", !.at = Len(data),
                        !.size = sum, !.remaining_len = sum - Len(data)],
                     data)
              ELSE IF n + v # sum THEN Ended("undefined", e, data)
              ELSE [how |-> "next",
                    d |-> Advance([e EXCEPT !.parse_state = "READ_NEW"], sum),
                    data |-> SubSeq(data, sum + 1, Len(data)),
                    out |-> <<[name |-> SubSeq(data, 1, n),
                               value |-> SubSeq(data, n + 1, sum)]>>]
      BY <1>2 DEF ReadPair
    <2>8. TooLarge(n, v) <=> sum > Limit
      BY DEF TooLarge
    <2>9. Len(data) \in Nat
      OBVIOUS
    <2> HIDE DEF unread, e, n, v, sum, r
    <2>10. CASE TooLarge(n, v)
      BY <2>4, <2>7, <2>10, EndedModerate DEF Hows
    <2>11. CASE ~TooLarge(n, v) /\ Len(data) < sum
      <3> DEFINE f == [e EXCEPT !.dest = "string_buffer", !.at = Len(data),
                         !.size = sum, !.remaining_len = sum - Len(data)]
      <3>1. sum <= Limit /\ sum - Len(data) \in Nat
        BY <2>6, <2>8, <2>9, <2>11, Bytes
      <3>2. f \in Deserializer /\ f.size = sum
        BY <2>3, <2>6, <2>9, <3>1 DEF Deserializer
      <3>3. f \in Moderate
        BY <3>1, <3>2 DEF Moderate
      <3>4. r = Ended("stop", f, data)
        BY <2>7, <2>11
      <3> HIDE DEF f
      <3> QED BY <3>3, <3>4, EndedModerate DEF Hows
    <2>12. CASE ~TooLarge(n, v) /\ ~(Len(data) < sum) /\ n + v # sum
      <3>1. r = Ended("undefined", e, data)
        BY <2>7, <2>12
      <3> QED BY <2>4, <3>1, EndedModerate DEF Hows
    <2>13. CASE ~TooLarge(n, v) /\ ~(Len(data) < sum) /\ n + v = sum
      <3> DEFINE f == [e EXCEPT !.parse_state = "READ_NEW"]
                 rest == SubSeq(data, sum + 1, Len(data))
                 name == SubSeq(data, 1, n)
                 value == SubSeq(data, n + 1, sum)
                 p == [name |-> name, value |-> value]
      <3>1. r = [how |-> "next", d |-> Advance(f, sum), data |-> rest,
                 out |-> <<p>>]
        BY <2>7, <2>13
      <3>2. f \in Deserializer /\ f.dest = e.dest /\ f.size = e.size
        BY <2>3 DEF Deserializer, ParserStates
      <3>3. f \in Moderate
        BY <2>4, <3>2 DEF Moderate
      <3>4. /\ n <= Len(data) /\ sum <= Len(data) /\ sum = n + v /\ sum <= Limit
        BY <2>5, <2>6, <2>8, <2>9, <2>13, Bytes
      <3>5. name \in Seq(Byte) /\ value \in Seq(Byte) /\ rest \in Seq(Byte)
            /\ Len(name) = n /\ Len(value) = v
        <4>1. 0 + 1 = 1 /\ 0 \in Nat
          OBVIOUS
        <4>2. name \in Seq(Byte) /\ Len(name) = n
          BY <2>5, <3>4, <4>1, Cut
        <4>3. value \in Seq(Byte) /\ Len(value) = v
          BY <2>5, <2>6, <3>4, Cut
        <4>4. rest \in Seq(Byte)
          BY <2>6, <2>9, Cut
        <4> QED BY <4>2, <4>3, <4>4
      <3> HIDE DEF name, value, rest, f
      <3>6. p \in Pair /\ Len(p.name) + Len(p.value) = sum
        BY <2>5, <3>4, <3>5 DEF Pair
      <3>7. p \in Within
        BY <2>6, <3>4, <3>6, Bytes DEF Within, Oversize
      <3> HIDE DEF p
      <3>8. Advance(f, sum) \in Moderate
        BY <2>6, <3>3, AdvanceModerate
      <3>9. <<p>> \in Seq(Within)
        BY <3>7
      <3> QED BY <3>1, <3>5, <3>8, <3>9 DEF ModerateResults, Hows
    <2> QED BY <2>10, <2>11, <2>12, <2>13
  <1> QED BY <1>1, <1>2

\* One turn of the main loop, by the three ways into it.
LEMMA SwitchModerate ==
  ASSUME NEW d \in Moderate, NEW data \in Seq(Byte)
  PROVE  Switch(d, data) \in ModerateResults
  <1>1. ASSUME NEW r \in ModerateResults, NEW state \in ParserStates
        PROVE  At(state, r) \in ModerateResults
    <2>1. r.d \in Moderate /\ r.d \in Deserializer
      BY DEF ModerateResults, Moderate
    <2>2. [r.d EXCEPT !.parse_state = state] \in Moderate
      <3>1. [r.d EXCEPT !.parse_state = state] \in Deserializer
        BY <2>1 DEF Deserializer
      <3> QED BY <2>1, <3>1 DEF Moderate, Deserializer
    <2>3. [r EXCEPT !.d.parse_state = state] =
            [r EXCEPT !.d = [r.d EXCEPT !.parse_state = state]]
      BY DEF ModerateResults
    <2> QED BY <2>2, <2>3 DEF At, ModerateResults
  <1>2. ASSUME NEW e \in Moderate, NEW w \in Seq(Byte)
        PROVE  FromValueLen(e, w) \in ModerateResults
    <2> DEFINE r == ReadLength(e, w, "value_len")
    <2>1. r \in ModerateResults
      BY ReadLengthModerate DEF Lengths
    <2>2. FromValueLen(e, w) = IF r.how = "next" THEN ReadPair(r.d, r.data)
                               ELSE At("READ_VALUE_LEN", r)
      BY DEF FromValueLen
    <2> HIDE DEF r
    <2>3. ReadPair(r.d, r.data) \in ModerateResults
      BY <2>1, ReadPairModerate DEF ModerateResults
    <2> QED BY <1>1, <2>1, <2>2, <2>3 DEF ParserStates
  <1>3. ASSUME NEW e \in Moderate, NEW w \in Seq(Byte)
        PROVE  FromNameLen(e, w) \in ModerateResults
    <2> DEFINE r == ReadLength(e, w, "name_len")
    <2>1. r \in ModerateResults
      BY ReadLengthModerate DEF Lengths
    <2>2. FromNameLen(e, w) = IF r.how = "next" THEN FromValueLen(r.d, r.data)
                              ELSE At("READ_NAME_LEN", r)
      BY DEF FromNameLen
    <2> HIDE DEF r
    <2>3. FromValueLen(r.d, r.data) \in ModerateResults
      BY <1>2, <2>1 DEF ModerateResults
    <2> QED BY <1>1, <2>1, <2>2, <2>3 DEF ParserStates
  <1>4. d.parse_state \in ParserStates
    BY DEF Moderate, Deserializer
  <1> QED BY <1>2, <1>3, <1>4, ReadPairModerate DEF Switch, ParserStates

\* So does any number of turns of the main loop.
LEMMA TurnModerate ==
  ASSUME NEW r \in ModerateResults PROVE Turn(r) \in ModerateResults
  <1>1. CASE r.how # "next" \/ r.data = <<>>
    BY <1>1 DEF Turn
  <1>2. CASE ~(r.how # "next" \/ r.data = <<>>)
    <2> DEFINE t == Switch(r.d, r.data)
    <2>1. t \in ModerateResults
      BY SwitchModerate DEF ModerateResults
    <2>2. Turn(r) = [t EXCEPT !.out = r.out \o t.out]
      BY <1>2, <2>1 DEF Turn, ModerateResults
    <2> HIDE DEF t
    <2>3. r.out \o t.out \in Seq(Within)
      BY <2>1 DEF ModerateResults
    <2> QED BY <2>1, <2>2, <2>3 DEF ModerateResults
  <1> QED BY <1>1, <1>2

\* The turns of the parse loop.
ParseTurns(data) == [n \in 1..Len(data) |-> [r \in Results |-> Turn(r)]]

\* What each turn keeps.
LEMMA ParseSteps ==
  ASSUME NEW data \in Seq(Byte), NEW S, S \subseteq Results,
         \A r \in S : Turn(r) \in S
  PROVE  Len(data) \in Nat /\ Steps(ParseTurns(data), Len(data), S)
  BY DEF ParseTurns, Steps

\* The whole loop.
LEMMA ParseModerate ==
  ASSUME NEW d \in Moderate, NEW data \in Seq(Byte)
  PROVE  Parse(d, data) \in ModerateResults
  <1>1. Len(data) \in Nat /\ Steps(ParseTurns(data), Len(data), ModerateResults)
    BY ModerateAre, TurnModerate, ParseSteps
  <1>2. Switch(d, data) \in ModerateResults
    BY SwitchModerate
  <1>3. Parse(d, data) = Iterate(Len(data), Switch(d, data), ParseTurns(data))
    BY DEF Parse, ParseTurns
  <1> QED BY <1>1, <1>2, <1>3, IterateType

\* Whatever the record holds and wherever it was cut, feed leaves a
\* deserializer of its type, with a buffer within the limit if it has one,
\* and delivers pairs within the limit only (name-value-pairs.cpp:68-135).
THEOREM FeedModerate ==
  ASSUME NEW d \in Moderate, NEW bytes \in Seq(Byte)
  PROVE  Feed(d, bytes) \in ModerateResults
  <1> DEFINE n == Len(bytes)
             m == d.remaining_len
             f == Feed(d, bytes)
  <1> SUFFICES f \in ModerateResults
    OBVIOUS
  <1>1. n \in Nat /\ m \in Nat
    BY DEF Moderate, Deserializer
  <1>2. CASE n = 0
    <2>1. f = Ended("end", d, bytes)
      BY <1>2 DEF Feed
    <2> HIDE DEF f
    <2> QED BY <2>1, EndedModerate DEF Hows
  <1>3. CASE n > 0 /\ ~CopyFits(d, IF m > n THEN n ELSE m)
    <2>1. f = Ended("undefined", d, bytes)
      BY <1>3 DEF Feed
    <2> HIDE DEF f
    <2> QED BY <2>1, EndedModerate DEF Hows
  <1>4. CASE n > 0 /\ CopyFits(d, IF m > n THEN n ELSE m) /\ m > n
    <2> DEFINE c == Copy(d, bytes)
               e == [c EXCEPT !.remaining_len = @ - n]
    <2>1. f = Ended("stop", e, bytes)
      BY <1>4 DEF Feed
    <2>2. c \in Moderate
      BY CopyModerate
    <2>3. c.remaining_len = m
      <3>1. CASE d.dest \in Lengths
        BY <3>1 DEF Copy, Moderate, Deserializer, Lengths
      <3>2. CASE d.dest \notin Lengths
        BY <3>2 DEF Copy
      <3> QED BY <3>1, <3>2
    <2> HIDE DEF c
    <2>4. m - n \in Nat
      BY <1>1, <1>4
    <2>5. c \in Deserializer
      BY <2>2 DEF Moderate
    <2>6. e \in Deserializer /\ e.dest = c.dest /\ e.size = c.size
      BY <2>3, <2>4, <2>5 DEF Deserializer
    <2>7. e \in Moderate
      BY <2>2, <2>6 DEF Moderate
    <2> HIDE DEF e, f
    <2> QED BY <2>1, <2>7, EndedModerate DEF Hows
  <1>5. CASE n > 0 /\ CopyFits(d, IF m > n THEN n ELSE m) /\ ~(m > n)
    <2> DEFINE c == Copy(d, SubSeq(bytes, 1, m))
               rest == SubSeq(bytes, m + 1, n)
    <2>1. f = Parse(Advance(c, m), rest)
      BY <1>1, <1>5 DEF Feed
    <2>2. SubSeq(bytes, 1, m) \in Seq(Byte) /\ rest \in Seq(Byte)
      BY <1>1, <1>5
    <2>3. c \in Moderate
      BY <2>2, CopyModerate
    <2> HIDE DEF c, rest, f
    <2>4. Advance(c, m) \in Moderate
      BY <1>1, <2>3, AdvanceModerate
    <2> QED BY <2>1, <2>2, <2>4, ParseModerate
  <1> QED BY <1>1, <1>2, <1>3, <1>4, <1>5

-----------------------------------------------------------------------------
(* What the parser makes of short pairs that lie whole in a record.        *)

\* Turning a word twice is turning it back.
LEMMA NtohlTwice ==
  ASSUME NEW X, NEW m \in [1..4 -> X] PROVE Ntohl(Ntohl(m)) = m
  <1>1. \A w \in [1..4 -> X] : Reverse(w) = [i \in 1..4 |-> w[(4 - i) + 1]]
    <2>1. ASSUME NEW w \in [1..4 -> X]
          PROVE  Reverse(w) = [i \in 1..4 |-> w[(4 - i) + 1]]
      <3>1. Len(w) = 4
        BY FourSeq
      <3> QED BY <3>1 DEF Reverse
    <2> QED BY <2>1
  <1>2. CASE LittleEndian
    <2> DEFINE w == Reverse(m)
    <2>1. w = Ntohl(m)
      BY <1>2 DEF Ntohl
    <2>2. w \in [1..4 -> X]
      BY <2>1, NtohlType
    <2>3. w = [i \in 1..4 |-> m[(4 - i) + 1]]
      BY <1>1
    <2> HIDE DEF w
    <2>4. Reverse(w) = [i \in 1..4 |-> w[(4 - i) + 1]]
      BY <1>1, <2>2
    <2>5. \A i \in 1..4 : (4 - i) + 1 \in 1..4 /\ (4 - ((4 - i) + 1)) + 1 = i
      OBVIOUS
    <2>6. \A i \in 1..4 : w[(4 - i) + 1] = m[i]
      BY <2>3, <2>5
    <2>7. Reverse(w) = m
      BY <2>4, <2>6
    <2> QED BY <1>2, <2>1, <2>7 DEF Ntohl
  <1>3. CASE ~LittleEndian
    BY <1>3 DEF Ntohl
  <1> QED BY <1>2, <1>3

\* A length of one byte, as memory has it.
OneByte(n) == <<0, 0, 0, n>>
LEMMA OneByteNative ==
  ASSUME NEW n \in Byte
  PROVE  /\ OneByte(n) \in Memory /\ OneByte(n) \in [1..4 -> Byte]
         /\ Native(Ntohl(OneByte(n))) = n
  <1>1. OneByte(n) \in [1..4 -> Byte]
    BY Bytes DEF OneByte
  <1>2. Ntohl(Ntohl(OneByte(n))) = OneByte(n)
    BY <1>1, NtohlTwice
  <1>3. BigEndian(OneByte(n)) = n
    <2>1. Radix \in Nat /\ n \in Nat
      BY Bytes
    <2> QED BY <2>1 DEF BigEndian, OneByte
  <1> QED BY <1>1, <1>2, <1>3 DEF Native, Memory

\* read_keyval_length on a length of one byte.
LEMMA ReadShort ==
  ASSUME NEW d \in Moderate, d.remaining_len = 0, NEW field \in Lengths,
         NEW n \in Byte, n < TopBit, NEW rest \in Seq(Byte)
  PROVE  ReadLength(d, <<n>> \o rest, field) =
           Ended("next", [d EXCEPT ![field] = OneByte(n)], rest)
  <1> DEFINE data == <<n>> \o rest
             e == [d EXCEPT ![field] = OneByte(n)]
  <1>1. data # <<>> /\ data[1] = n /\ Tail(data) = rest
    OBVIOUS
  <1>2. ~(n >= TopBit)
    BY Bytes
  <1> HIDE DEF data
  <1>3. ReadLength(d, data, field) = Ended("next", Advance(e, 1), rest)
    BY <1>1, <1>2 DEF ReadLength, OneByte
  <1>4. e.remaining_len = 0 /\ e \in Moderate
    <2> DEFINE m == OneByte(n)
    <2>1. m \in Memory
      BY OneByteNative
    <2> HIDE DEF m
    <2>2. [d EXCEPT ![field] = m].remaining_len = d.remaining_len
          /\ [d EXCEPT ![field] = m] \in Moderate
      BY <2>1, SetLength
    <2> QED BY <2>2 DEF m
  <1> HIDE DEF e
  <1>5. Advance(e, 1) = e
    BY <1>4 DEF Advance
  <1> QED BY <1>3, <1>5 DEF data, e

\* Cases READ_VALUE_LEN and WILL_READ_BUFFER on a whole pair.
LEMMA ReadWhole ==
  ASSUME NEW d \in Moderate, d.remaining_len = 0, NEW p \in Pair, ShortPair(p),
         d.name_len = OneByte(Len(p.name)), d.value_len = OneByte(Len(p.value)),
         NEW rest \in Seq(Byte)
  PROVE  LET r == ReadPair(d, p.name \o (p.value \o rest)) IN
         IF Oversize(p) THEN r.how = "throw"
         ELSE /\ r.how = "next" /\ Clean(r.d)
              /\ r.data = rest /\ r.out = <<p>>
  <1> DEFINE data == p.name \o (p.value \o rest)
             e == [d EXCEPT !.name_len = Ntohl(@), !.value_len = Ntohl(@)]
             n == Len(p.name)
             v == Len(p.value)
             sum == n + v
             r == ReadPair(d, data)
  <1> SUFFICES IF Oversize(p) THEN r.how = "throw"
               ELSE r.how = "next" /\ Clean(r.d) /\ r.data = rest /\ r.out = <<p>>
    OBVIOUS
  <1>1. /\ p.name \in Seq(Byte) /\ p.value \in Seq(Byte) /\ n \in Nat /\ v \in Nat
        /\ n < TopBit /\ v < TopBit /\ p = [name |-> p.name, value |-> p.value]
    BY DEF Pair, ShortPair
  <1>2. n \in Byte /\ v \in Byte
    <2> HIDE DEF n, v
    <2> QED BY <1>1, Bytes DEF Byte
  <1>3. ~\E k \in 1..4 : Uninit \in {d.name_len[k], d.value_len[k]}
    <2>1. OneByte(n) \in [1..4 -> Byte] /\ OneByte(v) \in [1..4 -> Byte]
      BY <1>2, OneByteNative
    <2>2. Uninit \notin Byte
      BY Bytes DEF Uninit, Byte
    <2> QED BY <2>1, <2>2
  <1>4. /\ e.name_len = Ntohl(OneByte(n)) /\ e.value_len = Ntohl(OneByte(v))
        /\ e.remaining_len = 0
    BY DEF Moderate, Deserializer
  <1>5. Native(e.name_len) = n /\ Native(e.value_len) = v
    BY <1>2, <1>4, OneByteNative
  <1>6. (n + v) % Word = sum
    <2> HIDE DEF n, v
    <2>1. n + v \in Nat /\ n + v < Word
      BY <1>1, Bytes
    <2> QED BY <2>1, Bytes, Remainders
  <1>7. /\ data \in Seq(Byte) /\ Len(data) \in Nat /\ ~(Len(data) < sum)
        /\ SubSeq(data, 1, n) = p.name /\ SubSeq(data, n + 1, sum) = p.value
        /\ SubSeq(data, sum + 1, Len(data)) = rest
    <2> DEFINE a == p.name
               b == p.value
    <2>1. a \in Seq(Byte) /\ b \in Seq(Byte) /\ n = Len(a) /\ v = Len(b)
      BY <1>1
    <2> HIDE DEF a, b
    <2>2. /\ a \o (b \o rest) \in Seq(Byte)
          /\ Len(a \o (b \o rest)) = Len(a) + (Len(b) + Len(rest))
          /\ Len(a) \in Nat /\ Len(b) \in Nat /\ Len(rest) \in Nat
      BY <2>1
    <2>3. SubSeq(a \o (b \o rest), 1, Len(a)) = a
      BY <2>1
    <2>4. SubSeq(a \o (b \o rest), Len(a) + 1, Len(a) + Len(b)) = b
      BY <2>1
    <2>5. SubSeq(a \o (b \o rest), Len(a) + Len(b) + 1,
                 Len(a) + (Len(b) + Len(rest))) = rest
      BY <2>1
    <2>6. sum = Len(a) + Len(b) /\ data = a \o (b \o rest)
      BY <2>1 DEF a, b
    <2> HIDE DEF sum, data, n, v
    <2>7. ~(Len(data) < sum)
      BY <2>2, <2>6
    <2>8. /\ SubSeq(data, 1, n) = a /\ SubSeq(data, n + 1, sum) = b
          /\ SubSeq(data, sum + 1, Len(data)) = rest
      BY <2>1, <2>2, <2>3, <2>4, <2>5, <2>6
    <2>9. data \in Seq(Byte) /\ Len(data) \in Nat
      BY <2>2, <2>6
    <2>10. a = p.name /\ b = p.value
      BY DEF a, b
    <2> QED BY <2>7, <2>8, <2>9, <2>10
  <1>8. TooLarge(n, v) <=> Oversize(p)
    BY <1>6 DEF TooLarge, Oversize
  <1>9. r = IF TooLarge(n, v) THEN Ended("throw", e, data)
            ELSE [how |-> "next",
                  d |-> Advance([e EXCEPT !.parse_state = "READ_NEW"], sum),
                  data |-> rest, out |-> <<p>>]
    <2> DEFINE nn == Native(e.name_len)
               vv == Native(e.value_len)
               ss == (nn + vv) % Word
    <2>1. ReadPair(d, data) =
            IF TooLarge(nn, vv) THEN Ended("throw", e, data)
            ELSE IF Len(data) < ss
            THEN Ended("stop",
                   [e EXCEPT !.dest = "string_buffer", !.at = Len(data),
                      !.size = ss, !.remaining_len = ss - Len(data)],
                   data)
            ELSE IF nn + vv # ss THEN Ended("undefined", e, data)
            ELSE [how |-> "next",
                  d |-> Advance([e EXCEPT !.parse_state = "READ_NEW"], ss),
                  data |-> SubSeq(data, ss + 1, Len(data)),
                  out |-> <<[name |-> SubSeq(data, 1, nn),
                             value |-> SubSeq(data, nn + 1, ss)]>>]
      <3> HIDE DEF data
      <3> QED BY <1>3 DEF ReadPair
    <2>2. nn = n /\ vv = v /\ ss = sum
      BY <1>5, <1>6
    <2> HIDE DEF nn, vv, ss, data, n, v, sum, e
    <2>3. sum = nn + vv
      BY <2>2 DEF sum
    <2> QED BY <1>1, <1>7, <2>1, <2>2, <2>3
  <1>10. Advance([e EXCEPT !.parse_state = "READ_NEW"], sum)
           = [e EXCEPT !.parse_state = "READ_NEW"]
    BY <1>4 DEF Advance
  <1>11. Clean([e EXCEPT !.parse_state = "READ_NEW"])
    BY <1>4 DEF Clean, Moderate, Deserializer
  <1> HIDE DEF e, r, n, v
  <1> QED BY <1>8, <1>9, <1>10, <1>11 DEF Ended

\* One turn of the loop on such a pair: it is delivered, or refused if it is
\* over the limit, and the bytes after it are left.
LEMMA OnePair ==
  ASSUME NEW d \in Moderate, Clean(d), NEW p \in Pair, ShortPair(p),
         NEW rest \in Seq(Byte)
  PROVE  LET r == Switch(d, Serialize(p) \o rest) IN
         IF Oversize(p) THEN r.how = "throw"
         ELSE /\ r.how = "next" /\ Clean(r.d)
              /\ r.data = rest /\ r.out = <<p>>
  <1> DEFINE n == Len(p.name)
             v == Len(p.value)
             c == p.name \o (p.value \o rest)
             b == <<v>> \o c
             e == [d EXCEPT !.name_len = OneByte(n)]
             f == [e EXCEPT !.value_len = OneByte(v)]
  <1>1. /\ p.name \in Seq(Byte) /\ p.value \in Seq(Byte) /\ n \in Nat /\ v \in Nat
        /\ n < TopBit /\ v < TopBit
    BY DEF Pair, ShortPair
  <1>2. n \in Byte /\ v \in Byte
    <2> HIDE DEF n, v
    <2> QED BY <1>1, Bytes DEF Byte
  <1>3. c \in Seq(Byte) /\ b \in Seq(Byte)
    BY <1>1, <1>2
  <1>4. Serialize(p) \o rest = <<n>> \o b
    <2> DEFINE x == p.name
               y == p.value
    <2>1. Serialize(p) = ((<<n>> \o <<v>>) \o x) \o y
      BY <1>1 DEF Serialize, SizeBytes
    <2>2. x \in Seq(Byte) /\ y \in Seq(Byte)
      BY <1>1
    <2> HIDE DEF x, y, n, v
    <2>3. (((<<n>> \o <<v>>) \o x) \o y) \o rest
            = <<n>> \o (<<v>> \o (x \o (y \o rest)))
      BY <1>2, <2>2
    <2> QED BY <2>1, <2>3 DEF x, y
  <1>5. e \in Moderate /\ e.remaining_len = 0 /\ e.name_len = OneByte(n)
    BY <1>2, OneByteNative, SetLength DEF Lengths, Clean
  <1>6. f \in Moderate /\ f.remaining_len = 0 /\ f.value_len = OneByte(v)
        /\ f.name_len = OneByte(n)
    <2> HIDE DEF e
    <2> QED BY <1>2, <1>5, OneByteNative, SetLength DEF Lengths
  <1>7. ReadLength(d, <<n>> \o b, "name_len") = Ended("next", e, b)
    BY <1>1, <1>2, <1>3, ReadShort DEF Lengths, Clean
  <1>8. ReadLength(e, <<v>> \o c, "value_len") = Ended("next", f, c)
    <2> HIDE DEF e, c
    <2> QED BY <1>1, <1>2, <1>3, <1>5, ReadShort DEF Lengths
  <1>9. Switch(d, <<n>> \o b) = ReadPair(f, c)
    <2> HIDE DEF e, f, c, n, v
    <2>1. FromValueLen(e, b) = ReadPair(f, c)
      BY <1>8 DEF FromValueLen, Ended
    <2> HIDE DEF b
    <2>2. FromNameLen(d, <<n>> \o b) = FromValueLen(e, b)
      BY <1>7 DEF FromNameLen, Ended
    <2> QED BY <2>1, <2>2 DEF Switch, Clean
  <1> HIDE DEF e, f
  <1>10. LET r == ReadPair(f, p.name \o (p.value \o rest)) IN
         IF Oversize(p) THEN r.how = "throw"
         ELSE /\ r.how = "next" /\ Clean(r.d)
              /\ r.data = rest /\ r.out = <<p>>
    BY <1>6, ReadWhole
  <1>11. Switch(d, Serialize(p) \o rest)
           = ReadPair(f, p.name \o (p.value \o rest))
    BY <1>4, <1>9
  <1> QED BY <1>10, <1>11

-----------------------------------------------------------------------------
(* And of a list of them.                                                  *)

\* The types and elements of the two parts of a list.
LEMMA UptoFrom ==
  ASSUME NEW T, NEW w \in Seq(T), NEW k \in 0..Len(w)
  PROVE  /\ Upto(w, k) \in Seq(T) /\ Len(Upto(w, k)) = k
         /\ From(w, k) \in Seq(T) /\ Len(From(w, k)) = Len(w) - k
         /\ \A i \in 1..k : Upto(w, k)[i] = w[i]
         /\ \A i \in 1..(Len(w) - k) : From(w, k)[i] = w[k + i]
  <1>1. k \in Nat /\ Len(w) \in Nat
    OBVIOUS
  <1>2. /\ Upto(w, k) \in Seq(T) /\ Len(Upto(w, k)) = k
        /\ \A i \in 1..k : Upto(w, k)[i] = w[i]
    BY <1>1 DEF Upto
  <1>3. /\ From(w, k) \in Seq(T) /\ Len(From(w, k)) = Len(w) - k
        /\ \A i \in 1..(Len(w) - k) : From(w, k)[i] = w[k + i]
    BY <1>1 DEF From
  <1> QED BY <1>2, <1>3

\* At its ends one of them is empty.
LEMMA UptoEnds ==
  ASSUME NEW T, NEW w \in Seq(T)
  PROVE  /\ Upto(w, 0) = <<>> /\ From(w, 0) = w
         /\ Upto(w, Len(w)) = w /\ From(w, Len(w)) = <<>>
  BY DEF Upto, From

\* A list is what is up to k and what is from there.
LEMMA CutInTwo ==
  ASSUME NEW T, NEW w \in Seq(T), NEW k \in 0..Len(w)
  PROVE  w = Upto(w, k) \o From(w, k)
  <1> DEFINE u == Upto(w, k)
             v == From(w, k)
  <1>1. /\ u \in Seq(T) /\ Len(u) = k /\ v \in Seq(T) /\ Len(v) = Len(w) - k
        /\ \A i \in 1..k : u[i] = w[i]
        /\ \A i \in 1..(Len(w) - k) : v[i] = w[k + i]
        /\ k \in Nat /\ Len(w) \in Nat
    BY UptoFrom
  <1> HIDE DEF u, v
  <1>2. u \o v \in Seq(T) /\ Len(u \o v) = Len(w)
    BY <1>1
  <1>3. ASSUME NEW i \in 1..Len(w) PROVE (u \o v)[i] = w[i]
    <2>1. CASE i <= k
      <3>1. i \in 1..Len(u)
        BY <1>1, <2>1
      <3> QED BY <1>1, <3>1
    <2>2. CASE i > k
      <3>1. i - k \in 1..(Len(w) - k) /\ k + (i - k) = i
        BY <1>1, <2>2
      <3>2. (u \o v)[i] = v[i - k]
        BY <1>1, <2>2
      <3> QED BY <1>1, <3>1, <3>2
    <2> QED BY <1>1, <2>1, <2>2
  <1>4. u \o v = w
    BY <1>2, <1>3, SeqEqual
  <1> QED BY <1>4 DEF u, v

\* One element passes from the one to the other.
LEMMA OnePasses ==
  ASSUME NEW T, NEW w \in Seq(T), NEW k \in 0..(Len(w) - 1)
  PROVE  /\ w[k + 1] \in T /\ k + 1 \in 0..Len(w) /\ k \in 0..Len(w)
         /\ Upto(w, k + 1) = Upto(w, k) \o <<w[k + 1]>>
         /\ From(w, k) = <<w[k + 1]>> \o From(w, k + 1)
  <1> DEFINE a == w[k + 1]
             u == Upto(w, k)
             v == From(w, k + 1)
             x == Upto(w, k + 1)
             y == From(w, k)
  <1>1. /\ a \in T /\ k \in Nat /\ Len(w) \in Nat
        /\ k + 1 \in 0..Len(w) /\ k \in 0..Len(w)
    OBVIOUS
  <1>2. /\ u \in Seq(T) /\ Len(u) = k /\ x \in Seq(T) /\ Len(x) = k + 1
        /\ \A i \in 1..k : u[i] = w[i]
        /\ \A i \in 1..(k + 1) : x[i] = w[i]
    BY <1>1, UptoFrom
  <1>3. /\ v \in Seq(T) /\ Len(v) = Len(w) - (k + 1)
        /\ y \in Seq(T) /\ Len(y) = Len(w) - k
        /\ \A i \in 1..(Len(w) - (k + 1)) : v[i] = w[(k + 1) + i]
        /\ \A i \in 1..(Len(w) - k) : y[i] = w[k + i]
    BY <1>1, UptoFrom
  <1>4. a = w[k + 1]
    OBVIOUS
  <1> HIDE DEF u, v, x, y, a
  <1>5. x = u \o <<a>>
    <2>1. OneMore(x, u, a)
      BY <1>1, <1>2, <1>4 DEF OneMore
    <2> QED BY <1>1, <1>2, <2>1, OneMoreIs
  <1>6. y = <<a>> \o v
    <2>1. <<a>> \o v \in Seq(T) /\ Len(<<a>> \o v) = Len(y)
      BY <1>1, <1>3
    <2>2. ASSUME NEW i \in 1..Len(y) PROVE (<<a>> \o v)[i] = y[i]
      <3>1. CASE i = 1
        <4>1. (<<a>> \o v)[1] = a /\ 1 \in 1..(Len(w) - k)
          BY <1>1, <1>3
        <4> QED BY <1>3, <1>4, <3>1, <4>1
      <3>2. CASE i > 1
        <4>1. i - 1 \in 1..(Len(w) - (k + 1)) /\ (k + 1) + (i - 1) = k + i
              /\ i \in 1..(Len(w) - k)
          BY <1>1, <1>3, <3>2
        <4>2. (<<a>> \o v)[i] = v[i - 1]
          BY <1>1, <1>3, <3>2
        <4> QED BY <1>3, <4>1, <4>2
      <3> QED BY <1>1, <1>3, <3>1, <3>2
    <2>3. <<a>> \o v = y
      BY <1>3, <2>1, <2>2, SeqEqual
    <2> QED BY <2>3
  <1> QED BY <1>1, <1>5, <1>6 DEF u, v, x, y, a

\* The bytes of a list of one.
LEMMA SerializeOne ==
  ASSUME NEW p \in Pair PROVE SerializeAll(<<p>>) = Serialize(p)
  <1> DEFINE e == <<>>
  <1>1. e \in Seq(Pair) /\ e \o <<p>> = <<p>>
    OBVIOUS
  <1>2. SerializeAll(e) = e
    BY SerializeNone
  <1>3. SerializeAll(e \o <<p>>) = SerializeAll(e) \o Serialize(p)
    <2> HIDE DEF e
    <2> QED BY <1>1, SerializeMore
  <1>4. e \o Serialize(p) = Serialize(p)
    BY SerializeType
  <1> QED BY <1>1, <1>2, <1>3, <1>4

\* The bytes of a list begin with those of its first pair.
LEMMA SerializeFirst ==
  ASSUME NEW p \in Pair, NEW w \in Seq(Pair)
  PROVE  SerializeAll(<<p>> \o w) = Serialize(p) \o SerializeAll(w)
  <1> DEFINE v == <<p>>
  <1>1. v \in Seq(Pair) /\ SerializeAll(v) = Serialize(p)
    BY SerializeOne
  <1> HIDE DEF v
  <1>2. SerializeAll(v \o w) = SerializeAll(v) \o SerializeAll(w)
    BY <1>1, SerializeConcat
  <1> QED BY <1>1, <1>2 DEF v

\* A list has fewer pairs than bytes: the loop has turns enough.
LEMMA SerializeLong ==
  ASSUME NEW w \in Seq(Pair) PROVE Len(w) <= Len(SerializeAll(w))
  <1> DEFINE P == {u \in Seq(Pair) : Len(u) <= Len(SerializeAll(u))}
  <1>1. <<>> \in P
    BY SerializeNone
  <1>2. ASSUME NEW u \in Seq(Pair), NEW p \in Pair, u \in P
        PROVE  u \o <<p>> \in P
    <2>1. u \o <<p>> \in Seq(Pair) /\ Len(u \o <<p>>) = Len(u) + 1
          /\ Len(u) \in Nat
      OBVIOUS
    <2>2. SerializeAll(u) \in Seq(Byte) /\ Serialize(p) \in Seq(Byte)
          /\ Len(Serialize(p)) > 1
      BY SerializeAllType, SerializeType
    <2>3. Len(SerializeAll(u) \o Serialize(p))
            = Len(SerializeAll(u)) + Len(Serialize(p))
          /\ Len(SerializeAll(u)) \in Nat /\ Len(Serialize(p)) \in Nat
      BY <2>2, Joined
    <2>4. Len(SerializeAll(u \o <<p>>))
            = Len(SerializeAll(u)) + Len(Serialize(p))
      BY <2>3, SerializeMore
    <2>5. Len(u) <= Len(SerializeAll(u))
      BY <1>2
    <2>6. Len(u \o <<p>>) <= Len(SerializeAll(u \o <<p>>))
      BY <2>1, <2>2, <2>3, <2>4, <2>5
    <2> QED BY <2>1, <2>6
  <1> HIDE DEF P
  <1>3. Grows(P, Pair)
    BY <1>2 DEF Grows
  <1>4. Seq(Pair) \subseteq P
    BY <1>1, <1>3, ListInduction
  <1> QED BY <1>4 DEF P

\* One turn of the loop among the pairs of a list.
LEMMA NextPair ==
  ASSUME NEW d \in Moderate, Clean(d), NEW w \in Seq(Pair),
         NEW k \in 0..(Len(w) - 1), ShortPair(w[k + 1])
  PROVE  LET r == Switch(d, SerializeAll(From(w, k))) IN
         IF Oversize(w[k + 1]) THEN r.how = "throw"
         ELSE /\ r.how = "next" /\ Clean(r.d) /\ r.out = <<w[k + 1]>>
              /\ r.data = SerializeAll(From(w, k + 1))
  <1> DEFINE p == w[k + 1]
             v == From(w, k + 1)
             rest == SerializeAll(v)
  <1>1. p \in Pair /\ k + 1 \in 0..Len(w) /\ From(w, k) = <<p>> \o v
    BY OnePasses
  <1>2. v \in Seq(Pair)
    BY <1>1, UptoFrom
  <1>3. SerializeAll(From(w, k)) = Serialize(p) \o rest
    <2> HIDE DEF p, v
    <2> QED BY <1>1, <1>2, SerializeFirst
  <1>4. rest \in Seq(Byte)
    BY <1>2, SerializeAllType
  <1> HIDE DEF p, rest
  <1>5. LET r == Switch(d, Serialize(p) \o rest) IN
        IF Oversize(p) THEN r.how = "throw"
        ELSE r.how = "next" /\ Clean(r.d) /\ r.data = rest /\ r.out = <<p>>
    <2>1. ShortPair(p)
      BY DEF p
    <2> QED BY <1>1, <1>4, <2>1, OnePair
  <1> QED BY <1>3, <1>5 DEF p, rest

\* Where the loop is: it refused a pair over the limit, or it delivered the
\* first k pairs and waits for the next.
Short(w) == \A i \in DOMAIN w : ShortPair(w[i])
Refused(w) ==
    {r \in ModerateResults : r.how = "throw" /\ \E i \in DOMAIN w : Oversize(w[i])}
ReadUpto(w, k) ==
    {r \in ModerateResults : /\ r.how = "next" /\ Clean(r.d)
                             /\ r.out = Upto(w, k)
                             /\ r.data = SerializeAll(From(w, k))}
After(w, n) == Refused(w) \cup ReadUpto(w, IF n < Len(w) THEN n + 1 ELSE Len(w))

\* The turn before the loop reads the first pair.
LEMMA FirstTurn ==
  ASSUME NEW d \in Moderate, Clean(d), NEW w \in Seq(Pair), w # <<>>, Short(w)
  PROVE  Switch(d, SerializeAll(w)) \in After(w, 0)
  <1> DEFINE r == Switch(d, SerializeAll(w))
  <1>1. 0 \in 0..(Len(w) - 1) /\ 1 \in DOMAIN w /\ 0 < Len(w) /\ 0 + 1 = 1
        /\ Len(w) \in Nat
    BY EmptySeq
  <1>2. From(w, 0) = w /\ Upto(w, 0) = <<>>
    BY UptoEnds
  <1>3. r \in ModerateResults
    BY SerializeAllType, SwitchModerate
  <1>4. ShortPair(w[1])
    BY <1>1 DEF Short
  <1>5. IF Oversize(w[1]) THEN r.how = "throw"
        ELSE /\ r.how = "next" /\ Clean(r.d) /\ r.out = <<w[1]>>
             /\ r.data = SerializeAll(From(w, 1))
    <2>1. LET s == Switch(d, SerializeAll(From(w, 0))) IN
          IF Oversize(w[0 + 1]) THEN s.how = "throw"
          ELSE /\ s.how = "next" /\ Clean(s.d) /\ s.out = <<w[0 + 1]>>
               /\ s.data = SerializeAll(From(w, 0 + 1))
      BY <1>1, <1>4, NextPair
    <2> QED BY <1>1, <1>2, <2>1
  <1>6. Upto(w, 1) = <<w[1]>>
    <2>1. w[1] \in Pair /\ <<>> \o <<w[1]>> = <<w[1]>>
      BY <1>1
    <2>2. Upto(w, 0 + 1) = Upto(w, 0) \o <<w[0 + 1]>>
      BY <1>1, OnePasses
    <2> QED BY <1>1, <1>2, <2>1, <2>2
  <1> HIDE DEF r
  <1>7. r \in After(w, 0)
    BY <1>1, <1>3, <1>5, <1>6 DEF After, Refused, ReadUpto
  <1> QED BY <1>7 DEF r

\* Each later one reads the next, if there is one and none was refused.
LEMMA LaterTurn ==
  ASSUME NEW w \in Seq(Pair), Short(w), NEW n \in Nat, n > 0,
         NEW r \in After(w, n - 1)
  PROVE  Turn(r) \in After(w, n)
  <1> DEFINE k == IF n - 1 < Len(w) THEN n ELSE Len(w)
  <1>1. Len(w) \in Nat /\ k \in 0..Len(w) /\ r \in ModerateResults
        /\ (n - 1) + 1 = n
    BY DEF After, Refused, ReadUpto
  <1>2. CASE r \in Refused(w)
    BY <1>2 DEF Refused, Turn, After
  <1>3. CASE r \in ReadUpto(w, k) /\ k = Len(w)
    <2>1. r.data = <<>>
      BY <1>3, UptoEnds, SerializeNone DEF ReadUpto
    <2>2. Turn(r) = r /\ ~(n < Len(w))
      BY <1>1, <1>3, <2>1 DEF Turn
    <2> QED BY <1>3, <2>2 DEF After
  <1>4. CASE r \in ReadUpto(w, k) /\ k < Len(w)
    <2>1. k = n /\ n < Len(w) /\ k \in 0..(Len(w) - 1)
      BY <1>1, <1>4
    <2> DEFINE data == SerializeAll(From(w, k))
               s == Switch(r.d, data)
    <2>2. /\ r.how = "next" /\ Clean(r.d) /\ r.out = Upto(w, k)
          /\ r.data = data /\ r.d \in Moderate
      BY <1>1, <1>4 DEF ReadUpto, ModerateResults
    <2>3. k + 1 \in DOMAIN w
      BY <1>1, <2>1
    <2>4. ShortPair(w[k + 1])
      BY <2>3 DEF Short
    <2>5. IF Oversize(w[k + 1]) THEN s.how = "throw"
          ELSE /\ s.how = "next" /\ Clean(s.d) /\ s.out = <<w[k + 1]>>
               /\ s.data = SerializeAll(From(w, k + 1))
      <3> HIDE DEF k
      <3> QED BY <2>1, <2>2, <2>4, NextPair
    <2>6. From(w, k) \in Seq(Pair) /\ Len(From(w, k)) > 0
      <3> HIDE DEF k
      <3>1. From(w, k) \in Seq(Pair) /\ Len(From(w, k)) = Len(w) - k
        BY <1>1, UptoFrom
      <3> QED BY <1>1, <2>1, <3>1
    <2>7. data # <<>> /\ data \in Seq(Byte)
      <3>1. Len(From(w, k)) <= Len(data) /\ data \in Seq(Byte)
        BY <2>6, SerializeLong, SerializeAllType
      <3> QED BY <2>6, <3>1
    <2>8. s \in ModerateResults
      BY <2>2, <2>7, SwitchModerate
    <2>9. Turn(r) = [s EXCEPT !.out = r.out \o s.out]
      <3> HIDE DEF data
      <3> QED BY <2>2, <2>7, <2>8 DEF Turn, ModerateResults
    <2>10. Turn(r) \in ModerateResults
      BY <1>1, TurnModerate
    <2>11. Upto(w, k + 1) = Upto(w, k) \o <<w[k + 1]>>
      <3> HIDE DEF k
      <3> QED BY <2>1, OnePasses
    <2> HIDE DEF s, data, k
    <2>12. /\ Turn(r).how = s.how /\ Turn(r).d = s.d /\ Turn(r).data = s.data
           /\ Turn(r).out = r.out \o s.out
      BY <2>8, <2>9 DEF ModerateResults
    <2>13. CASE Oversize(w[k + 1])
      BY <2>3, <2>5, <2>10, <2>12, <2>13 DEF After, Refused
    <2>14. CASE ~Oversize(w[k + 1])
      <3>1. Turn(r) \in ReadUpto(w, k + 1)
        BY <2>2, <2>5, <2>10, <2>11, <2>12, <2>14 DEF ReadUpto
      <3> QED BY <2>1, <3>1 DEF After
    <2> QED BY <2>13, <2>14
  <1>5. r \in Refused(w) \/ r \in ReadUpto(w, k)
    BY <1>1 DEF After
  <1> QED BY <1>1, <1>2, <1>3, <1>4, <1>5

\* The loop delivers them all, unless one is over the limit, and is then
\* between pairs again.
LEMMA ParseWhole ==
  ASSUME NEW d \in Moderate, Clean(d), NEW w \in Seq(Pair), w # <<>>, Short(w)
  PROVE  Parse(d, SerializeAll(w)) \in Refused(w) \cup ReadUpto(w, Len(w))
  <1> DEFINE data == SerializeAll(w)
             N == Len(data)
             x0 == Switch(d, data)
             F == ParseTurns(data)
             f == Turns(N, x0, F)
             S == [n \in 0..N |-> After(w, n)]
  <1>1. data \in Seq(Byte) /\ Len(w) <= N /\ N \in Nat /\ Len(w) \in Nat
    BY SerializeAllType, SerializeLong
  <1>2. x0 \in After(w, 0) /\ x0 \in ModerateResults
    BY <1>1, FirstTurn, SwitchModerate
  <1>3. Steps(F, N, ModerateResults)
    BY <1>1, ModerateAre, TurnModerate, ParseSteps
  <1>4. Parse(d, data) = f[N]
    BY DEF Parse, ParseTurns, Iterate
  <1> HIDE DEF data, x0, f
  <1>5. Recursion(f, N, ModerateResults, x0, F)
    <2> HIDE DEF F, N
    <2> QED BY <1>1, <1>2, <1>3, TurnsAre DEF f
  <1>6. StaysAlong(N, f, S)
    <2>1. ASSUME NEW n \in 1..N, f[n - 1] \in S[n - 1] PROVE f[n] \in S[n]
      <3>1. n \in Nat /\ n > 0 /\ n - 1 \in 0..N /\ n \in 0..N
        BY <1>1
      <3>2. f[n - 1] \in After(w, n - 1) /\ f[n - 1] \in Results
        BY <1>5, <2>1, <3>1, ModerateAre DEF Recursion
      <3>3. f[n] = Turn(f[n - 1])
        BY <1>5, <3>2 DEF Recursion, ParseTurns
      <3> QED BY <3>1, <3>2, <3>3, LaterTurn
    <2> QED BY <2>1 DEF StaysAlong
  <1>7. f[0] \in S[0]
    BY <1>1, <1>2, <1>5 DEF Recursion
  <1>8. f[N] \in S[N]
    <2> HIDE DEF S, N
    <2>1. N \in 0..N
      BY <1>1
    <2> QED BY <1>1, <1>6, <1>7, <2>1, KeptAlong
  <1>9. f[N] \in After(w, N) /\ ~(N < Len(w))
    BY <1>1, <1>8
  <1> QED BY <1>4, <1>9 DEF After, data

\* feed for a record that holds whole, short pairs, when the parser waits
\* for a pair: it delivers them all, in order, reads no byte that nothing
\* wrote and waits for a pair again, or it throws, and then for a pair that
\* is over the limit (name-value-pairs.cpp:68-135).
THEOREM FeedWhole ==
  ASSUME NEW d \in Moderate, Clean(d), NEW w \in Seq(Pair), w # <<>>, Short(w)
  PROVE  LET f == Feed(d, SerializeAll(w)) IN
         \/ f.how = "next" /\ Clean(f.d) /\ f.out = w
         \/ f.how = "throw" /\ \E i \in DOMAIN w : Oversize(w[i])
  <1> DEFINE bytes == SerializeAll(w)
             n == Len(bytes)
             f == Feed(d, bytes)
  <1>1. bytes \in Seq(Byte) /\ n \in Nat /\ n > 0 /\ d.remaining_len = 0
    <2>1. Len(w) > 0 /\ Len(w) <= n /\ bytes \in Seq(Byte)
      BY EmptySeq, SerializeLong, SerializeAllType
    <2> QED BY <2>1 DEF Clean
  <1>2. SubSeq(bytes, 1, 0) = <<>> /\ SubSeq(bytes, 0 + 1, n) = bytes
    <2> HIDE DEF bytes
    <2> QED BY <1>1
  <1>3. Copy(d, <<>>) = d
    <2>1. CASE d.dest \in Lengths
      <3> DEFINE m == [k \in 1..4 |-> IF k - d.at \in DOMAIN <<>>
                                      THEN <<>>[k - d.at] ELSE d[d.dest][k]]
      <3>1. Copy(d, <<>>) = [d EXCEPT ![d.dest] = m]
        BY <2>1 DEF Copy
      <3>2. d[d.dest] \in Memory
        BY <2>1 DEF Moderate, Deserializer, Lengths, Memory
      <3>3. m = d[d.dest]
        BY <3>2 DEF Memory
      <3> HIDE DEF m
      <3> QED BY <3>1, <3>3 DEF Moderate, Deserializer
    <2>2. CASE d.dest \notin Lengths
      BY <2>2 DEF Copy
    <2> QED BY <2>1, <2>2
  <1>4. f = Parse(d, bytes)
    <2>1. f = Parse(Advance(Copy(d, SubSeq(bytes, 1, 0)), 0),
                    SubSeq(bytes, 0 + 1, n))
      <3> HIDE DEF bytes
      <3> QED BY <1>1 DEF Feed, CopyFits
    <2>2. Advance(d, 0) = d
      BY <1>1 DEF Advance
    <2> HIDE DEF bytes, n, f
    <2> QED BY <1>2, <1>3, <2>1, <2>2
  <1>5. f \in Refused(w) \cup ReadUpto(w, Len(w))
    BY <1>4, ParseWhole
  <1>6. Upto(w, Len(w)) = w
    BY UptoEnds
  <1> QED BY <1>5, <1>6 DEF Refused, ReadUpto

-----------------------------------------------------------------------------
(* A list on its way, cut between its pairs.                               *)

Between(w, j, k) == SubSeq(w, j + 1, k)
\* The pairs of a list between two cuts.
LEMMA CutInThree ==
  ASSUME NEW T, NEW w \in Seq(T), NEW k \in 0..Len(w), NEW j \in 0..k
  PROVE  /\ Between(w, j, k) \in Seq(T) /\ Len(Between(w, j, k)) = k - j
         /\ \A i \in 1..(k - j) : Between(w, j, k)[i] = w[j + i]
         /\ Upto(w, k) = Upto(w, j) \o Between(w, j, k)
         /\ From(w, j) = Between(w, j, k) \o From(w, k)
  <1> DEFINE b == Between(w, j, k)
             u == Upto(w, j)
             v == From(w, k)
             x == Upto(w, k)
             y == From(w, j)
  <1>1. j \in Nat /\ k \in Nat /\ Len(w) \in Nat /\ j \in 0..Len(w) /\ j <= k
        /\ k <= Len(w)
    OBVIOUS
  <1>2. /\ b \in Seq(T) /\ Len(b) = k - j
        /\ \A i \in 1..(k - j) : b[i] = w[j + i]
    BY <1>1 DEF Between
  <1>3. /\ u \in Seq(T) /\ Len(u) = j /\ \A i \in 1..j : u[i] = w[i]
        /\ x \in Seq(T) /\ Len(x) = k /\ \A i \in 1..k : x[i] = w[i]
    BY <1>1, UptoFrom
  <1>4. /\ v \in Seq(T) /\ Len(v) = Len(w) - k
        /\ \A i \in 1..(Len(w) - k) : v[i] = w[k + i]
        /\ y \in Seq(T) /\ Len(y) = Len(w) - j
        /\ \A i \in 1..(Len(w) - j) : y[i] = w[j + i]
    BY <1>1, UptoFrom
  <1> HIDE DEF b, u, v, x, y
  <1>5. x = u \o b
    <2>1. u \o b \in Seq(T) /\ Len(u \o b) = Len(x)
      <3>1. u \o b \in Seq(T) /\ Len(u \o b) = Len(u) + Len(b)
        BY <1>2, <1>3, Joined
      <3>2. Len(u) + Len(b) = Len(x)
        BY <1>1, <1>2, <1>3
      <3> QED BY <3>1, <3>2
    <2>2. ASSUME NEW i \in 1..Len(x) PROVE (u \o b)[i] = x[i]
      <3>1. CASE i <= j
        <4>1. i \in 1..Len(u) /\ i \in 1..j /\ i \in 1..k
          BY <1>1, <1>3, <3>1
        <4>2. (u \o b)[i] = u[i]
          BY <1>2, <1>3, <4>1
        <4> QED BY <1>3, <4>1, <4>2
      <3>2. CASE i > j
        <4>1. i - j \in 1..(k - j) /\ j + (i - j) = i /\ i \in 1..k
          BY <1>1, <1>3, <3>2
        <4>2. (u \o b)[i] = b[i - j]
          BY <1>1, <1>2, <1>3, <3>2
        <4> QED BY <1>2, <1>3, <4>1, <4>2
      <3>3. i <= j \/ i > j
        BY <1>1, <1>3
      <3> QED BY <3>1, <3>2, <3>3
    <2> QED BY <1>3, <2>1, <2>2, SeqEqual
  <1>6. y = b \o v
    <2>1. b \o v \in Seq(T) /\ Len(b \o v) = Len(y)
      <3>1. b \o v \in Seq(T) /\ Len(b \o v) = Len(b) + Len(v)
        BY <1>2, <1>4, Joined
      <3>2. Len(b) + Len(v) = Len(y)
        BY <1>1, <1>2, <1>4
      <3> QED BY <3>1, <3>2
    <2>2. ASSUME NEW i \in 1..Len(y) PROVE (b \o v)[i] = y[i]
      <3>1. CASE i <= k - j
        <4>1. i \in 1..Len(b) /\ i \in 1..(k - j) /\ i \in 1..(Len(w) - j)
          BY <1>1, <1>2, <1>4, <3>1
        <4>2. (b \o v)[i] = b[i]
          BY <1>2, <1>4, <4>1
        <4> QED BY <1>2, <1>4, <4>1, <4>2
      <3>2. CASE i > k - j
        <4>1. /\ i - (k - j) \in 1..(Len(w) - k) /\ k + (i - (k - j)) = j + i
              /\ i \in 1..(Len(w) - j)
          BY <1>1, <1>4, <3>2
        <4>2. (b \o v)[i] = v[i - (k - j)]
          BY <1>1, <1>2, <1>4, <3>2
        <4> QED BY <1>4, <4>1, <4>2
      <3>3. i <= k - j \/ i > k - j
        BY <1>1, <1>4
      <3> QED BY <3>1, <3>2, <3>3
    <2> QED BY <1>4, <2>1, <2>2, SeqEqual
  <1> QED BY <1>2, <1>5, <1>6 DEF b, u, v, x, y

\* The bytes of the pairs up to k are those that are not of the pairs after.
LEMMA WhereCut ==
  ASSUME NEW w \in Seq(Pair), NEW k \in 0..Len(w)
  PROVE  /\ Len(SerializeAll(Upto(w, k))) \in Nat
         /\ Len(SerializeAll(From(w, k))) \in Nat
         /\ Len(SerializeAll(w)) = Len(SerializeAll(Upto(w, k)))
                                   + Len(SerializeAll(From(w, k)))
         /\ k \in WholePairs(w, Len(SerializeAll(w))
                                - Len(SerializeAll(From(w, k))))
  <1> DEFINE u == Upto(w, k)
             v == From(w, k)
             a == SerializeAll(u)
             b == SerializeAll(v)
  <1>1. u \in Seq(Pair) /\ v \in Seq(Pair) /\ w = u \o v
    BY UptoFrom, CutInTwo
  <1>2. a \in Seq(Byte) /\ b \in Seq(Byte) /\ SerializeAll(w) = a \o b
    <2> HIDE DEF u, v
    <2> QED BY <1>1, SerializeAllType, SerializeConcat
  <1> HIDE DEF a, b
  <1>3. /\ Len(a) \in Nat /\ Len(b) \in Nat
        /\ Len(SerializeAll(w)) = Len(a) + Len(b)
    BY <1>2, Joined
  <1>4. Len(SerializeAll(w)) - Len(b) = Len(a)
    BY <1>3
  <1>5. k \in WholePairs(w, Len(SerializeAll(w)) - Len(b))
    BY <1>4 DEF WholePairs, a
  <1> QED BY <1>3, <1>5 DEF a, b

\* A record of n bytes that ends between pairs, after one that did, holds the
\* pairs between.
AtPair(w, bytes, j) == j \in 0..Len(w) /\ bytes = SerializeAll(From(w, j))
EndsAt(w, bytes, n, k) ==
    k \in WholePairs(w, Len(SerializeAll(w)) - Len(bytes) + n)
LEMMA WholeRecord ==
  ASSUME NEW w \in Seq(Pair), NEW bytes, NEW j, AtPair(w, bytes, j),
         NEW n \in 1..Len(bytes), NEW k, EndsAt(w, bytes, n, k)
  PROVE  /\ k \in 0..Len(w) /\ j \in 0..k /\ j < k
         /\ SubSeq(bytes, 1, n) = SerializeAll(Between(w, j, k))
         /\ SubSeq(bytes, n + 1, Len(bytes)) = SerializeAll(From(w, k))
  <1> DEFINE uj == SerializeAll(Upto(w, j))
             uk == SerializeAll(Upto(w, k))
  <1>1. /\ k \in 0..Len(w) /\ Len(uk) = Len(SerializeAll(w)) - Len(bytes) + n
        /\ j \in 0..Len(w) /\ bytes = SerializeAll(From(w, j))
    BY DEF WholePairs, EndsAt, AtPair
  <1>2. /\ Len(uj) \in Nat /\ Len(bytes) \in Nat
        /\ Len(SerializeAll(w)) = Len(uj) + Len(bytes)
    BY <1>1, WhereCut
  <1>3. Len(uk) \in Nat
    BY <1>1, WhereCut
  <1> HIDE DEF uj, uk
  <1>4. Len(uk) = Len(uj) + n /\ n \in Nat /\ n > 0
    BY <1>1, <1>2, <1>3
  <1>5. \A a \in 0..Len(w) : \A b \in 0..a :
          /\ Between(w, b, a) \in Seq(Pair)
          /\ SerializeAll(Between(w, b, a)) \in Seq(Byte)
          /\ SerializeAll(Upto(w, a))
               = SerializeAll(Upto(w, b)) \o SerializeAll(Between(w, b, a))
          /\ SerializeAll(From(w, b))
               = SerializeAll(Between(w, b, a)) \o SerializeAll(From(w, a))
          /\ Len(SerializeAll(Upto(w, a))) = Len(SerializeAll(Upto(w, b)))
                                   + Len(SerializeAll(Between(w, b, a)))
    <2>1. SUFFICES ASSUME NEW a \in 0..Len(w), NEW b \in 0..a
          PROVE
          /\ Between(w, b, a) \in Seq(Pair)
          /\ SerializeAll(Between(w, b, a)) \in Seq(Byte)
          /\ SerializeAll(Upto(w, a))
               = SerializeAll(Upto(w, b)) \o SerializeAll(Between(w, b, a))
          /\ SerializeAll(From(w, b))
               = SerializeAll(Between(w, b, a)) \o SerializeAll(From(w, a))
          /\ Len(SerializeAll(Upto(w, a))) = Len(SerializeAll(Upto(w, b)))
                                   + Len(SerializeAll(Between(w, b, a)))
      OBVIOUS
    <2> DEFINE m == Between(w, b, a)
               u == Upto(w, b)
               v == From(w, a)
    <2>2. /\ m \in Seq(Pair) /\ Upto(w, a) = u \o m /\ From(w, b) = m \o v
      BY CutInThree
    <2>3. b \in 0..Len(w)
      OBVIOUS
    <2>4. u \in Seq(Pair) /\ v \in Seq(Pair)
      BY <2>3, UptoFrom
    <2> HIDE DEF m, u, v
    <2>5. /\ SerializeAll(u \o m) = SerializeAll(u) \o SerializeAll(m)
          /\ SerializeAll(m \o v) = SerializeAll(m) \o SerializeAll(v)
      BY <2>2, <2>4, SerializeConcat
    <2>6. SerializeAll(u) \in Seq(Byte) /\ SerializeAll(m) \in Seq(Byte)
      BY <2>2, <2>4, SerializeAllType
    <2>7. Len(SerializeAll(u) \o SerializeAll(m))
            = Len(SerializeAll(u)) + Len(SerializeAll(m))
      BY <2>6, Joined
    <2> QED BY <2>2, <2>5, <2>6, <2>7 DEF m, u, v
  <1>6. j < k /\ j \in 0..k
    <2>1. ASSUME k <= j PROVE FALSE
      <3>1. k \in 0..j
        BY <1>1, <2>1
      <3>2. Len(uj) = Len(uk) + Len(SerializeAll(Between(w, k, j)))
            /\ SerializeAll(Between(w, k, j)) \in Seq(Byte)
        BY <1>1, <1>5, <3>1 DEF uj, uk
      <3>3. Len(SerializeAll(Between(w, k, j))) \in Nat
        BY <3>2, Joined
      <3> QED BY <1>2, <1>3, <1>4, <3>2, <3>3
    <2> QED BY <1>1, <2>1
  <1> DEFINE m == SerializeAll(Between(w, j, k))
             v == SerializeAll(From(w, k))
  <1>7. m \in Seq(Byte) /\ bytes = m \o v /\ Len(uk) = Len(uj) + Len(m)
    BY <1>1, <1>5, <1>6 DEF uj, uk
  <1>8. v \in Seq(Byte)
    BY <1>1, UptoFrom, SerializeAllType
  <1> HIDE DEF m, v
  <1>9. Len(m) = n
    <2>1. Len(m) \in Nat
      BY <1>7, Joined
    <2> QED BY <1>2, <1>3, <1>4, <1>7, <2>1
  <1>10. SubSeq(m \o v, 1, Len(m)) = m
         /\ SubSeq(m \o v, Len(m) + 1, Len(m \o v)) = v
    BY <1>7, <1>8
  <1> QED BY <1>1, <1>6, <1>7, <1>9, <1>10 DEF m, v

-----------------------------------------------------------------------------
(* A reader of the format finds the pairs that were serialized.            *)

\* Division, as the digits of a size need it.
LEMMA Quotients ==
  ASSUME NEW n \in Nat, NEW a \in Nat, a > 0
  PROVE  n = (n \div a) * a + (n % a)
  OBVIOUS

\* Dividing twice is dividing once.
LEMMA QuotientTwice ==
  ASSUME NEW n \in Nat, NEW a \in Nat, a > 0, NEW b \in Nat, b > 0
  PROVE  (n \div a) \div b = n \div (a * b)
  OBVIOUS

\* A quotient is below what bounds the dividend.
LEMMA QuotientBelow ==
  ASSUME NEW n \in Nat, NEW a \in Nat, a > 0, NEW b \in Nat, n < b * a
  PROVE  n \div a < b
  OBVIOUS

\* The four digits of a size, put together again.
LEMMA Digits ==
  ASSUME NEW n \in Nat, Representable(n)
  PROVE  LET q1 == n \div Radix
             q2 == n \div (Radix * Radix)
             q3 == n \div (Radix * Radix * Radix)
         IN  /\ q3 % TopBit = q3 /\ q3 \in Nat
             /\ ((q3 * Radix + (q2 % Radix)) * Radix + (q1 % Radix)) * Radix
                  + (n % Radix) = n
  <1> DEFINE R == Radix
             R2 == R * R
             R3 == R2 * R
             q1 == n \div R
             q2 == n \div R2
             q3 == n \div R3
  <1>1. R \in Nat /\ R > 0 /\ TopBit \in Nat /\ TopBit > 0
    BY Bytes
  <1> HIDE DEF R
  <1>2. R2 \in Nat /\ R2 > 0
    BY <1>1
  <1>3. R3 \in Nat /\ R3 > 0
    <2> HIDE DEF R2
    <2> QED BY <1>1, <1>2
  <1>4. n < TopBit * R3
    BY DEF Representable, R
  <1>5. q1 \div R = q2 /\ q2 \div R = q3
    <2>1. (n \div R) \div R = n \div (R * R)
      BY <1>1, QuotientTwice
    <2>2. (n \div R2) \div R = n \div (R2 * R)
      <3> HIDE DEF R2
      <3> QED BY <1>1, <1>2, QuotientTwice
    <2> QED BY <2>1, <2>2
  <1>6. q3 < TopBit
    <2> HIDE DEF R3
    <2> QED BY <1>1, <1>3, <1>4, QuotientBelow
  <1>7. q1 \in Nat /\ q2 \in Nat /\ q3 \in Nat
    <2> HIDE DEF R2, R3
    <2> QED BY <1>1, <1>2, <1>3, Remainders
  <1> HIDE DEF R3, R2, q1, q2, q3
  <1>8. q3 % TopBit = q3
    BY <1>1, <1>6, <1>7, Remainders
  <1>9. n = q1 * R + (n % R) /\ q1 = q2 * R + (q1 % R) /\ q2 = q3 * R + (q2 % R)
    BY <1>1, <1>5, <1>7, Quotients DEF q1
  <1>10. ((q3 * R + (q2 % R)) * R + (q1 % R)) * R + (n % R) = n
    BY <1>9
  <1> QED BY <1>7, <1>8, <1>10 DEF q1, q2, q3, R3, R2, R

\* The size at the head of bytes that begin with a serialized one.
LEMMA SizeBack ==
  ASSUME NEW n \in Nat, Representable(n), NEW rest \in Seq(Byte)
  PROVE  LET b == SizeBytes(n) \o rest IN
         /\ b \in Seq(Byte)
         /\ SizeAt(b) = n
         /\ SubSeq(b, SizeLen(b) + 1, Len(b)) = rest
  <1> DEFINE h == SizeBytes(n)
             b == h \o rest
  <1>1. CASE n < TopBit
    <2>1. h = <<n>> /\ n \in Byte
      BY <1>1, Bytes DEF SizeBytes, Byte
    <2>2. b \in Seq(Byte) /\ b[1] = n /\ SubSeq(b, 1 + 1, Len(b)) = rest
      BY <2>1
    <2> HIDE DEF b
    <2>3. SizeAt(b) = n /\ SizeLen(b) = 1
      BY <1>1, <2>2 DEF SizeAt, SizeLen
    <2> QED BY <2>2, <2>3 DEF b
  <1>2. CASE n >= TopBit
    <2> DEFINE q1 == n \div Radix
               q2 == n \div (Radix * Radix)
               q3 == n \div (Radix * Radix * Radix)
               h1 == TopBit + (q3 % TopBit)
               h2 == q2 % Radix
               h3 == q1 % Radix
               h4 == n % Radix
    <2>1. h = <<h1, h2, h3, h4>>
      BY <1>2, Bytes DEF SizeBytes
    <2>2. h \in Seq(Byte) /\ Len(h) = 4
      BY <1>2, SizeBytesType
    <2>3. \A i \in 1..4 : h[i] \in Byte
      BY <2>2, ElementOfSeq
    <2>4. h1 \in Nat /\ h2 \in Nat /\ h3 \in Nat /\ h4 \in Nat
      <3>1. h1 \in Byte /\ h2 \in Byte /\ h3 \in Byte /\ h4 \in Byte
        <4> HIDE DEF h1, h2, h3, h4, h
        <4> QED BY <2>1, <2>3
      <3> HIDE DEF h1, h2, h3, h4
      <3> QED BY <3>1, Bytes
    <2>5. /\ q3 % TopBit = q3 /\ q3 \in Nat
          /\ ((q3 * Radix + h2) * Radix + h3) * Radix + h4 = n
      BY Digits
    <2> HIDE DEF q3, h2, h3, h4
    <2>6. h1 - TopBit = q3 /\ ~(h1 < TopBit)
      BY <2>5, Bytes
    <2> HIDE DEF h, h1
    <2>7. /\ b \in Seq(Byte) /\ b[1] = h1 /\ SubSeq(b, 4 + 1, Len(b)) = rest
          /\ SubSeq(b, 1, 4) = h
      <3>1. b \in Seq(Byte) /\ b[1] = h[1]
        BY <2>2, Joined, Prefixed
      <3>2. SubSeq(b, Len(h) + 1, Len(b)) = rest /\ SubSeq(b, 1, Len(h)) = h
        <4>1. h \in Seq(Byte)
          BY <2>2
        <4> QED BY <4>1, Prefixed
      <3>3. h[1] = h1
        BY <2>1
      <3> HIDE DEF b
      <3> QED BY <2>2, <3>1, <3>2, <3>3
    <2> HIDE DEF b
    <2>8. [h EXCEPT ![1] = @ - TopBit] = <<q3, h2, h3, h4>>
      BY <2>1, <2>6
    <2>9. BigEndian(<<q3, h2, h3, h4>>) = n
      BY <2>5 DEF BigEndian
    <2>10. SizeAt(b) = n /\ SizeLen(b) = 4
      BY <2>6, <2>7, <2>8, <2>9 DEF SizeAt, SizeLen
    <2> QED BY <2>7, <2>10 DEF b, h
  <1>3. n < TopBit \/ n >= TopBit
    BY Bytes
  <1> HIDE DEF h
  <1> QED BY <1>1, <1>2, <1>3 DEF h

Fits(p) == Representable(Len(p.name)) /\ Representable(Len(p.value))

\* One pair read.
LEMMA DecodeFirst ==
  ASSUME NEW p \in Pair, Fits(p), NEW rest \in Seq(Byte), NEW out \in Seq(Pair)
  PROVE  DecodeOne([rest |-> Serialize(p) \o rest, out |-> out])
           = [rest |-> rest, out |-> out \o <<p>>]
  <1> DEFINE x == p.name
             y == p.value
             n == Len(x)
             v == Len(y)
             e == x \o (y \o rest)
             hv == SizeBytes(v)
             hn == SizeBytes(n)
             c == hv \o e
             b == hn \o c
             s == [rest |-> b, out |-> out]
  <1>1. /\ x \in Seq(Byte) /\ y \in Seq(Byte) /\ n \in Nat /\ v \in Nat
        /\ Representable(n) /\ Representable(v)
        /\ p = [name |-> x, value |-> y]
    BY DEF Pair, Fits
  <1>2. e \in Seq(Byte)
    BY <1>1
  <1>3. c \in Seq(Byte) /\ SizeAt(c) = v /\ SubSeq(c, SizeLen(c) + 1, Len(c)) = e
    <2> HIDE DEF v, e
    <2> QED BY <1>1, <1>2, SizeBack
  <1>4. b \in Seq(Byte) /\ SizeAt(b) = n /\ SubSeq(b, SizeLen(b) + 1, Len(b)) = c
    <2> HIDE DEF n, c
    <2> QED BY <1>1, <1>3, SizeBack
  <1>5. Serialize(p) \o rest = b
    <2>1. /\ hn \in Seq(Byte) /\ hv \in Seq(Byte)
          /\ Serialize(p) = hn \o (hv \o (x \o y))
      BY Parts
    <2> HIDE DEF hn, hv, x, y
    <2>2. (hn \o (hv \o (x \o y))) \o rest = hn \o (hv \o (x \o (y \o rest)))
      <3>1. x \o y \in Seq(Byte) /\ (x \o y) \o rest = x \o (y \o rest)
        BY <1>1, ConcatAssociative
      <3> DEFINE xy == x \o y
      <3> HIDE DEF xy
      <3>2. xy \in Seq(Byte)
        BY <3>1 DEF xy
      <3>3. (hv \o xy) \o rest = hv \o (xy \o rest) /\ hv \o xy \in Seq(Byte)
        <4>1. hv \in Seq(Byte)
          BY <2>1
        <4> QED BY ONLY <3>2, <4>1, rest \in Seq(Byte), ConcatAssociative
      <3> DEFINE z == hv \o xy
      <3> HIDE DEF z
      <3>4. (hn \o z) \o rest = hn \o (z \o rest)
        <4>1. z \in Seq(Byte) /\ hn \in Seq(Byte)
          BY <2>1, <3>3 DEF z
        <4> QED BY ONLY <4>1, rest \in Seq(Byte), ConcatAssociative
      <3> QED BY <3>1, <3>3, <3>4 DEF z, xy
    <2> QED BY <2>1, <2>2
  <1>6. b # <<>>
    <2>1. Serialize(p) \in Seq(Byte) /\ Len(Serialize(p)) > 1
      BY SerializeType
    <2>2. Len(Serialize(p) \o rest) > 0
      <3>1. Len(rest) \in Nat
        OBVIOUS
      <3> QED BY <2>1, <3>1, Joined
    <2> HIDE DEF b
    <2> QED BY <1>5, <2>2
  <1>7. /\ SubSeq(e, 1, n) = x /\ SubSeq(e, n + 1, n + v) = y
        /\ SubSeq(e, n + v + 1, Len(e)) = rest
    <2> HIDE DEF x, y
    <2>1. SubSeq(e, 1, n) = x
      BY <1>1
    <2>2. SubSeq(e, n + 1, n + v) = y
      BY <1>1
    <2>3. Len(e) = n + (v + Len(rest)) /\ Len(rest) \in Nat
      BY <1>1
    <2>4. SubSeq(e, n + v + 1, n + (v + Len(rest))) = rest
      BY <1>1
    <2> QED BY <2>1, <2>2, <2>3, <2>4
  <1> HIDE DEF b, c, e, n, v, x, y
  <1>8. DecodeOne(s) = [rest |-> SubSeq(e, n + v + 1, Len(e)),
                        out |-> Append(out, [name |-> SubSeq(e, 1, n),
                                       value |-> SubSeq(e, n + 1, n + v)])]
    BY <1>3, <1>4, <1>6 DEF DecodeOne
  <1>9. DecodeOne(s) = [rest |-> rest, out |-> Append(out, p)]
    BY <1>1, <1>7, <1>8
  <1>10. Append(out, p) = out \o <<p>>
    OBVIOUS
  <1> QED BY <1>5, <1>9, <1>10

\* Where the reader of a list is after k pairs.
DecodedUpto(w, k) ==
    [rest |-> SerializeAll(From(w, k)), out |-> Upto(w, k)]
\* One turn of the reader takes the next pair of the list, if there is one.
LEMMA DecodeNext ==
  ASSUME NEW w \in Seq(Pair), \A i \in DOMAIN w : Fits(w[i]), NEW k \in 0..Len(w)
  PROVE  /\ DecodedUpto(w, k) \in [rest : Seq(Byte), out : Seq(Pair)]
         /\ DecodeOne(DecodedUpto(w, k))
              = DecodedUpto(w, IF k < Len(w) THEN k + 1 ELSE Len(w))
  <1>1. Upto(w, k) \in Seq(Pair) /\ From(w, k) \in Seq(Pair)
    BY UptoFrom
  <1>2. SerializeAll(From(w, k)) \in Seq(Byte)
    BY <1>1, SerializeAllType
  <1>3. CASE k < Len(w)
    <2> DEFINE p == w[k + 1]
               rest == SerializeAll(From(w, k + 1))
    <2>1. k \in 0..(Len(w) - 1) /\ k + 1 \in DOMAIN w
      BY <1>3
    <2>2. /\ p \in Pair /\ k + 1 \in 0..Len(w)
          /\ Upto(w, k + 1) = Upto(w, k) \o <<p>>
          /\ From(w, k) = <<p>> \o From(w, k + 1)
      BY <2>1, OnePasses
    <2>3. Fits(p)
      BY <2>1
    <2> HIDE DEF p
    <2>4. From(w, k + 1) \in Seq(Pair)
      BY <2>2, UptoFrom
    <2>5. rest \in Seq(Byte)
      BY <2>4, SerializeAllType
    <2>6. SerializeAll(From(w, k)) = Serialize(p) \o rest
      BY <2>2, <2>4, SerializeFirst
    <2> HIDE DEF rest
    <2>7. DecodeOne([rest |-> Serialize(p) \o rest, out |-> Upto(w, k)])
            = [rest |-> rest, out |-> Upto(w, k) \o <<p>>]
      BY <1>1, <2>2, <2>3, <2>5, DecodeFirst
    <2>8. DecodeOne(DecodedUpto(w, k)) = DecodedUpto(w, k + 1)
      BY <2>2, <2>6, <2>7 DEF DecodedUpto, rest
    <2> QED BY <1>1, <1>2, <1>3, <2>8 DEF DecodedUpto
  <1>4. CASE k = Len(w)
    <2>1. SerializeAll(From(w, k)) = <<>>
      BY <1>4, UptoEnds, SerializeNone
    <2>2. DecodeOne(DecodedUpto(w, k)) = DecodedUpto(w, k)
      BY <2>1 DEF DecodeOne, DecodedUpto
    <2>3. ~(k < Len(w))
      BY <1>4
    <2> QED BY <1>1, <1>2, <1>4, <2>2, <2>3 DEF DecodedUpto
  <1> QED BY <1>3, <1>4

\* A reader of the format finds in what serialize writes the pairs it was
\* given, for any pairs whose sizes four bytes can hold
\* (name-value-pairs.cpp:137-159).
THEOREM DecodeSerialized ==
  ASSUME NEW w \in Seq(Pair), \A i \in DOMAIN w : Fits(w[i])
  PROVE  Decode(SerializeAll(w)) = w
  <1> DEFINE b == SerializeAll(w)
             N == Len(b)
             x0 == [rest |-> b, out |-> <<>>]
             Domain == [rest : Seq(Byte), out : Seq(Pair)]
             F == [n \in 1..N |-> [s \in Domain |-> DecodeOne(s)]]
             f == Turns(N, x0, F)
             G == {DecodedUpto(w, k) : k \in 0..Len(w)}
             to(n) == IF n < Len(w) THEN n ELSE Len(w)
             S == [n \in 0..N |-> {DecodedUpto(w, to(n))}]
  <1>1. b \in Seq(Byte) /\ N \in Nat /\ Len(w) <= N /\ Len(w) \in Nat
    BY SerializeAllType, SerializeLong
  <1>2. x0 = DecodedUpto(w, 0) /\ 0 \in 0..Len(w)
    BY <1>1, UptoEnds DEF DecodedUpto
  <1>3. Decode(b) = f[N].out
    BY DEF Decode, Iterate
  <1>4. \A n \in 1..N, k \in 0..Len(w) :
          F[n][DecodedUpto(w, k)]
            = DecodedUpto(w, IF k < Len(w) THEN k + 1 ELSE Len(w))
    <2> HIDE DEF N
    <2> QED BY DecodeNext
  <1> HIDE DEF F, b, N, x0
  <1>5. Steps(F, N, G)
    <2>1. ASSUME NEW n \in 1..N, NEW s \in G PROVE F[n][s] \in G
      <3>1. PICK k \in 0..Len(w) : s = DecodedUpto(w, k)
        OBVIOUS
      <3>2. (IF k < Len(w) THEN k + 1 ELSE Len(w)) \in 0..Len(w)
        BY <1>1
      <3> QED BY <1>4, <3>1, <3>2
    <2> QED BY <2>1 DEF Steps
  <1>6. x0 \in G
    BY <1>2
  <1> HIDE DEF G, f
  <1>7. Recursion(f, N, G, x0, F)
    BY <1>1, <1>5, <1>6, TurnsAre DEF f
  <1>8. StaysAlong(N, f, S)
    <2>1. ASSUME NEW n \in 1..N, f[n - 1] \in S[n - 1] PROVE f[n] \in S[n]
      <3>1. n \in 0..N /\ n - 1 \in 0..N /\ to(n - 1) \in 0..Len(w)
            /\ to(n) = IF to(n - 1) < Len(w) THEN to(n - 1) + 1 ELSE Len(w)
        BY <1>1
      <3>2. f[n] = F[n][f[n - 1]]
        BY <1>7 DEF Recursion
      <3>3. f[n - 1] = DecodedUpto(w, to(n - 1))
        BY <2>1, <3>1
      <3> HIDE DEF to
      <3>4. f[n] = DecodedUpto(w, to(n))
        BY <1>4, <3>1, <3>2, <3>3
      <3> QED BY <3>1, <3>4
    <2> QED BY <2>1 DEF StaysAlong
  <1>9. f[0] \in S[0]
    <2>1. f[0] = x0 /\ to(0) = 0 /\ 0 \in 0..N
      BY <1>1, <1>7 DEF Recursion
    <2> HIDE DEF to
    <2> QED BY <1>2, <2>1
  <1>10. f[N] \in S[N]
    <2> HIDE DEF S
    <2>1. N \in 0..N
      BY <1>1
    <2> QED BY <1>1, <1>8, <1>9, <2>1, KeptAlong
  <1>11. to(N) = Len(w) /\ N \in 0..N
    BY <1>1
  <1>12. f[N] = DecodedUpto(w, Len(w))
    <2> HIDE DEF to
    <2> QED BY <1>10, <1>11
  <1>13. Upto(w, Len(w)) = w
    BY UptoEnds
  <1> QED BY <1>3, <1>12, <1>13 DEF DecodedUpto, b
=============================================================================
