--------------------------------- MODULE NVP ---------------------------------
(***************************************************************************)
(* Name-value pairs: fcgi::NVP::serialize, and Deserializer::feed as an    *)
(* operator from a deserializer and the content of one packet to the       *)
(* deserializer after it, the pairs given to new_key and how feed ended.   *)
(*                                                                         *)
(* A byte is a number below Radix (256 in the code), a length takes one    *)
(* byte or sizeof(uint32_t) of them, and name_len and value_len are the    *)
(* four bytes they have in memory.  Where the code reads or writes memory  *)
(* that the deserializer or the packet does not own, or reads bytes of a   *)
(* length that nothing wrote, feed ends "undefined".                       *)
(***************************************************************************)
EXTENDS Integers, Sequences, SequencesExt, Iteration

CONSTANTS Radix,         \* values of a byte
          LittleEndian,  \* of the host
          Limit          \* effective_max_pair_size()

ASSUME NVPAssumption ==
    /\ Radix \in Nat /\ Radix % 2 = 0 /\ Radix > 2
    /\ LittleEndian \in BOOLEAN
    /\ Limit \in Nat

VARIABLE process    \* what became of it: "running", "terminated", "undefined"

TopBit == Radix \div 2
Byte == 0..(Radix - 1)
Uninit == Radix         \* a byte of memory that nothing wrote
Pair == [name : Seq(Byte), value : Seq(Byte)]

-----------------------------------------------------------------------------
(* The serializer.                                                         *)

\* serialize_size: big-endian, the top bit marks the long form (and is lost
\* as a digit of sizes that need it).
SizeBytes(n) ==
    IF n < TopBit THEN <<n>>
    ELSE <<TopBit + ((n \div (Radix * Radix * Radix)) % TopBit),
           (n \div (Radix * Radix)) % Radix, (n \div Radix) % Radix,
           n % Radix>>

Serialize(p) ==
    SizeBytes(Len(p.name)) \o SizeBytes(Len(p.value)) \o p.name \o p.value
Serializer == [p \in Pair |-> [b \in Seq(Byte) |-> b \o Serialize(p)]]
SerializeAll(pairs) == FoldList(pairs, <<>>, Serializer)

-----------------------------------------------------------------------------
(* Lengths in memory.                                                      *)

Word == Radix * Radix * Radix * Radix
BigEndian(m) == ((m[1] * Radix + m[2]) * Radix + m[3]) * Radix + m[4]
Ntohl(m) == IF LittleEndian THEN Reverse(m) ELSE m
Native(m) == BigEndian(Ntohl(m))

Lengths == {"name_len", "value_len"}
ParserStates == {"READ_NEW", "READ_NAME_LEN", "READ_VALUE_LEN"}

\* The fields of a deserializer.  current_buffer is the place at in dest,
\* an object of size bytes; what string_buffer holds is never delivered.
\* READ_BUFFER is never assigned to parse_state, nor WILL_READ_BUFFER.
Deserializer ==
    [parse_state : ParserStates,
     name_len : [1..4 -> Byte \cup {Uninit}],
     value_len : [1..4 -> Byte \cup {Uninit}],
     dest : Lengths \cup {"none", "string_buffer"},
     at : Nat, size : Nat, remaining_len : Nat]

Fresh == [parse_state |-> "READ_NEW",
          name_len |-> [k \in 1..4 |-> Uninit],
          value_len |-> [k \in 1..4 |-> Uninit],
          dest |-> "none", at |-> 0, size |-> 0, remaining_len |-> 0]

\* Where current_buffer points matters only while remaining_len says so.
Advance(d, n) == IF d.remaining_len = 0 THEN d ELSE [d EXCEPT !.at = @ + n]

CopyFits(d, n) == n = 0 \/ d.at + n <= d.size

\* memcpy(current_buffer, bytes, Len(bytes)); it stays inside its object.
Copy(d, bytes) ==
    IF d.dest \in Lengths
    THEN [d EXCEPT ![d.dest] =
            [k \in 1..4 |-> IF k - d.at \in DOMAIN bytes
                            THEN bytes[k - d.at] ELSE @[k]]]
    ELSE d

-----------------------------------------------------------------------------
(* The parser.                                                             *)

\* What a part of the parser returns: how it ended, the deserializer, what it
\* leaves of the packet, the pairs it gave to new_key.
Results == [how : {"next", "stop", "throw", "undefined", "end"},
            d : Deserializer, data : Seq(Byte), out : Seq(Pair)]
Ended(how, d, data) == [how |-> how, d |-> d, data |-> data, out |-> <<>>]

\* read_keyval_length for one field: "stop" when it returns true.  A length
\* cut by the end of the packet loses its top bit, a whole one keeps it and
\* stops the parse unless exactly four bytes follow.
ReadLength(d, data, field) ==
    LET rest == SubSeq(data, 5, Len(data)) IN
    CASE data = <<>> -> Ended("undefined", d, data)
      [] data # <<>> /\ data[1] < TopBit ->
           Ended("next", Advance([d EXCEPT ![field] = <<0, 0, 0, data[1]>>], 1),
                 Tail(data))
      [] data # <<>> /\ data[1] >= TopBit /\ Len(data) < 4 ->
           Ended("stop",
                 [Copy([d EXCEPT !.dest = field, !.at = 0],
                       [data EXCEPT ![1] = @ - TopBit])
                    EXCEPT !.at = Len(data), !.size = 4,
                           !.remaining_len = 4 - Len(data)],
                 data)
      [] OTHER ->
           Ended(IF Len(rest) = 4 THEN "next" ELSE "stop",
                 Advance([d EXCEPT ![field] = SubSeq(data, 1, 4)], 4), rest)

\* Mutant: only the name is measured.
TooLargeName(n, v) == n % Word > Limit

\* The sum is made in 32 bits.
TooLarge(n, v) == (n + v) % Word > Limit

\* Cases READ_VALUE_LEN and WILL_READ_BUFFER: "next" after a pair that lay
\* whole in the packet, else the pair is copied and waited for.
ReadPair(d, data) ==
    LET e == [d EXCEPT !.name_len = Ntohl(@), !.value_len = Ntohl(@)]
        n == Native(e.name_len)
        v == Native(e.value_len)
        sum == (n + v) % Word
    IN CASE \E k \in 1..4 : Uninit \in {d.name_len[k], d.value_len[k]} ->
              Ended("undefined", d, data)
         [] OTHER ->
              IF TooLarge(n, v) THEN Ended("throw", e, data)
              ELSE IF Len(data) < sum
              THEN Ended("stop",
                     [e EXCEPT !.dest = "string_buffer", !.at = Len(data),
                        !.size = sum, !.remaining_len = sum - Len(data)],
                     data)
              ELSE IF n + v # sum THEN Ended("undefined", e, data)
              ELSE [how |-> "next",
                    d |-> Advance([e EXCEPT !.parse_state = "READ_NEW"], sum),
                    data |-> SubSeq(data, sum + 1, Len(data)),
                    out |-> <<[name |-> SubSeq(data, 1, n),
                               value |-> SubSeq(data, n + 1, sum)]>>]

\* The switch falls through from one case to the next.
At(state, r) == IF r.how = "stop" THEN [r EXCEPT !.d.parse_state = state] ELSE r
FromValueLen(d, data) ==
    LET r == ReadLength(d, data, "value_len") IN
    IF r.how = "next" THEN ReadPair(r.d, r.data) ELSE At("READ_VALUE_LEN", r)
FromNameLen(d, data) ==
    LET r == ReadLength(d, data, "name_len") IN
    IF r.how = "next" THEN FromValueLen(r.d, r.data) ELSE At("READ_NAME_LEN", r)
Switch(d, data) ==
    CASE d.parse_state = "READ_NEW" -> FromNameLen(d, data)
      [] d.parse_state = "READ_NAME_LEN" -> FromValueLen(d, data)
      [] d.parse_state = "READ_VALUE_LEN" -> ReadPair(d, data)

\* One more turn of the main parse loop, do ... while (len), if it goes on.
Turn(r) ==
    IF r.how # "next" \/ r.data = <<>> THEN r
    ELSE LET s == Switch(r.d, r.data) IN [s EXCEPT !.out = r.out \o @]

\* Every turn but the first consumes two bytes at least: as many turns as
\* there are bytes are enough.
Parse(d, data) ==
    Iterate(Len(data), Switch(d, data),
            [n \in 1..Len(data) |-> [r \in Results |-> Turn(r)]])

\* Mutant: what is pending is counted down below zero.
FeedPastEnd(d, bytes) ==
    IF bytes = <<>> THEN Ended("end", d, bytes)
    ELSE IF d.remaining_len = 0 THEN Parse(d, bytes)
    ELSE Ended("stop", [d EXCEPT !.remaining_len = @ - Len(bytes)],
               bytes)

\* feed: "end" for the empty packet (it returns true), then the pending
\* copy, after which remaining_len is left as it is, then the loop.
Feed(d, bytes) ==
    LET n == Len(bytes)
        m == d.remaining_len
    IN CASE n = 0 -> Ended("end", d, bytes)
         [] n > 0 /\ ~CopyFits(d, IF m > n THEN n ELSE m) ->
              Ended("undefined", d, bytes)
         [] n > 0 /\ CopyFits(d, n) /\ m > n ->
              Ended("stop", [Copy(d, bytes) EXCEPT !.remaining_len = @ - n],
                    bytes)
         [] OTHER -> Parse(Advance(Copy(d, SubSeq(bytes, 1, m)), m),
                           SubSeq(bytes, m + 1, n))

-----------------------------------------------------------------------------
(* The format, for the properties: a peer's view of a stream of pairs.     *)

ShortPair(p) == Len(p.name) < TopBit /\ Len(p.value) < TopBit
Oversize(p) == Len(p.name) + Len(p.value) > Limit

\* Four bytes hold 31 bits of a size.
Representable(n) == n < TopBit * (Radix * Radix * Radix)

Within == {p \in Pair : ~Oversize(p)}

\* A list up to its k-th element, and from there.
Upto(list, k) == SubSeq(list, 1, k)
From(list, k) == SubSeq(list, k + 1, Len(list))

\* How many whole pairs the bytes sent so far are, when they are.
WholePairs(pairs, sent) ==
    {k \in 0..Len(pairs) : Len(SerializeAll(Upto(pairs, k))) = sent}

\* A deserializer whose buffer is within the limit, and one between pairs.
Moderate ==
    {d \in Deserializer : d.dest = "string_buffer" => d.size <= Limit}
Clean(d) == d.parse_state = "READ_NEW" /\ d.remaining_len = 0

\* The size a reader of the format finds at the head of bytes.
SizeAt(b) == IF b[1] < TopBit THEN b[1]
             ELSE BigEndian([SubSeq(b, 1, 4) EXCEPT ![1] = @ - TopBit])
SizeLen(b) == IF b[1] < TopBit THEN 1 ELSE 4
DecodeOne(s) ==
    IF s.rest = <<>> THEN s
    ELSE LET b == s.rest
             c == SubSeq(b, SizeLen(b) + 1, Len(b))
             e == SubSeq(c, SizeLen(c) + 1, Len(c))
             n == SizeAt(b)
             v == SizeAt(c)
         IN [rest |-> SubSeq(e, n + v + 1, Len(e)),
             out |-> Append(s.out, [name |-> SubSeq(e, 1, n),
                                    value |-> SubSeq(e, n + 1, n + v)])]
Decode(b) ==
    Iterate(Len(b), [rest |-> b, out |-> <<>>],
            [n \in 1..Len(b) |->
               [s \in [rest : Seq(Byte), out : Seq(Pair)] |-> DecodeOne(s)]]).out
=============================================================================
